# Formal models of the lead-intelligence pipeline

TLA+ models of the Python backend under `src/backend/app`, the TLC runs that check them on
small instances, and theorems about them that TLAPS checks for every value of the constants.
Paths below are relative to `src/backend/app` unless they start with `src/`.

## 1. The system

A lead (a company with a web shop) goes through a pipeline:

    import -> discovery -> crawl -> extraction (+ evidence) -> (analysis, scoring: not written yet)

FastAPI handlers and RQ worker jobs run the stages; MongoDB holds all state; Redis holds the job
queues. The parts meet in four places only: the company's `processing.status`, the documents a
later stage reads of an earlier one, the RQ queue, and the HTTP API.

| Part | State | Operations | What makes it hard |
|---|---|---|---|
| Companies (`modules/companies`) | one document per company: processing status, workflow status, shortlisted, latest run ids; unique index on the domain | create (which executes a first discovery run in the handler), change either status (read, validate against a table, write) | two creations of one domain; two stages validate against the same old status |
| Imports (`modules/imports`) | none of its own | preview a file, import its rows as companies | cells told apart by position only, duplicates inside a file and with the store, one row of many failing |
| Discovery (`modules/discovery`) | `discovery_runs`, and `discovered_urls`, one document per run and URL | enqueue, execute (homepage links, robots, sitemaps, reconciliation), list the URLs page by page | cyclic sitemaps and limits, a URL met many times, one bad link, runs beside each other, a job that dies, a crawl that reads while a run saves |
| Crawling (`modules/crawling`) | `crawl_runs`, `crawl_targets`, `pages` (with a `document_version`), files of page content | enqueue, select targets, execute, retry the failed targets, cancel | handlers, jobs and several workers write the same documents, cancellation, crashes, stale copies; pacing, timeouts and robots rules; pages that are found unchanged |
| Extraction (`modules/extraction`) | `extraction_runs`, `facts` (one current fact per field, older ones stale), `fact_candidates`, `fact_conflicts`, `extractor_executions` | start (synchronous), cancel | duplicate starts, facts of several runs, a failure between two writes, sources that contradict one another |
| Evidence (`modules/evidence`) | `evidence` records, identified by page, field, location and quoted text | create, list | a record refused, or stored without an answer; two candidates that quote the same text |
| Queue (`queue.py`, `worker.py`) | RQ queues `crawling`, `discovery` | enqueue with a job id, cancel, run | a job that dies is not run again |
| Queue statistics, health, configuration | none | read only | nothing |
| Frontend (`src/frontend`) | view state | calls the HTTP API | nothing the pipeline depends on |

The hazards, each at its line and with the properties that watch it, are listed in
`PROJECT.json`.

## 2. Modules

| Module | Models | Checked by | Proofs |
|---|---|---|---|
| `ProcessingStatus` | the table of processing transitions and its best-effort use by a stage | the runs of `CompanyStatus`, `CrawlRun`, `Extraction`, `Discovery` | |
| `OptimisticRecord` | abstract: a versioned document that many processes read and write back | `CrawlRun` refines it, and `Extraction` by a theorem | |
| `CompanyImport` | imported files and single requests, and the companies they create | `MCCompanyImport` | `CompanyImport_proofs` |
| `CompanyStatus` | one company document: both statuses and everybody who changes them, each change a read and a write | `MCCompanyStatus` | `CompanyStatus_proofs` |
| `DiscoveredUrls` | functions: references to URLs, page types and priorities, the merge of all occurrences | with `Discovery` | |
| `Discovery` | the discovery runs of one company, from request to result, over one site | `MCDiscovery` | `Discovery_proofs` |
| `TargetSelection` | a function: which discovered URLs a crawl fetches, in which order | with `CrawlPlan` | `CrawlPlan_proofs` |
| `CrawlPlan` | crawl requests from the duplicate check to the stored targets | `MCCrawlPlan` | `CrawlPlan_proofs` |
| `CrawlRun` | one crawl run: the HTTP handlers, the queue, the workers' two jobs, the run, target and page documents, the company's status | `MCCrawlRun` | `CrawlRun_proofs` |
| `RobotsPolicy`, `PageContent` | functions: the rules and delays of a robots.txt; cleaner, text, hashes and signs of a page | with `SiteCrawl` | `SiteCrawl_proofs` |
| `SiteCrawl` | the jobs of several runs against one site, request by request, in time | `MCSiteCrawl` | `SiteCrawl_proofs` |
| `Extraction` | the extraction requests of one company, their runs, and the facts they share | `MCExtraction` | `Extraction_proofs` |
| `FieldCatalogue`, `Reconciliation`, `Extractors` | functions: the fields and their merge strategies and thresholds; the merge; what each extractor draws from a page | with `Facts` | `Facts_proofs` |
| `Facts` | one extraction run from its pages to its facts | `MCFacts` | `Facts_proofs` |

How they compose. `Discovery` extends `DiscoveredUrls`, `CrawlPlan` extends `TargetSelection`,
`SiteCrawl` extends `RobotsPolicy` and `PageContent`, `Facts` extends `Extractors` and
`Reconciliation`. The crawl service is cut in three by what the questions are about: `CrawlPlan` ends
with the stored targets, `CrawlRun` takes any targets and any outcome of a request and asks about
documents, versions and workers, `SiteCrawl` takes one job at a time and asks what a request's
outcome is. The extraction service is cut in two the same way: `Extraction` takes any candidates and
asks about runs and facts, `Facts` takes one run and asks which candidates and facts there are.
`CrawlRun`, `Extraction` and `Discovery` take the change of the company's status as one step and
know one stage each; `CompanyStatus` takes a stage as "start, end" and splits the change into its
read and its write, with all stages and the HTTP clients around it.

### CompanyImport

*State.* `store` maps the normalized domains of the stored companies to their country. `file[q]` is
the file a request brought, `rows[q]` its rows after the preview (or the one company a client
wants), `outcomes[q]` what has been reported of them so far.

*Actions.* `SubmitFile` is `import_storeleads_html` up to the loop: the format, the parser, the
preview (all of it awaits nothing: the gateway's `exists_by_domain` answers "unknown" at once).
`SubmitCompany` is `POST /api/companies`. Then per row `SkipRow`, or `CheckCompany`
(`exists_by_normalized_domain`) and `InsertCompany` (`insert_one` under the unique index); `FailRow`
is the database failing at either, the insert made or not; `Die` a server that stops.

*Abstractions.* A copied table is a sequence of rows of texts, a copied grid a sequence of cells, one
of them per row with the row's checkbox: `CellsOf` to `GridMarkup` stand for StoreLeads and the HTML
parser. A file's lines are what both layouts are made of, so that the properties can compare what
was stored with what the file says. `Shown` gives a website's text its shop, its number of leading
`www.` and whether its host is public. Platform and city are treated as country is. An empty
domain of a client is refused by the schema, and one of which nothing is left (`https://`) raises before
anything is read: neither is modelled.

*What the model showed beside the findings.* A website that `urlsplit` refuses (`[shop`) raises
through `build_import_row`, which "never raises for ordinary bad data", and the whole file is
answered 500; nothing has been created by then. The repetition of a shop whose first row failed is
reported `skipped_existing`, though no such company exists. `normalize_website` and
`normalize_domain` strip one `www.` each, so that of `www.shop` and `www.www.shop` the file's own
check sees two shops and the index one: the index decides. The first row of a table is its header,
also when it is data. A grid whose middle row lacks cells would lend it those of the next row. The
gateway never answers whether a domain exists, so the preview's "existing" is always 0. Imports start
no discovery, while the creation of one company executes it in the handler, where what a site makes
it raise is answered 500 although the company exists.

### CompanyStatus

*State.* `company` is the stored document reduced to the two statuses and the shortlisted flag.
`request[c]` is what a caller holds between its read and its write: the status it asks for and the
document it read. `reviews` is an observer, the workflow statuses written so far.

*Actions.* `change_processing_status` and `change_workflow_status` are `ReadAndValidate` and a write.
A stage starts (`StartStage`, `EnterStatus`: the working status, a refusal is logged and swallowed),
works, and ends (`EndStage`, `LeaveStatus`: done or failed); `Die` ends it anywhere. The PATCH
endpoints are `PatchProcessing`/`PatchWrite` and `PatchWorkflow`/`WriteWorkflow`. A crawl's retry
changes no status and so is not a stage here.

*Abstractions.* What a stage does while it works; creation of the company; the other fields.

*What the model showed beside the findings.* The write is unconditional, so two callers that
validate against the same status can together move the company along no edge of the table
(`companies/application/service.py:87`): a client's `imported` can land on a `discovering` company.

### Discovery

*State.* `runs`, `urls` (per run) and `company` are the stored documents; `queue` what RQ holds;
`work[r]` what the job or handler of a run holds in memory: candidates, the queue of sitemap files
with their depth, the files visited and fetched, the result, warnings. `site` is fixed: the
homepage's links, robots.txt, and what each sitemap is.

*Actions.* `EnqueueRun`, `EnqueueJob`, `RefuseJob` are `POST .../discovery-runs` (Redis may refuse);
`CreateCompanyRun` is the run that `POST /api/companies` creates and executes itself, beside the
worker. `StartRun` to `LeaveDiscovering` and `SetLatestRun` are `execute_discovery_run`, cut where it
waits: the status changes, the homepage, robots.txt, each sitemap (`NextSitemap`), the saving of the
URLs and of the run. `FailRun` is what the service makes of a homepage it cannot reach. A job or
handler is dead after `Die` (killed, timed out, failed by the database), after `SaveSomeUrls` (an
insert that stops in the middle) and after a reference that raises.

*Abstractions.* A fetch is its outcome. A reference is what the normalizer branches on: form, host,
port, page, query; a path is which table of rules it matches. Status changes of the company are one
step. The site does not change while runs last. The limit on a document's elements, the warning for
documents with both kinds of entries and `robots_urls_found` are left out, and the check for existing
URLs before saving, which is always empty for a new run.

*What the model showed beside the findings.* `homepage_url` is the final URL as the client gave it,
not normalized, so a homepage may be listed twice. A merged URL's priority and type may come from
different occurrences (deterministically: `MergeIsOrderFree`). At the limit on files the search stops
without a warning. One bad reference loses a whole sitemap. Sitemaps that robots.txt names are fetched
off the domain too; status codes of robots.txt and sitemaps are not looked at. The latest run of a
company is the last to finish, while `GET latest` sorts by creation. The worker passes no
`cancellation_check`. A job that dies leaves its run `running` and its company `discovering`; a Redis
that refuses leaves the run `queued`; nothing recovers either.

### CrawlPlan

*State.* `unsaved` and `stored` are the URLs of the discovery run; per request `asked`, its run in
`runs`, its stored `targets`, and `work`: the runs there were when it was checked, the pages of URLs it has listed, the
selection. `retried` is the run each retry is asked for and `retryPc` how far it is; `current` are the
jobs and retries whose copy of a run is the stored document, `cancelling` the runs whose jobs a cancel
handler has still to remove. `reopened` is an observer: the runs that were over when a request was
checked and that a retry has queued again since.

*Actions.* `CheckActive`, `CheckDiscoveryRun`, `CreateRun` are `enqueue_crawl_run`; `LoadRun`,
`StartRun`, `ListUrls` (one page per step), `SelectTargets`, `SaveTarget` (one insert per step),
`FinishRun` the job's first part; `SaveUrl` the discovery run going on; `CancelRun`, `CancelJobs` the
cancel handler and `Die`. `RetryLoad`, `RetryMark`, `RetryEnqueue` are `enqueue_retry` and its route:
they set a run back to `queued`, whatever its status, and never look for an equal one; `StartRetry`,
`FinishRetry`, `RetryDie` are its job. Every write of a run is filtered by its version (`SaveRun`).

*Abstractions.* URLs are numbered in alphabetical order; a candidate keeps what the ranking looks at.
The crawl of the targets is left to the other modules, and a retry selects nothing: what it does to a
run's status is kept.

*What the model showed beside the findings.* A crawl of a discovery run that is still running is
admitted, and its listing, which has no sort, may miss URLs and repeat them. A manual URL nobody
discovered is ignored. Pages of priority 1 may exceed `max_pages`. Two equal requests whose checks
overlap are both admitted, and a retry makes a run active again beside an equal one that was admitted
when it was over: `TwinsOverlap` says that equal runs are active together in these two ways only. The
task's document promises "the existing run or a typed conflict" for duplicates
(`src/docs/execution-plans/tasks/006—WebsiteCrawlingModule.md:833`, and `crawling/domain/repository.py:38`). A run
that died blocks equal requests until it is cancelled. A cancellation marks a finished run as well.

### CrawlRun

*State.* `run`, `targets`, `pages` and `company` are the stored documents, reduced to status,
`document_version` and summary counters; `jobs` is what waits in the queue. `copy[w]` is the
`CrawlRun` object a worker holds in memory and `work[w]` its list of targets with the versions it
holds of them (`held`) and the local variables of the loop. `retryCopy[r]` is the object of a
retry request between its read and its write. `overrun` is an observer: the requests begun since
the run became cancelled.

*Actions.* One action per `await` that reads or writes shared state, and one for the request to the
site; what happens between two of them is part of the first. `create_crawl_run` is Init (the insert)
and `EnqueueExecution`; `retry-failed` is `RetryLoad`, `RetryMark`, `RetryEnqueue`; `cancel` is
`CancelMark`, `CancelJobs`. `execute_crawl_run` is `LoadExecution` ... `FinishCompany`,
`retry_failed` is `LoadRetry`, `ListRetryable`, `NextRetry` and then, like the execution,
`_process_target` (`BlockTarget` or `FetchTarget`, `SavePage`, `SaveTargetUpdate`).
`update_run` and `update_target` write only when the stored version is the caller's; the service
ignores a rejected write (`... or run`) and goes on with its own object: `StoredRun`,
`ReturnedRun`. `Crash` ends a job anywhere (killed, timed out, an exception).

*Abstractions.*
- The order of the targets is any order: it covers `selected`'s order and a retry's order by URL.
- The queue is two lanes: the execution's job before the retries', in the order in which they can
  be enqueued (a client knows a run's id only after its create request was answered).
- The best-effort status change of the company is one step here; its read-validate-write race
  is in `CompanyStatus`.
- The queries of `retry_failed` for the retryable statuses are one step.
- `warnings` is kept as "any or none", the only thing `_determine_final_status` asks.
- `browser_fetched` cannot occur: no composition root passes a browser fetcher.
- RQ never delivers a job twice: `enqueue_call` is used without a retry policy, and a job that
  dies goes to the failed registry.
- One worker process is what is deployed today; the documents call several workers a future step
  and the version filter a preparation for it. The run `crawl_races` has two.

*What the model showed beside the findings.* `enqueue_retry` marks a run queued whatever status it
read, a running one included, although its docstring speaks of a terminal one: a retry that is marked
while the job of another works makes that job's last write stale, so that the stored counters miss
what it did (`SummaryAccurate` holds only when clients wait, section 4). A retry does not look
at the run between its targets and goes on after a cancellation
(`crawling/application/website_crawl_service.py:268`). `save_page` has no version filter
(`mongo_crawl_repository.py:248`): a stale retry, or one after a crash between page and target,
replaces a fetched page by a failed one. The cancel handler removes jobs by id after it has marked the
run (`crawling/api/router.py:310`): the job of a retry requested in between goes too and the run stays
queued. `_skip_remaining` counts `pages_skipped` on an object whose write the version filter then
rejects, so a cancelled run's stored counter stays 0. When Redis refuses a job after the insert, the
run stays queued and its key answers 409 for ever. A job that dies leaves its run running and its
company crawling; only a client's retry or cancellation moves the run on.

### SiteCrawl

*State.* Stored: `targets` (status per run and target), `pages` (per run and target: version, status,
validator, hashes, which contents are stored, which page it points back to), `latest` (the run that
fetched a target last). In memory: `job` (its targets left, its robots.txt, its pacing) and `fetch`
(attempt, redirects, the path asked for, time to sleep, validator sent). `since` is the time since the
last fetch was begun, which is what the code remembers; `quiet` observes the time since the site's last
request of any kind, robots.txt, retries and redirects included, and `job.last` what was asked for last.
`scenario` is fixed.

*Actions.* `ExecuteRun` and `RetryRun` begin a job; `FetchRobots`, `CheckPolicy`, `Send` lead to a
request; the answers are the site's: `AnswerPage` with any body, `AnswerNotModified`,
`AnswerRedirect`, `AnswerTransient` (a status that is retried, with or without Retry-After, a lost
connection), `AnswerUnusable` (what validation rejects, a status that is not retried, an address, a
size or a type that is refused), `AnswerDeadly` (an answer that raises). A redirect leads to a target's
path or elsewhere (`fetch.at`) and is followed. `RetryFetch` sends again after its backoff, `TimeOut` is
the total timeout, `Tick` a unit of time. Each answer is the whole of `_process_target` behind the
request: validation, hashing, comparison with the page before, storage, page and target.

*Abstractions.* One origin, one job at a time, no browser (no composition root passes one). Markup is
a sequence of tags, words and spelled-out tags; attributes, titles, metadata, the cap on a text's
length and white space are left out, and the shell's limits on text reduced to "no text". A digest is
what it was computed of. Fetching robots.txt takes no time. A 304 carries its validator and is sent
only for a page the site serves: the code also keeps the ETag of an error response, which a site that
keeps to HTTP never confirms. Times are small numbers in the order of the configured ones.

*What the model showed beside the findings.* The request after a failed target is not paced, whatever
Retry-After the failure carried; nor is robots.txt, nor the target after a retried or redirected fetch
with respect to the last of its requests. A retry waits for its backoff alone, half of the base delay at
least (0.5 s by default, less than the default delay of 1 s and a Crawl-delay of up to 10 s), or for what a
Retry-After says, and a redirect for nothing, while `crawling/domain/rate_limiter.py:17` speaks of every "request to
one company's site"; `FetchesArePaced` says what is kept. A redirect is followed to whatever path it names, also one that
robots.txt forbids (`RobotsObeyed`), although the task's document says that permission is checked "before fetching
each URL" (`src/docs/execution-plans/tasks/006—WebsiteCrawlingModule.md:305`). A Retry-After of up to 60 s exceeds the total timeout of 20 s, so such a page is
never tried again. The whole user agent is compared with the tokens of robots.txt, so groups for its
product token never bind it. The rules' parser merges the groups of an agent around a Crawl-delay,
the delays' parser does not. An answer that raises (`html_validator.py:110`,
`httpx_page_fetcher.py:252` and `:340`) ends the job. The phrase list of challenge pages matches words
in scripts. A content that could not be stored stays missing for as long as the page does not change, and
a page that needs a browser is not looked at again either. A retry gives the target a new page id, so `previous_page_id`
of a later unchanged page may lead nowhere (its content is copied, and loads). `&lt;script&gt;` in a
text is decoded and swallows what follows; blocks that are never closed are lost. That only seen text is
read (`TextIsSeen`) is true of every page but those that both spell the start of a style and carry
structured data, which the property names (`Plain`): of
`<p>&lt;style&gt;<script type="application/ld+json">"</style>code"</script></p>` the cleaner writes the
style tag out as markup, and the extractor then reads `code` (`crawling/domain/html_cleaner.py:126`).

### Extraction

*State.* `runs` and `facts` are the stored documents, a run reduced to status and
`document_version`, a fact to field, value, status, the run that wrote it and `updated_at` (a
logical clock). Per request: `own` is its `ExtractionRun` object, `left` the pages to visit, `found`
what they yielded, `todo` the fields still to reconcile, `seen` the facts it read in their slots,
`pending` the facts it has not saved yet. `fact_id` is not kept: no two documents share field and
`updated_at`.

*Actions.* `start_extraction_run`, cut at each access to shared state: `Check`
(`find_active_or_completed_run`), `Advance`, `Create`, `MarkRunning`, `ListPages`, then `CheckPage`
and `ExtractPage` per page, `Reconcile` or `LeaveUnknown` per field (`get_latest_fact` and
`reconcile_candidates`), `MarkStale` when the outcome supersedes, `SaveFact` per fact, `Finish`,
`FinishCompany`. `Cancel` is `cancel_run`, which no endpoint calls today. `Die` is a server that
stops or a database error, the duplicate key of two simultaneous upserts among them: nothing catches
either.

*Abstractions.*
- Which candidates the pages yield and which value a reconciliation picks are any choice (`Outcomes`),
  within what the merge strategies can return; `Facts` has what they are.
- `find_one_and_update(..., upsert=True)` is atomic; the insert it may turn into can fail (`Die`).
- Candidates, executions, evidence and conflict records are written and never read back by the
  pipeline; `project_latest_facts` and `update_latest_extraction_run` are handed to a gateway that
  does nothing with them.

*What the model showed beside the findings.* A run whose request died stays `running`, and its key
answers 409 for ever. Two equal requests whose checks overlap both run
(`structured_extraction_service.py:97`). A cancellation that lands after the last check leaves a
stored run that is `cancelled`, although its facts are saved, its company is `extracted` if the last
write was already made, and otherwise the answer still says `completed`. Two runs that reconcile one
field at a time may overwrite each other's fact without history (`HistoryIsKept` excludes only facts a
run had seen). A conflicting field that is now accepted, and an accepted array field whose values
change (`reconciliation.py:472`), are overwritten in place. The projection takes the first fact of
each field (`company_projection.py:103`) of a list that may hold stale ones and so may show the
oldest.

### Facts

*State.* `queue`, `page`, `extractor`, `drafts` are the loop of `_execute_run` and `_run_extractors`;
`candidates`, `executions`, `warnings` and `facts` what it has made, `evidence` the stored records.

*Actions.* `OpenPage` or `SkipPage` (not fetched, or no stored content), `RunExtractor` or
`FailExtractor` (it raises), `SaveEvidence` per draft or `RefuseEvidence` (refused, or stored without
an answer), `ClosePage`, `StopEarly` (the cancellation check between pages), and `SaveFacts`: every
field's candidates reconciled. `Extractors` says what each of the eleven extractors draws from which
place of a page, with which confidence and strength and in which order; `FieldCatalogue` and
`Reconciliation` what becomes of it.

*Abstractions.* A page is its type, what it shows by the place where it shows it, its structured data
and the wordings of its text; a wording stands for all that the same pattern rules match. The candidates
of a field are a set, whose members' `id`s are their places in the order in which the pages yielded
them: what the code decides by order ("first seen", a stable sort, the first of equal maxima) is decided
by `id`. `DraftsAssumption` is what the proofs know of the extractors: each yields a list of drafts whose
fields are in the catalogue, whose sources are enumerated and never `manual`, and whose confidence is
between 0 and 100 (`extractor.py`, and the validation of `FactCandidateDraft`); TLC evaluates it for the
eleven of them on the pages of the run. Left out: the
choice of page types and extractors, the counters of the summary, growth dates, agency credits,
redaction and caps, earlier facts (in `Extraction`), an exception inside the merge. `save_candidates`
writes what nothing reads.

*What the model showed beside the findings.* Evidence is identified by page, field, location and
quoted text, and no extractor gives a location: two candidates of one page that quote the same text
share one record, which the second rewrites (`mongo_evidence_repository.py:57`), from authoritative to
weak for the name in a homepage's JSON-LD and its logo's alt text, while `evidence/domain/models.py:60`
calls records immutable; a second run rewrites the run id of a record too. "Click and collect is not
available" matches the rules for the offer and for the denial, so it is always a conflict and never
False. Several extractors always stay below their field's threshold: frameworks, signals of AI tools,
telephone numbers and people found in text, titles, logos, headings and domains as names, and sampled
estimates. The content language overrides the language of the document element though it is less
confident. Each collection page states its own number of items as exact, so two collections conflict;
so do the stores of a contact page and of a locator. Numbers of equal confidence and ties between
manual values are decided by the order of the pages; so is the spelling of texts that agree. A job
title that is a list makes the whole organisation extractor raise. The counts a page's metadata could
carry and manual candidates are never produced; the confidence and freshness policies are never
called.

## 3. Runs

| Run | Instance | Shows |
|---|---|---|
| `crawl_calm` | 2 targets, 1 worker, 2 retries, robots-blocked targets retried, no cancellation | summary, status and pages agree with the targets after any outcomes; every run settles |
| `crawl_cancel` | 2 targets, 1 worker, 1 retry in any status, 1 cancellation, Redis may fail | the company leaves `crawling`, the execution stops and does not overwrite the cancellation, a cancelled run drains |
| `crawl_races` | 1 target, 2 workers, 2 retries of any status, 1 crash | a target shows an outcome only if its page is stored; a settled target is never overwritten; the run implements `OptimisticRecord` |
| `company_callers` | 2 discoveries, a crawl, a client, a reviewer, from every status of rest | a working status is held only while its stage works, or died; no stage undoes a review |
| `imports` | 2 imports of 10 files, a client who wants one of 2 shops, a company there before, 1 database failure, 1 death | every shop a file names is stored or reported failed, with the data of its own line; one request at most is told it created a company |
| `discovery_runs` | 2 runs, by the worker or the creating handler, 15 sites of 8 pages and 3 sitemaps, 3 files, depth 1, 1 death | the sitemap search is breadth first and complete within its limits; merging is free of order; completed runs are whole; the latest run completed; runs settle |
| `discovery_bad_link` | violation: the same sites, no deaths | one reference the site contains ends the job outside of its handlers |
| `crawl_plan` | 2 requests; 4 URLs, pages of 2, a maximum of 3 targets; or no URLs, 2 retries, 2 workers, cancellations (`Bounds`) | a listing after the discovery run is whole; the targets are the best there are within the limits; equal runs are active together only after checks that overlapped, or when a retry has reopened a run that was over |
| `crawl_site` | 3 targets, 5 robots.txt, 149 bodies, 3 jobs, in 4 scenarios | an unchanged page leads to its content and the content is current; a fetch keeps the delay but after a failed one, and a retry waits for its pause; only a redirect leads to a forbidden path; only seen text is read; jobs end |
| `crawl_hidden` | violation: 1 target, 149 bodies | text outside of closed blocks changes and the page is stored as unchanged |
| `extraction_requests` | 2 requests with different keys, 1 scalar field, 2 values, 2 pages, 1 cancellation, 1 death, 6 statuses of the company | one current fact per field, known fields stay known, history is kept; a cancellation is final; the company leaves `extracting` |
| `facts_pages` | 16 pages in 22 lists of 1 to 3, most in both orders, 1 fault | facts stand on stored evidence; a failure costs only what it concerns; contradictions are not decided by order; silence is no denial |

*Findings.* `discovery_bad_link`: `normalize_discovered_url` raises on a bad port although its comment
says it cannot; a link or a `Sitemap:` line with one leaves the run `running` and the company
`discovering`. `crawl_hidden`: hashes cover only the extracted text, although the module's docstring
says a text change is never hidden.

*Beside the runs.* `discovered_urls` keeps relative references as they are (`_candidates_for_link`
stores the link's own `href`), and a crawl fetches the stored reference, so the fetch rejects relative
ones ("unsupported scheme"). The models leave a target's stored reference out and this is seen by
reading: `website_discovery_service.py:318`, `website_crawl_service.py:339`.

*Bounds.* Two targets are needed for "remaining" and "already done" to differ, and for the homepage
rule; a second retry for counters that are taken back twice; a second worker for a stale copy. One
cancellation is enough because a second one only bumps the version again. Two extraction requests
are enough for a stale slot and a stale run, and two values for a contradiction and a conflict. One
scalar field is the case in which facts are superseded; larger instances hold too and are left to the
theorems, which hold for any number. Two imports and a client give every order of two checks and two
inserts with a third party; three lines give a line with neighbours on both sides, which is where
cells can slip. Three sitemaps make every shape of references there is up to a cycle through all;
files and depth are limited below what they list. Two retries let one reopen a run while another's job
is at work, and two workers let the jobs of equal runs overlap; a run has one cancel request at a time.
The constraint `Bounds` of `MCCrawlPlan` keeps these apart from the listing: where URLs are found there is one
worker, no retry and no cancellation, which listing and selecting never read; where nothing is found, requests,
jobs, retries and cancellations have every interleaving. The states cut off are checked too, but not left.
Two pages of URLs and a rest make a listing that a
save can fall into. Three runs of a page make a chain of two unchanged pages; the 144 pairs of pieces
put each construct before and behind each other; the delays are ordered as the configuration's
(minimum, default, robots, timeout), half a backoff is less than the delay as it is there, and one
redirect to a path that some robots.txt forbid, or elsewhere, shows where redirects lead. Lists of three pages let one be dropped between two that count; two lists have a page
twice, in one of which it is all there is.
`extraction_requests` uses the symmetry of values and requests, `crawl_races` that of workers and
requests, `imports` that of requests, `crawl_plan` that of requests and retries. `MaxCrashes`, `MaxDeaths`, `MaxFaults`
bound what fails; counters and versions are unbounded in the specification and bounded by the
number of requests.

*Fairness.* `CrawlRun`: weak fairness of each worker's next step (an RQ worker takes the next job and
a job runs until it ends) and of a handler that has begun. `Discovery`: while a worker or a
handler has something to do, one of them goes on; which one is left open. `SiteCrawl`: a job goes on
and time passes, but the site need not answer. No fairness for sending requests, for crashes or
for particular outcomes. The other modules state safety only: an import, an extraction or a change of
status is a request that the server carries out or not. Deadlock is not checked: the system stops
when no request is left.

The `TypeOK` of a module says what its state is; those of `CrawlRun`, `CompanyStatus`, `Extraction`,
`Discovery`, `CrawlPlan` and `Facts` are proved, and the runs spend their properties on what could be wrong.

## 4. Proofs

`CrawlRun_proofs`: `TypeCorrect`. The inductive invariant is `Typed`, that is `TypeOK` and `StepOK`:
which job a worker runs at which step (the execution's steps are only reached by execution jobs, a
target is in hand at `process`, `page` and `target`, ...), without which the counters' names and the
loop's target are not known to exist.

`CancelSurvives` and `RefinesOptimisticRecord`, in the same module, rest on `CancelInv`: a worker's or
request's copy is never newer than the stored run, and one of the same version as the stored run that
is an execution's was made when the run was not cancelled; so the version filter rejects every
execution's write after a cancellation. The refinement maps each step to a read, an accepted write,
an external write or a stutter. `ExecutionStops`, `PageFirst`, `SettledStay` and `NotStranded` rest on
`TargetsInv`: there is at most one execution, ever; every target a worker holds is stored, and a held
version equal to the stored one means the stored target is still open (`HeldOK`), so that
`UpdateTarget` only writes open targets. `NotStranded` assumes that nothing crashes and that the
company was not already `crawling`.

In its last part, `SummaryIsAccurate`, `StatusIsAccurate` and `PagesMatch` are over `CalmSpec`: the
behaviours of `Spec` in which nothing is cancelled or dies (`Undisturbed`), one job of the run is at
work at a time (`OneAtWork`: one worker, which is what is deployed, or a run with one job), and a client
asks for a retry while the run rests (`RetriesWait`). All three are needed: a cancelled run's counters
are lost by design, a dead job leaves counts undone, and a retry that overlaps another's job spoils its
last write. Every behaviour of the run `crawl_calm` meets them. `CalmInv` adds to `TargetsInv` that the
execution precedes every retry; that the job at work has the newest version of the run
(`CopiesCurrent`) and holds the stored versions of the targets it has not processed (`HeldNow`); that
its copy counts exactly the targets it does not hold any more, the stored run all of them (`CountsOK`);
and that a page matches its target but while the target is to follow (`PagesNow`). The sums are
cardinalities of sets of targets, one target larger or smaller at a step (`OneMoreTallied`,
`ListedTallied`).

`CompanyImport_proofs`: `CreatorIsOne` and `WholeImports`. `IInv` says that who is told of a creation
made it and that each company has one creator (`Claims`), and that every company that was not there at
first comes from a valid row that was reported as created or failed, or at which its request died
(`Origins`). `WholeImports` adds that a row which has been passed over names a company that is stored or
reported (`Handled`), for which a duplicate's first occurrence has to be found; it takes the facts about
the two parsers (`FilesAreRead`: a file's rows are those of its lines) as a hypothesis on the
files, which TLC evaluates for the files of its run.

`Discovery_proofs`: `LatestCompleted` (a run reads completed only behind the step that says so:
`Settled`), `WholeRuns` (`WholeRun`: what a job holds at each step is what it will have stored),
`TypeCorrect`, and the two theorems on the search, `SitemapsInOrder` and `SitemapsComplete`. `SearchOf`
is the invariant of a breadth-first search: the queue is ordered by depth and spans at most two levels,
whatever is within a distance has been visited, is queued or is reached from a queued file, and what was
fetched is in the order of the distances. The distances are a recursive function, of which
the proof first has to show that it exists (`Iterates`). The hypothesis `SitesAreTyped`
(references and documents within their types) is evaluated by TLC for the sites of the run.
`MergeOrderFree`: a candidate's class is one of four, and no two of the four tie with different types
(`ClassesAgree`), so that the candidates kept, backwards, merge to the same but for the reference
(`MergedBackwards`). It has one more hypothesis, `OccurrencesAgree`, of what the classifier and the link
extractor do with texts: a keyword is less sure than a path or a product sitemap, and the links of a
homepage to one URL are one link. TLC evaluates it, too.

`CrawlPlan_proofs`: `TypeCorrect`, `Twins`, `SettledListings`, `BestTargets`, from `PlanInv`. Its parts:
a run has the key of its request, and a job that starts with the stored document has an active one
(`StatusOK`), so that no job revives a run; what is retried exists (`RetryOK`); what a request saw when it
was checked is active with its key only if a retry has reopened it (`SeenOK`), and equal requests have equal keys because lists of the same
elements have the same permutations (`OnePermutation`); no URL is saved twice (`UrlsOK`), and a settled
listing is a beginning of the index that each page continues (`ListedOK`, `ReadOn`). `BestTargets` is the
correctness of the greedy choice: `SortedElements` shows that sorting by keys no two of which are alike
enumerates a set (each element's rank is the number of those below it, an injection into an
interval of the same size), and `FilledUpTo`, the loop's invariant, that each of the first n candidates
is chosen exactly if those chosen before it leave room, which later ones cannot change (`Considered`).

`SiteCrawl_proofs` first proves `OutcomeIsStandard`: for every robots.txt and path the rules' parser, the
choice of the groups and the longest match forbid exactly what the standard does. `Reads` says that the
groups made of the first n lines name the same agents and rules as these lines, and that the last group
is the open one. `SiteInvariance` proves `SiteInv`: the shape of the state (`Typed`), a job's targets are
those of its run and not yet done (`TodoSound`), every stored page agrees with what was served, and
an unchanged page with the page it points to, which is done and has the same contents (`PagesSound`),
and a validator sent is that of the page before (`ValidatorSound`). From it follow `UnchangedLoad`,
`ContentCurrent` (equal hashes are equal texts) and `DoneStays`. `FetchesPaced` needs that a job
that had an answer knows when it asked, and that what it remembers is the time of the site's last request
as long as the fetch is a single one (`Paced`), and for the retries that what has been
slept of a pause and what is left of it add up to it (`Waiting`); `RobotsAreObeyed` that the policy of a job is that of the
file it read, and that a fetch asks for its target until it is redirected (`Obeying`). `StoredTextIsSeen` rests on `TextIsOfThePage`, which is about any
sequence of symbols: the page is parsed once for the cleaner and, as the cleaner wrote it down, again for
the text extractor, and the two parses are run side by side. Of the first, the cleaner and a reader are in
the same suppressed elements, and the cleaner is in a body just if the parser is and nothing is
suppressed (`Together`); each symbol writes down at most one, which is the end of a body, structured
data, the start of a body, a tag, or a word that is seen (`Turn`). Of the second, the extractor skips
exactly what the parser reads as a body (`SkipIn`), and while the page is in a body, so is what was written
down of it, in one that ends no earlier (`Aligned`); a spelled tag opens bodies that the page does not
have, which hides text but shows none, unless it is a style around structured data.

`CompanyStatus_proofs`: `TypeCorrect`, `WorkIsReal`, `ReviewsSurvive`. `WorkInv` adds to
`WorkingMeansWorked` that a caller about to write a working status is a stage that is entering it:
a stage that leaves, or a client, writes none. `WorkIsReal` assumes that clients do not set
working statuses by hand and that the company has none at first; without it the property is false.

`Extraction_proofs`: `TypeCorrect`; `CancellationIsFinal` from `CopiesOK` (a working request's copy
is not newer than the stored run, and when it is as new the stored run is not cancelled);
`RunsRefineOptimisticRecord` from `CopiesOK` too, and from `RunInserted` (a request at work has
inserted its run): each run's document, taken before it is inserted for what will be inserted,
implements `OptimisticRecord` with its request as the one writer, step by step
(`RunsAreOptimisticRecords`, stated there and in no run);
`NotStranded`, inductive by itself; `OneFactPerField`, `FieldsStayKnown` and `HistoryStays` from
`FactsOK`. Its parts: unsaved facts are held only from reconciliation to saving and are new to
everybody (`PendingOK`, which needs the clock, `DatesOK`); a request holds facts only for fields it
has finished with (`TodoOK`); and an accepted fact that a request saw and is going to contradict is
no longer in the slot when it saves (`SeenOK`), which is what marking before saving is for. Steps
that touch neither facts nor pending ones are dealt with once (`Quiet`).

`Facts_proofs`: `TypeCorrect`, `FailuresAreLocal`, `AcceptedAreEvidenced`, `OrderIsImmaterial` and
`DenialsAreFounded`, for
any pages, any lists of them, any number of failures and any extractors that yield drafts. `FactsInv` ties
the steps of the loop to what they leave behind: no extractor that supports a page is passed over
(`AllRun`); the drafts in hand are those of the extractor that ran last (`InHand`); every candidate is a draft of an extractor
that succeeded (`Sourced`), and every such draft is in hand, lost with its evidence or a candidate
(`Handled`); a candidate's id is its place and its evidence is stored (`Documented`); the facts are the
outcomes of the candidates (`Decided`). `AcceptedAreEvidenced` then needs that each merge strategy
selects a non-empty part of the candidates it was given (`OutcomeSupported`). `OrderIsImmaterial` is
about the merge itself: the groups of those that say the same divide the candidates that count
(`SameKeyGroups`), the ranking by authority, confidence and place has one first group (`TopIsTop`, for
which maxima and minima have to exist), and its lead over the second of 20 points says of every other
candidate that some member of the first outdoes it, and nothing less does (`FirstGroupWins`); exact
counts agree just if there is one of them (`NumericOutcome`). `DenialsAreFounded` goes through the four
outcomes of a merge of truth values (`BooleanOutcome`): no is accepted just if some candidate that counts says
no and none says yes, and a field that only ever says yes denies nothing (`CapabilitiesAreExplicit`); that a
candidate says what a page's wording says, and that every wording that was not lost is a candidate, is
`FactsInv` again (`HeardIsStated`).

Assumptions: those the modules name (`CrawlRunAssumption`, `CompanyStatusAssumption`,
`ExtractionAssumption`, `DiscoveryAssumption`, `ImportAssumption`, `CrawlPlanAssumption`,
`SiteCrawlAssumption`, `ScenariosAssumption`, `FactsAssumption`, `DraftsAssumption`,
`WordingsAssumption`: finite and disjoint sets of processes, options within
their types, a discovery run that saves a URL once, extractors that yield drafts, a business model that only its wordings speak of), which TLC evaluates in every run, and what the
statements say.

*What the proofs found.* In an earlier form of `OneCreator`, a request that had died excused any company
nobody claims; `DiedAt` now names the row it died at. `SitemapsWithin` counted references that the
normalizer rejects. In an earlier form of `FailuresStayLocal`, an
extractor that failed on a page left no candidate of it, which needs that no page is listed twice; but
`list_pages_by_run` (`mongo_crawl_repository.py:261`) has no sort, so that the batches of a long listing
can overlap while a retry writes pages. A candidate now needs an execution that succeeded, and the
theorem holds for lists with repetitions. `DenialsAreExplicit` had the same gap: of a page that is listed
twice one reading can lose its evidence and the other keep it, and the wording then counts all the same
(`Heard`); the run now has such a list. `ClassifyPageType`, `AssignPriority` and the parsers of
`PageContent` were `CASE`s whose guards overlapped: TLC takes the first that holds, the language any; they
are now in the order of the code. Overlapping retries break
`SummaryAccurate`, and the pages that `TextIsSeen` leaves out do break it, both recorded above.

Every invariant and every action property that a run checks and expects to hold is stated by a theorem.
Model-checked only: the liveness properties, which are out of the prover's reach.

## 5. Not modelled

- The browser fetcher (no composition root passes one) and the rendering of pages.
- The text of HTML and XML as characters: parsers are modelled by what they make of tags, cells and
  references.
- The checks of a URL's scheme, host and resolved address, one by one: they are one outcome.
- `company_projection.py` beyond what is said above, and the confidence and freshness policies: nothing
  that runs uses their results.
- Read-only endpoints, queue statistics, health, configuration, and the frontend.

## 6. Plan

What is left is composition: `CrawlRun` and `Extraction` as stages of `CompanyStatus`, each start and
end of theirs one of its steps.
