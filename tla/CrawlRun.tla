------------------------------ MODULE CrawlRun ------------------------------
(***************************************************************************)
(* The life of ONE crawl run, from the insert of its queued document on:   *)
(*                                                                         *)
(*   - the HTTP handlers that create, cancel and retry it                  *)
(*     (crawling/api/router.py), one request per element of a constant set;*)
(*   - the RQ queue between them and the workers (external);               *)
(*   - the worker jobs execute_crawl_run and retry_failed                  *)
(*     (crawling/application/website_crawl_service.py), one step per await *)
(*     that reads or writes shared state;                                  *)
(*   - the documents they share: the run, its targets and its pages        *)
(*     (crawling/infrastructure/mongo_crawl_repository.py), the first two  *)
(*     with the document_version filter, and the company's status.         *)
(*                                                                         *)
(* What a page contains, why a fetch fails and how long it takes are       *)
(* abstracted into the outcome of a target.                                *)
(***************************************************************************)
EXTENDS Integers, FiniteSets, ProcessingStatus

CONSTANTS
  Targets,               \* URLs target selection may pick
  Homepage,              \* the one whose page_type is HOMEPAGE
  NoTarget,              \* no target in hand
  Workers,               \* RQ worker processes
  RetryRequests,         \* POST .../retry-failed requests, one shot each
  CancelRequests,        \* POST .../cancel requests, one shot each
  RetryFrom,             \* run statuses in which a client asks for a retry
  HomepageFailureStatus, \* config.homepage_failure_marks_run
  RetryIncludesBlocked,  \* config.retry_includes_blocked_by_robots
  InitialCompany,        \* company statuses a run may be created in
  MaxCrashes,            \* bound: jobs that die half-way
  RedisMayFail           \* whether a call to Redis may fail

FinishedStatuses == {"completed", "completed_with_warnings", "partial", "failed"}
RunStatuses == {"queued", "running", "cancelled"} \cup FinishedStatuses

\* PageFetchStatus. browser_fetched needs a browser fetcher, which no
\* composition root provides, and fetching is never assigned.
FailedStatuses == {"failed", "rejected"}
FetchedStatuses == {"fetched", "browser_required"}
PageStatuses == FailedStatuses \cup FetchedStatuses \cup {"unchanged"}
TargetStatuses ==
  PageStatuses \cup {"absent", "queued", "skipped", "blocked_by_robots"}

RetryableStatuses ==
  FailedStatuses \cup (IF RetryIncludesBlocked THEN {"blocked_by_robots"} ELSE {})

ASSUME CrawlRunAssumption ==
  /\ IsFiniteSet(Targets)
  /\ NoTarget \notin Targets
  /\ Workers \cap RetryRequests = {}
  /\ HomepageFailureStatus \in {"partial", "failed"}
  /\ RetryIncludesBlocked \in BOOLEAN
  /\ RetryFrom \subseteq RunStatuses
  /\ InitialCompany \subseteq ProcessingStatuses
  /\ MaxCrashes \in Nat
  /\ RedisMayFail \in BOOLEAN

VARIABLES
  run,        \* the stored CrawlRun document
  targets,    \* the stored CrawlTarget documents of the run
  pages,      \* fetch_status of the stored CrawledPage of each URL
  company,    \* the company's processing status
  jobs,       \* jobs waiting in the crawling queue
  pc,         \* where each worker is
  job,        \* which job each worker runs
  copy,       \* each worker's in-memory CrawlRun object
  work,       \* each worker's in-memory targets and loop variables
  creator,    \* the create request: still to enqueue the job, or done
  retryPc,    \* where each retry request is
  retryCopy,  \* each retry request's in-memory CrawlRun object
  cancelPc,   \* where each cancel request is
  overrun,    \* observer: fetches begun since the run became cancelled
  crashes     \* jobs that died so far (bounded by MaxCrashes)

storeVars == <<run, targets, pages, company>>
workerVars == <<pc, job, copy, work>>
requestVars == <<creator, retryPc, retryCopy, cancelPc>>
vars == <<storeVars, jobs, workerVars, requestVars, overrun, crashes>>

JobKinds == {"execute", "retry"}
WorkerPcs == {"idle", "load", "advance", "mark", "select", "list", "check",
              "skip", "process", "page", "target", "finish", "company"}

Summaries == [selected : Nat, fetched : Nat, unchanged : Nat, failed : Nat,
              blocked : Nat, skipped : Nat, warned : BOOLEAN]
Runs == [status : RunStatuses, version : Nat, summary : Summaries]
TargetDocs == [status : TargetStatuses, version : Nat]
Works == [todo : SUBSET Targets, held : [Targets -> Nat],
          target : Targets \cup {NoTarget}, outcome : TargetStatuses,
          homepageFailed : BOOLEAN, wasCancelled : BOOLEAN]

EmptySummary == [selected |-> 0, fetched |-> 0, unchanged |-> 0, failed |-> 0,
                 blocked |-> 0, skipped |-> 0, warned |-> FALSE]
NoRun == [status |-> "queued", version |-> 0, summary |-> EmptySummary]
NoWork == [todo |-> {}, held |-> [t \in Targets |-> 0], target |-> NoTarget,
           outcome |-> "absent", homepageFailed |-> FALSE, wasCancelled |-> FALSE]

TypeOK ==
  /\ run \in Runs
  /\ targets \in [Targets -> TargetDocs]
  /\ pages \in [Targets -> PageStatuses \cup {"absent"}]
  /\ company \in ProcessingStatuses
  /\ jobs \in [execute : BOOLEAN, retry : Nat]
  /\ pc \in [Workers -> WorkerPcs]
  /\ job \in [Workers -> JobKinds \cup {"none"}]
  /\ copy \in [Workers -> Runs]
  /\ work \in [Workers -> Works]
  /\ creator \in {"push", "done"}
  /\ retryPc \in [RetryRequests -> {"new", "loaded", "marked", "done"}]
  /\ retryCopy \in [RetryRequests -> Runs]
  /\ cancelPc \in [CancelRequests -> {"new", "marked", "done"}]
  /\ overrun \in [JobKinds -> Nat]
  /\ crashes \in Nat

Init ==
  /\ run = [status |-> "queued", version |-> 1, summary |-> EmptySummary]
  /\ targets = [t \in Targets |-> [status |-> "absent", version |-> 0]]
  /\ pages = [t \in Targets |-> "absent"]
  /\ company \in InitialCompany
  /\ jobs = [execute |-> FALSE, retry |-> 0]
  /\ pc = [w \in Workers |-> "idle"]
  /\ job = [w \in Workers |-> "none"]
  /\ copy = [w \in Workers |-> NoRun]
  /\ work = [w \in Workers |-> NoWork]
  /\ creator = "push"
  /\ retryPc = [r \in RetryRequests |-> "new"]
  /\ retryCopy = [r \in RetryRequests |-> NoRun]
  /\ cancelPc = [c \in CancelRequests |-> "new"]
  /\ overrun = [k \in JobKinds |-> 0]
  /\ crashes = 0

-----------------------------------------------------------------------------
(* The repository.                                                         *)

AnyVersion(c) == TRUE    \* mutant: no version in the filter
\* Whether update_run's filter on document_version matches.
Fresh(c) == c.version = run.version

StoredUnversioned(c) == IF Fresh(c) THEN c ELSE run    \* mutant: no increment
\* The document update_run leaves stored.
StoredRun(c) == IF Fresh(c) THEN [c EXCEPT !.version = @ + 1] ELSE run

KeptRun(c) == c    \* mutant: the result of update_run is dropped
\* The object the service goes on with (`run = await update_run(run) or run`).
ReturnedRun(c) == IF Fresh(c) THEN [c EXCEPT !.version = @ + 1] ELSE c

UpdateAnyTarget(t, v, status) ==    \* mutant: no version in the filter
  targets' = [targets EXCEPT ![t] = [status |-> status, version |-> @.version + 1]]

\* update_target by a caller holding version v of target t.
UpdateTarget(t, v, status) ==
  targets' = IF targets[t].version = v
               THEN [targets EXCEPT ![t] = [status |-> status, version |-> v + 1]]
               ELSE targets

NoOverrun == [k \in JobKinds |-> 0]

\* The observer restarts when the run becomes or stops being cancelled.
WatchRun ==
  overrun' = IF (run.status = "cancelled") # (run'.status = "cancelled")
               THEN NoOverrun ELSE overrun

-----------------------------------------------------------------------------
(* The HTTP handlers.                                                      *)

\* create_crawl_run, after enqueue_crawl_run has inserted the document.
EnqueueExecution ==
  /\ creator = "push"
  /\ creator' = "done"
  /\ jobs' = [jobs EXCEPT !.execute = TRUE]
  /\ UNCHANGED <<storeVars, workerVars, retryPc, retryCopy, cancelPc, overrun, crashes>>

\* ... whose queue.enqueue_call raises: the run stays behind without a job.
EnqueueExecutionFails ==
  /\ RedisMayFail
  /\ creator = "push"
  /\ creator' = "done"
  /\ UNCHANGED <<storeVars, jobs, workerVars, retryPc, retryCopy, cancelPc, overrun, crashes>>

\* retry_failed_targets -> enqueue_retry: get_run.
RetryLoad(r) ==
  /\ retryPc[r] = "new"
  /\ run.status \in RetryFrom
  /\ retryPc' = [retryPc EXCEPT ![r] = "loaded"]
  /\ retryCopy' = [retryCopy EXCEPT ![r] = run]
  /\ UNCHANGED <<storeVars, jobs, workerVars, creator, cancelPc, overrun, crashes>>

\* enqueue_retry: status = QUEUED, update_run (its result is not looked at).
RetryMark(r) ==
  /\ retryPc[r] = "loaded"
  /\ retryPc' = [retryPc EXCEPT ![r] = "marked"]
  /\ run' = StoredRun([retryCopy[r] EXCEPT !.status = "queued"])
  /\ WatchRun
  /\ UNCHANGED <<targets, pages, company, jobs, workerVars, creator, retryCopy, cancelPc, crashes>>

\* retry_failed_targets: enqueue_call of the -retry job. The create request
\* has enqueued its own job by then (its caller names the run to others).
RetryEnqueue(r) ==
  /\ retryPc[r] = "marked"
  /\ creator = "done"
  /\ retryPc' = [retryPc EXCEPT ![r] = "done"]
  /\ \/ jobs' = [jobs EXCEPT !.retry = @ + 1]
     \/ RedisMayFail /\ UNCHANGED jobs
  /\ UNCHANGED <<storeVars, workerVars, creator, retryCopy, cancelPc, overrun, crashes>>

\* cancel_crawl_run -> mark_run_cancelled: no filter but the id.
CancelMark(c) ==
  /\ cancelPc[c] = "new"
  /\ cancelPc' = [cancelPc EXCEPT ![c] = "marked"]
  /\ run' = [run EXCEPT !.status = "cancelled", !.version = @ + 1]
  /\ WatchRun
  /\ UNCHANGED <<targets, pages, company, jobs, workerVars, creator, retryPc, retryCopy, crashes>>

\* cancel_crawl_run: best-effort removal of both job ids from the queue.
CancelJobs(c) ==
  /\ cancelPc[c] = "marked"
  /\ cancelPc' = [cancelPc EXCEPT ![c] = "done"]
  /\ \E redisFails \in [JobKinds -> {FALSE, RedisMayFail}] :
       jobs' = [execute |-> jobs.execute /\ redisFails["execute"],
                retry |-> IF redisFails["retry"] \/ jobs.retry = 0
                            THEN jobs.retry ELSE jobs.retry - 1]
  /\ UNCHANGED <<storeVars, workerVars, creator, retryPc, retryCopy, overrun, crashes>>

-----------------------------------------------------------------------------
(* The worker: taking and ending a job.                                    *)

\* The queue is FIFO: the run's execution was enqueued before any retry.
Dequeue(w) ==
  /\ pc[w] = "idle"
  /\ \/ /\ jobs.execute
        /\ jobs' = [jobs EXCEPT !.execute = FALSE]
        /\ job' = [job EXCEPT ![w] = "execute"]
     \/ /\ ~jobs.execute
        /\ jobs.retry > 0
        /\ jobs' = [jobs EXCEPT !.retry = @ - 1]
        /\ job' = [job EXCEPT ![w] = "retry"]
  /\ pc' = [pc EXCEPT ![w] = "load"]
  /\ UNCHANGED <<storeVars, copy, work, requestVars, overrun, crashes>>

\* The worker is free again and the job's objects are gone.
EndJob(w) ==
  /\ pc' = [pc EXCEPT ![w] = "idle"]
  /\ job' = [job EXCEPT ![w] = "none"]
  /\ copy' = [copy EXCEPT ![w] = NoRun]
  /\ work' = [work EXCEPT ![w] = NoWork]

\* The process is killed, the job times out, or an exception escapes: RQ
\* files the job as failed and never delivers it again.
Crash(w) ==
  /\ pc[w] # "idle"
  /\ crashes < MaxCrashes
  /\ crashes' = crashes + 1
  /\ EndJob(w)
  /\ UNCHANGED <<storeVars, jobs, requestVars, overrun>>

Goto(w, label) == pc' = [pc EXCEPT ![w] = label]

-----------------------------------------------------------------------------
(* execute_crawl_run.                                                      *)

\* get_run; a run cancelled before a worker picked it up is not processed.
LoadExecution(w) ==
  /\ pc[w] = "load" /\ job[w] = "execute"
  /\ \/ /\ run.status = "cancelled"
        /\ EndJob(w)
     \/ /\ run.status # "cancelled"
        /\ copy' = [copy EXCEPT ![w] = run]
        /\ Goto(w, "advance")
        /\ UNCHANGED <<job, work>>
  /\ UNCHANGED <<storeVars, jobs, requestVars, overrun, crashes>>

AdvanceToCrawling(w) ==
  /\ pc[w] = "advance"
  /\ company' = AdvancedProcessing(company, "crawling")
  /\ Goto(w, "mark")
  /\ UNCHANGED <<run, targets, pages, jobs, job, copy, work, requestVars, overrun, crashes>>

MarkRunning(w) ==
  LET running == [copy[w] EXCEPT !.status = "running"] IN
  /\ pc[w] = "mark"
  /\ run' = StoredRun(running)
  /\ copy' = [copy EXCEPT ![w] = ReturnedRun(running)]
  /\ WatchRun
  /\ Goto(w, "select")
  /\ UNCHANGED <<targets, pages, company, jobs, job, work, requestVars, crashes>>

\* _select_and_persist_targets: one upsert per selected URL, any selection.
SaveTarget(w) ==
  /\ pc[w] = "select"
  /\ \E t \in Targets \ work[w].todo :
       /\ targets' = [targets EXCEPT ![t] = [status |-> "queued", version |-> 1]]
       /\ work' = [work EXCEPT ![w].todo = @ \cup {t}, ![w].held[t] = 1]
  /\ UNCHANGED <<run, pages, company, jobs, pc, job, copy, requestVars, overrun, crashes>>

SelectionDone(w) ==
  /\ pc[w] = "select"
  /\ copy' = [copy EXCEPT ![w].summary.selected = Cardinality(work[w].todo)]
  /\ Goto(w, "check")
  /\ UNCHANGED <<storeVars, jobs, job, work, requestVars, overrun, crashes>>

KnownCancelled(w) == copy[w].status = "cancelled"    \* mutant: no re-read
\* What _run_targets learns from re-reading the run.
SeenCancelled(w) == run.status = "cancelled"

\* _run_targets: re-reads the run before each target and after the last one.
CheckCancellation(w) ==
  /\ pc[w] = "check" /\ job[w] = "execute"
  /\ \/ /\ SeenCancelled(w)
        /\ work' = [work EXCEPT ![w].wasCancelled = TRUE]
        /\ Goto(w, IF work[w].todo = {} THEN "finish" ELSE "skip")
     \/ /\ ~SeenCancelled(w) /\ work[w].todo = {}
        /\ Goto(w, "finish")
        /\ UNCHANGED work
     \/ /\ ~SeenCancelled(w)
        /\ \E t \in work[w].todo :
             work' = [work EXCEPT ![w].todo = @ \ {t}, ![w].target = t]
        /\ Goto(w, "process")
  /\ UNCHANGED <<storeVars, jobs, job, copy, requestVars, overrun, crashes>>

SkipOnlyNext(w) ==    \* mutant: the loop stops after its first target
  /\ pc[w] = "skip"
  /\ \E t \in work[w].todo : UpdateTarget(t, work[w].held[t], "skipped")
  /\ Goto(w, "finish")
  /\ UNCHANGED <<run, pages, company, jobs, job, copy, work, requestVars, overrun, crashes>>

\* _skip_remaining.
SkipTarget(w) ==
  /\ pc[w] = "skip"
  /\ \E t \in work[w].todo :
       /\ UpdateTarget(t, work[w].held[t], "skipped")
       /\ work' = [work EXCEPT ![w].todo = @ \ {t}]
       /\ Goto(w, IF work[w].todo = {t} THEN "finish" ELSE "skip")
  /\ copy' = [copy EXCEPT ![w].summary.skipped = @ + 1]
  /\ UNCHANGED <<run, pages, company, jobs, job, requestVars, overrun, crashes>>

-----------------------------------------------------------------------------
(* retry_failed.                                                           *)

\* get_run, whatever the run's status.
LoadRetry(w) ==
  /\ pc[w] = "load" /\ job[w] = "retry"
  /\ copy' = [copy EXCEPT ![w] = run]
  /\ Goto(w, "list")
  /\ UNCHANGED <<storeVars, jobs, job, work, requestVars, overrun, crashes>>

WithStatus(S) == {t \in Targets : targets[t].status \in S}

Untouched(n, k) == n        \* mutant: nothing is taken back
\* max(0, n - k).
Less(n, k) == IF k >= n THEN 0 ELSE n - k

\* list_targets_by_run of each retryable status; the counters of what is
\* about to be retried are taken back, never below zero.
ListRetryable(w) ==
  /\ pc[w] = "list"
  /\ work' = [work EXCEPT ![w].todo = WithStatus(RetryableStatuses),
                          ![w].held = [t \in Targets |-> targets[t].version]]
  /\ copy' = [copy EXCEPT
       ![w].summary.failed = Less(@, Cardinality(WithStatus(FailedStatuses))),
       ![w].summary.blocked =
          Less(@, Cardinality(WithStatus(RetryableStatuses \ FailedStatuses)))]
  /\ Goto(w, "check")
  /\ UNCHANGED <<storeVars, jobs, job, requestVars, overrun, crashes>>

\* The loop over targets_to_retry, which does not look at the run again.
NextRetry(w) ==
  /\ pc[w] = "check" /\ job[w] = "retry"
  /\ \/ /\ work[w].todo = {}
        /\ Goto(w, "finish")
        /\ UNCHANGED work
     \/ \E t \in work[w].todo :
          /\ work' = [work EXCEPT ![w].todo = @ \ {t}, ![w].target = t]
          /\ Goto(w, "process")
  /\ UNCHANGED <<storeVars, jobs, job, copy, requestVars, overrun, crashes>>

-----------------------------------------------------------------------------
(* _process_target, for both jobs.                                         *)

\* robots policy "disallowed": no request, no page.
BlockTarget(w) ==
  /\ pc[w] = "process"
  /\ work' = [work EXCEPT ![w].outcome = "blocked_by_robots"]
  /\ Goto(w, "target")
  /\ UNCHANGED <<storeVars, jobs, job, copy, requestVars, overrun, crashes>>

\* The request to the site and everything decided from its answer. A failure
\* always leaves a warning; other outcomes may.
FetchTarget(w) ==
  /\ pc[w] = "process"
  /\ \E outcome \in PageStatuses, warned \in BOOLEAN :
       /\ outcome \in FailedStatuses => warned
       /\ work' = [work EXCEPT ![w].outcome = outcome]
       /\ copy' = [copy EXCEPT ![w].summary.warned = @ \/ warned]
  /\ overrun' = IF run.status = "cancelled"
                  THEN [overrun EXCEPT ![job[w]] = @ + 1] ELSE overrun
  /\ Goto(w, "page")
  /\ UNCHANGED <<storeVars, jobs, job, requestVars, crashes>>

StoreGoodPage(w) ==     \* mutant: a failure leaves no page
  pages' = IF work[w].outcome \in FailedStatuses THEN pages
             ELSE [pages EXCEPT ![work[w].target] = work[w].outcome]

StoreFirstPage(w) ==    \* mutant: an insert instead of an upsert
  pages' = IF pages[work[w].target] # "absent" THEN pages
             ELSE [pages EXCEPT ![work[w].target] = work[w].outcome]

\* _persist_page, first half: save_page upserts on (run, url).
StorePage(w) == pages' = [pages EXCEPT ![work[w].target] = work[w].outcome]

SavePage(w) ==
  /\ pc[w] = "page"
  /\ StorePage(w)
  /\ Goto(w, "target")
  /\ UNCHANGED <<run, targets, company, jobs, job, copy, work, requestVars, overrun, crashes>>

\* The summary counter an outcome is counted in.
CounterOf(outcome) ==
  CASE outcome \in FailedStatuses      -> "failed"
    [] outcome \in FetchedStatuses     -> "fetched"
    [] outcome = "unchanged"           -> "unchanged"
    [] outcome = "blocked_by_robots"   -> "blocked"

\* _save_target_update, then the counters and the loop's bookkeeping.
SaveTargetUpdate(w) ==
  LET t == work[w].target
      outcome == work[w].outcome IN
  /\ pc[w] = "target"
  /\ UpdateTarget(t, work[w].held[t], outcome)
  /\ copy' = [copy EXCEPT ![w].summary[CounterOf(outcome)] = @ + 1]
  /\ work' = [work EXCEPT ![w].target = NoTarget, ![w].outcome = "absent",
                ![w].homepageFailed = @ \/ (t = Homepage /\ outcome \in FailedStatuses)]
  /\ Goto(w, "check")
  /\ UNCHANGED <<run, pages, company, jobs, job, requestVars, overrun, crashes>>

-----------------------------------------------------------------------------
(* Ending a run.                                                           *)

VerdictByCounts(summary, homepageFailed, wasCancelled) ==    \* mutant: no homepage rule
  CASE wasCancelled -> "cancelled"
    [] ~wasCancelled /\ summary.failed > 0 -> "completed_with_warnings"
    [] OTHER -> "completed"

\* _determine_final_status.
FinalStatus(summary, homepageFailed, wasCancelled) ==
  CASE wasCancelled -> "cancelled"
    [] ~wasCancelled /\ homepageFailed -> HomepageFailureStatus
    [] ~wasCancelled /\ ~homepageFailed ->
         IF summary.failed > 0 /\ summary.fetched = 0 /\ summary.unchanged = 0
           THEN "failed"
         ELSE IF summary.failed > 0 \/ summary.warned
           THEN "completed_with_warnings"
         ELSE "completed"

FinishRun(w) ==
  LET final == [copy[w] EXCEPT !.status =
                  FinalStatus(copy[w].summary, work[w].homepageFailed, work[w].wasCancelled)]
  IN
  /\ pc[w] = "finish"
  /\ run' = StoredRun(final)
  /\ WatchRun
  /\ \/ /\ job[w] = "execute"
        /\ copy' = [copy EXCEPT ![w] = ReturnedRun(final)]
        /\ Goto(w, "company")
        /\ UNCHANGED <<job, work>>
     \/ /\ job[w] = "retry"
        /\ EndJob(w)
  /\ UNCHANGED <<targets, pages, company, jobs, requestVars, crashes>>

VerdictOnSuccess(status) ==    \* mutant: only a crawl that worked ends the stage
  IF status \in FinishedStatuses \ {"failed"} THEN "crawled" ELSE "crawling"
CompanyVerdict(status) ==
  IF status \in FinishedStatuses \ {"failed"} THEN "crawled" ELSE "failed"

\* _finish_company_status, from the worker's own copy of the run.
FinishCompany(w) ==
  /\ pc[w] = "company"
  /\ company' = AdvancedProcessing(company, CompanyVerdict(copy[w].status))
  /\ EndJob(w)
  /\ UNCHANGED <<run, targets, pages, jobs, requestVars, overrun, crashes>>

-----------------------------------------------------------------------------
WorkerStep(w) ==
  \/ Dequeue(w)
  \/ LoadExecution(w) \/ AdvanceToCrawling(w) \/ MarkRunning(w)
  \/ SaveTarget(w) \/ SelectionDone(w) \/ CheckCancellation(w) \/ SkipTarget(w)
  \/ LoadRetry(w) \/ ListRetryable(w) \/ NextRetry(w)
  \/ BlockTarget(w) \/ FetchTarget(w) \/ SavePage(w) \/ SaveTargetUpdate(w)
  \/ FinishRun(w) \/ FinishCompany(w)

RetryContinues(r) == RetryMark(r) \/ RetryEnqueue(r)

Next ==
  \/ EnqueueExecution \/ EnqueueExecutionFails
  \/ \E r \in RetryRequests : RetryLoad(r) \/ RetryContinues(r)
  \/ \E c \in CancelRequests : CancelMark(c) \/ CancelJobs(c)
  \/ \E w \in Workers : WorkerStep(w) \/ Crash(w)

Spec == Init /\ [][Next]_vars

\* A worker keeps working and a handler that has started runs to its end;
\* nobody has to send a request, and nothing has to crash.
Fairness ==
  /\ WF_vars(EnqueueExecution)
  /\ \A r \in RetryRequests : WF_vars(RetryContinues(r))
  /\ \A c \in CancelRequests : WF_vars(CancelJobs(c))
  /\ \A w \in Workers : WF_vars(WorkerStep(w))

FairSpec == Spec /\ Fairness

-----------------------------------------------------------------------------
(* What is said about it. The runs of MCCrawlRun check these, and          *)
(* CrawlRun_proofs proves all but what must eventually happen.             *)

AllIdle == \A w \in Workers : pc[w] = "idle"
Count(S) == Cardinality(WithStatus(S))

\* A cancellation is never overwritten by somebody who did not know of it:
\* the status leaves "cancelled" only by a retry request, or a retry job,
\* that had read the run as cancelled. In particular an execution, whose
\* every write would carry a status of its own, never revives a run that was
\* cancelled under it (update_run's document_version filter).
CancelSurvivesExecution ==
  [][run.status = "cancelled" /\ run'.status # "cancelled" =>
       \/ \E r \in RetryRequests :
            /\ retryPc[r] = "loaded" /\ retryPc'[r] = "marked"
            /\ retryCopy[r].status = "cancelled"
       \/ \E w \in Workers :
            /\ job[w] = "retry" /\ pc[w] = "finish" /\ pc'[w] = "idle"
            /\ copy[w].status = "cancelled"]_vars

\* Cooperative cancellation of execute_crawl_run: from the moment the run is
\* cancelled its execution starts at most the one request it was about to
\* start (_run_targets re-reads the run before every target).
ExecutionStopsAfterCancel == overrun["execute"] <= 1

\* A target that was fetched, found unchanged or skipped keeps that result,
\* whoever else is working on the run (a stale update_target is rejected by
\* its version, and retry_failed lists failed targets only).
SettledTargetsStay ==
  [][\A t \in Targets :
       targets[t].status \in FetchedStatuses \cup {"unchanged", "skipped"} =>
         targets'[t] = targets[t]]_vars

\* No target reports the outcome of a request whose page was not stored:
\* whatever dies, and wherever, the page is written first (_persist_page).
PagePrecedesTarget ==
  \A t \in Targets : targets[t].status \in PageStatuses => pages[t] # "absent"

\* With nobody at work, a finished run's stored summary is the tally of its
\* targets, over any number of retries that are asked for while the run rests
\* (AC-33 of the crawling contract).
SummaryAccurate ==
  AllIdle /\ run.status \in FinishedStatuses =>
    /\ run.summary.selected = Count(TargetStatuses \ {"absent"})
    /\ run.summary.failed = Count(FailedStatuses)
    /\ run.summary.fetched = Count(FetchedStatuses)
    /\ run.summary.unchanged = Count({"unchanged"})
    /\ run.summary.blocked = Count({"blocked_by_robots"})
    /\ run.summary.skipped = Count({"skipped"})

\* With nobody at work, a finished run's stored status is the verdict on its
\* targets as they are: the homepage's failure shows, "failed" means that
\* something failed and nothing was obtained, "completed" that nothing failed.
StatusAccurate ==
  AllIdle /\ run.status \in FinishedStatuses =>
    run.status =
      IF Homepage \in WithStatus(FailedStatuses) THEN HomepageFailureStatus
      ELSE IF Count(FailedStatuses) = 0 THEN
        IF run.summary.warned THEN "completed_with_warnings" ELSE "completed"
      ELSE IF Count(FetchedStatuses \cup {"unchanged"}) = 0 THEN "failed"
      ELSE "completed_with_warnings"

\* With nobody at work, the stored page of a target shows the outcome the
\* target shows (both survive retries, which overwrite page and target); a
\* target the robots policy blocks on a retry keeps its failed page.
PagesMatchTargets ==
  AllIdle => \A t \in Targets :
    CASE targets[t].status \in PageStatuses -> pages[t] = targets[t].status
      [] targets[t].status = "blocked_by_robots" -> pages[t] \in FailedStatuses \cup {"absent"}
      [] OTHER -> pages[t] = "absent"

\* A company is "crawling" only while a worker executes its run: every way an
\* execution can end without dying takes the company out of that status.
CompanyNotStranded ==
  company = "crawling" =>
    \E w \in Workers : job[w] = "execute" /\ pc[w] \notin {"idle", "load", "advance"}

\* A run that waits or runs gets to a terminal status.
EveryRunSettles ==
  run.status \in {"queued", "running"} ~>
    run.status \in FinishedStatuses \cup {"cancelled"}

\* A cancelled run comes to rest with every stored target decided: fetched,
\* failed, blocked or skipped, none left queued.
CancelDrains ==
  run.status = "cancelled" ~>
    \/ run.status # "cancelled"
    \/ AllIdle /\ ~jobs.execute /\ WithStatus({"queued"}) = {}

\* The run document is an OptimisticRecord shared by the workers and the
\* retry requests.
Document == INSTANCE OptimisticRecord WITH
  Procs <- Workers \cup RetryRequests,
  Statuses <- RunStatuses,
  status <- run.status,
  version <- run.version,
  view <- [p \in Workers \cup RetryRequests |->
             IF p \in Workers THEN copy[p].version ELSE retryCopy[p].version]

\* Every step on the run's document is a read, a write based on the newest
\* version, a cancellation, or none of these.
RunIsOptimisticRecord == Document!Spec

=============================================================================
