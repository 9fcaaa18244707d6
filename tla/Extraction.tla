----------------------------- MODULE Extraction -----------------------------
(***************************************************************************)
(* The extraction of facts about one company: requests to extract (POST    *)
(* .../extraction-runs), each of which creates a run and carries it out    *)
(* before it answers (extraction/application/                              *)
(* structured_extraction_service.py), and the facts they share             *)
(* (extraction/infrastructure/mongo_extraction_repository.py).             *)
(*                                                                         *)
(* A request is a process that may be interleaved with others between any  *)
(* two accesses to the database. Fields and values are abstract; which     *)
(* candidates a page yields and which of them pass the thresholds is any   *)
(* choice. Candidates, evidence, executions and conflict records, which    *)
(* the pipeline writes and never reads back, are left out.                 *)
(***************************************************************************)
EXTENDS Naturals, FiniteSets, ProcessingStatus

CONSTANTS
  Requests,    \* extraction requests; each names the run it creates
  Key,         \* the idempotency key of each request
  Fields,      \* field paths
  ArrayFields, \* those whose candidates are merged into one list
  Values,      \* normalized values
  Starts,      \* processing statuses the company may have before the requests
  MaxPages,    \* bound: pages of the crawl run
  MaxCancels,  \* bound: cancellations
  MaxDeaths    \* bound: requests that die

ASSUME ExtractionAssumption ==
  /\ IsFiniteSet(Requests) /\ IsFiniteSet(Fields)
  /\ Requests \subseteq DOMAIN Key
  /\ ArrayFields \subseteq Fields
  /\ Starts \subseteq ProcessingStatuses \ {"extracting"}
  /\ MaxPages \in Nat /\ MaxCancels \in Nat /\ MaxDeaths \in Nat

ActiveStatuses == {"queued", "running"}
FinishedStatuses == {"completed", "completed_with_warnings", "partial"}
RunStatuses == {"none", "cancelled"} \cup ActiveStatuses \cup FinishedStatuses

Runs == [status: RunStatuses, version: Nat]
NoRun == [status |-> "none", version |-> 0]

\* A fact; "conflicting" has no value, an array field has several.
CurrentStatuses == {"accepted", "conflicting"}
Facts == [run: Requests, field: Fields, value: SUBSET Values,
          status: CurrentStatuses \cup {"stale"}, updated_at: Nat]

VARIABLES
  runs,     \* the stored runs
  facts,    \* the stored facts
  company,  \* processing.status of the company
  pc,       \* where each request is
  own,      \* its copy of its run
  left,     \* its pages still to visit
  found,    \* the values its pages yielded for each field
  verdict,  \* [cancelled, failed]: what it will say of the run
  todo,     \* its fields still to reconcile
  seen,     \* the facts it found in the slots of the fields it reconciled
  pending,  \* the facts it has not saved yet
  clock,    \* the last updated_at given to a fact
  cancels, deaths   \* counted up to their bounds

work == <<left, found, verdict>>
reconciled == <<todo, seen, pending>>
vars == <<runs, facts, company, pc, own, work, reconciled, clock, cancels, deaths>>

TypeOK ==
  /\ runs \in [Requests -> Runs]
  /\ facts \in SUBSET Facts
  /\ company \in ProcessingStatuses
  /\ pc \in [Requests -> {"new", "advance", "create", "mark", "list", "check", "page", "reconcile",
                          "stale", "save", "finish", "company", "done", "dead"}]
  /\ own \in [Requests -> Runs]
  /\ left \in [Requests -> Nat]
  /\ found \in [Requests -> [Fields -> SUBSET Values]]
  /\ verdict \in [Requests -> [cancelled: BOOLEAN, failed: BOOLEAN]]
  /\ todo \in [Requests -> SUBSET Fields]
  /\ seen \in [Requests -> SUBSET Facts]
  /\ pending \in [Requests -> SUBSET Facts]
  /\ clock \in Nat /\ cancels \in Nat /\ deaths \in Nat

Init ==
  /\ runs = [r \in Requests |-> NoRun]
  /\ facts = {}
  /\ company \in Starts
  /\ pc = [r \in Requests |-> "new"]
  /\ own = [r \in Requests |-> NoRun]
  /\ left = [r \in Requests |-> 0]
  /\ found = [r \in Requests |-> [f \in Fields |-> {}]]
  /\ verdict = [r \in Requests |-> [cancelled |-> FALSE, failed |-> FALSE]]
  /\ todo = [r \in Requests |-> {}]
  /\ seen = [r \in Requests |-> {}]
  /\ pending = [r \in Requests |-> {}]
  /\ clock = 0 /\ cancels = 0 /\ deaths = 0

-----------------------------------------------------------------------------
(* The repository.                                                         *)

\* update_run replaces the run only if its version is the writer's, and
\* returns the stored run, or nothing.
AnyVersion(r) == TRUE    \* mutant: no filter on the version
Fresh(r) == runs[r].version = own[r].version

UpdateRun(r, run) ==
  LET newer == [run EXCEPT !.version = @ + 1] IN
  IF Fresh(r)
    THEN runs' = [runs EXCEPT ![r] = newer] /\ own' = [own EXCEPT ![r] = newer]
    ELSE own' = [own EXCEPT ![r] = run] /\ UNCHANGED runs

\* The document in the slot of a field: get_latest_fact.
Current(f) == {d \in facts : d.field = f /\ d.status \in CurrentStatuses}

\* save_facts: the new fact overwrites the document in the slot, or is inserted.
Inserted(d) == facts \cup {d}    \* mutant: the fact is inserted whatever the slot holds
Upserted(d) ==
  IF Current(d.field) = {} THEN facts \cup {d}
  ELSE (facts \ {CHOOSE e \in Current(d.field) : TRUE}) \cup {d}

\* mark_previous_facts_stale: whatever is in the slot becomes history.
MarkedStale(f) ==
  {IF d \in Current(f) THEN [d EXCEPT !.status = "stale"] ELSE d : d \in facts}

-----------------------------------------------------------------------------
(* start_extraction_run, up to its pages.                                  *)

Goto(r, label) == pc' = [pc EXCEPT ![r] = label]

\* find_active_or_completed_run: another run of this key is answered instead.
Check(r) ==
  /\ pc[r] = "new"
  /\ Goto(r, IF \E q \in Requests : /\ Key[q] = Key[r]
                                    /\ runs[q].status \in ActiveStatuses \cup FinishedStatuses
               THEN "done" ELSE "advance")
  /\ UNCHANGED <<runs, facts, company, own, work, reconciled, clock, cancels, deaths>>

Advance(r) ==
  /\ pc[r] = "advance"
  /\ company' = AdvancedProcessing(company, "extracting")
  /\ Goto(r, "create")
  /\ UNCHANGED <<runs, facts, own, work, reconciled, clock, cancels, deaths>>

Create(r) ==
  /\ pc[r] = "create"
  /\ runs' = [runs EXCEPT ![r] = [status |-> "queued", version |-> 1]]
  /\ own' = [own EXCEPT ![r] = runs'[r]]
  /\ Goto(r, "mark")
  /\ UNCHANGED <<facts, company, work, reconciled, clock, cancels, deaths>>

MarkRunning(r) ==
  /\ pc[r] = "mark"
  /\ UpdateRun(r, [own[r] EXCEPT !.status = "running"])
  /\ Goto(r, "list")
  /\ UNCHANGED <<facts, company, work, reconciled, clock, cancels, deaths>>

ListPages(r) ==
  /\ pc[r] = "list"
  /\ \E n \in 0..MaxPages : left' = [left EXCEPT ![r] = n]
  /\ Goto(r, "check")
  /\ UNCHANGED <<runs, facts, company, own, found, verdict, reconciled, clock, cancels, deaths>>

-----------------------------------------------------------------------------
(* The loop over the pages.                                                *)

\* Whether the loop goes on: a page is left and the run, read again, is not cancelled.
GoesOn(r) == left[r] > 0 /\ runs[r].status # "cancelled"

CheckPage(r) ==
  /\ pc[r] = "check"
  /\ IF GoesOn(r)
       THEN Goto(r, "page") /\ UNCHANGED <<verdict, todo>>
       ELSE /\ verdict' = [verdict EXCEPT ![r].cancelled = left[r] > 0]
            /\ todo' = [todo EXCEPT ![r] = {f \in Fields : found[r][f] # {}}]
            /\ Goto(r, "reconcile")
  /\ UNCHANGED <<runs, facts, company, own, left, found, seen, pending, clock, cancels, deaths>>

\* A page is skipped with a warning, or its extractors yield candidates.
ExtractPage(r) ==
  /\ pc[r] = "page"
  /\ left' = [left EXCEPT ![r] = @ - 1]
  /\ \E more \in [Fields -> SUBSET Values] :
       found' = [found EXCEPT ![r] = [f \in Fields |-> @[f] \cup more[f]]]
  /\ Goto(r, "check")
  /\ UNCHANGED <<runs, facts, company, own, verdict, reconciled, clock, cancels, deaths>>

-----------------------------------------------------------------------------
(* _reconcile, one field at a time, and save_facts.                        *)

\* What reconcile_candidates may make of a field's candidates. (What passes
\* the thresholds and which source overrides which is left open.)
Outcomes(f, values) ==
  IF f \in ArrayFields
    THEN [status: {"accepted"}, value: (SUBSET values) \ {{}}]
    ELSE [status: {"accepted"}, value: {{v} : v \in values}]
           \cup (IF Cardinality(values) > 1 THEN [status: {"conflicting"}, value: {{}}] ELSE {})

\* _supersession and _supersession_on_conflict: a fact in the slot that had
\* been accepted with another value. Array fields supersede nothing.
SupersedesNothing(existing, outcome) == FALSE    \* mutant: nothing becomes history
Supersedes(existing, outcome) ==
  /\ existing.field \notin ArrayFields
  /\ existing.status = "accepted"
  /\ outcome.status = "conflicting" \/ existing.value # outcome.value

\* get_latest_fact and reconcile_candidates for one field.
Reconcile(r, f) ==
  /\ pc[r] = "reconcile" /\ f \in todo[r]
  /\ \E outcome \in Outcomes(f, found[r][f]) :
       /\ clock' = clock + 1
       /\ pending' = [pending EXCEPT ![r] = @ \cup
            {[run |-> r, field |-> f, value |-> outcome.value, status |-> outcome.status,
              updated_at |-> clock']}]
       /\ IF \E existing \in Current(f) : Supersedes(existing, outcome)
            THEN Goto(r, "stale") /\ UNCHANGED todo
            ELSE todo' = [todo EXCEPT ![r] = @ \ {f}] /\ UNCHANGED pc
  /\ seen' = [seen EXCEPT ![r] = @ \cup Current(f)]
  /\ UNCHANGED <<runs, facts, company, own, work, cancels, deaths>>

\* No candidate passes, or the reconciliation of the field raises: the fact
\* in the slot stays.
UnknownSupersedes(r, f) ==    \* mutant: an unknown outcome makes it history
  /\ pc[r] = "reconcile" /\ f \in todo[r]
  /\ facts' = MarkedStale(f)
  /\ todo' = [todo EXCEPT ![r] = @ \ {f}]
  /\ UNCHANGED <<runs, company, pc, own, work, seen, pending, clock, cancels, deaths>>
LeaveUnknown(r, f) ==
  /\ pc[r] = "reconcile" /\ f \in todo[r]
  /\ \E raised \in BOOLEAN : verdict' = [verdict EXCEPT ![r].failed = @ \/ raised]
  /\ todo' = [todo EXCEPT ![r] = @ \ {f}]
  /\ UNCHANGED <<runs, facts, company, pc, own, left, found, seen, pending, clock, cancels, deaths>>

\* mark_previous_facts_stale for the field just reconciled.
MarkStale(r) ==
  /\ pc[r] = "stale"
  /\ \E d \in pending[r] :
       /\ d.field \in todo[r]
       /\ facts' = MarkedStale(d.field)
       /\ todo' = [todo EXCEPT ![r] = @ \ {d.field}]
  /\ Goto(r, "reconcile")
  /\ UNCHANGED <<runs, company, own, work, seen, pending, clock, cancels, deaths>>

ReconciliationDone(r) ==
  /\ pc[r] = "reconcile" /\ todo[r] = {}
  /\ Goto(r, "save")
  /\ UNCHANGED <<runs, facts, company, own, work, reconciled, clock, cancels, deaths>>

SaveFact(r, d) ==
  /\ pc[r] = "save" /\ d \in pending[r]
  /\ facts' = Upserted(d)
  /\ pending' = [pending EXCEPT ![r] = @ \ {d}]
  /\ UNCHANGED <<runs, company, pc, own, work, todo, seen, clock, cancels, deaths>>

-----------------------------------------------------------------------------
(* The end of the run.                                                     *)

\* _final_status: whether there were warnings is left open.
FinalStatuses(v) ==
  IF v.cancelled THEN {"cancelled"} ELSE IF v.failed THEN {"partial"} ELSE FinishedStatuses

Finish(r) ==
  /\ pc[r] = "save" /\ pending[r] = {}
  /\ \E s \in FinalStatuses(verdict[r]) : UpdateRun(r, [own[r] EXCEPT !.status = s])
  /\ Goto(r, "company")
  /\ UNCHANGED <<facts, company, work, reconciled, clock, cancels, deaths>>

\* _finish_company_status decides from the request's own copy of the run.
FinishOnSuccess(r) ==    \* mutant: a cancelled run leaves the company alone
  /\ pc[r] = "company"
  /\ company' = IF own[r].status \in FinishedStatuses
                  THEN AdvancedProcessing(company, "extracted") ELSE company
  /\ Goto(r, "done")
  /\ UNCHANGED <<runs, facts, own, work, reconciled, clock, cancels, deaths>>
FinishCompany(r) ==
  /\ pc[r] = "company"
  /\ company' = AdvancedProcessing(company,
                  IF own[r].status \in FinishedStatuses THEN "extracted" ELSE "failed")
  /\ Goto(r, "done")
  /\ UNCHANGED <<runs, facts, own, work, reconciled, clock, cancels, deaths>>

\* cancel_run, at any time.
Cancel(r) ==
  /\ runs[r].status # "none"
  /\ cancels < MaxCancels
  /\ cancels' = cancels + 1
  /\ runs' = [runs EXCEPT ![r] = [status |-> "cancelled", version |-> @.version + 1]]
  /\ UNCHANGED <<facts, company, pc, own, work, reconciled, clock, deaths>>

\* The server stops, or the database refuses an access: a duplicate key, when
\* two requests insert the same slot, is one way.
Die(r) ==
  /\ pc[r] \notin {"new", "done", "dead"}
  /\ deaths < MaxDeaths
  /\ deaths' = deaths + 1
  /\ Goto(r, "dead")
  /\ UNCHANGED <<runs, facts, company, own, work, reconciled, clock, cancels>>

-----------------------------------------------------------------------------
RequestStep(r) ==
  \/ Check(r) \/ Advance(r) \/ Create(r) \/ MarkRunning(r) \/ ListPages(r)
  \/ CheckPage(r) \/ ExtractPage(r)
  \/ \E f \in Fields : Reconcile(r, f) \/ LeaveUnknown(r, f)
  \/ MarkStale(r) \/ ReconciliationDone(r)
  \/ \E d \in pending[r] : SaveFact(r, d)
  \/ Finish(r) \/ FinishCompany(r)

Next == \E r \in Requests : RequestStep(r) \/ Cancel(r) \/ Die(r)

Spec == Init /\ [][Next]_vars

-----------------------------------------------------------------------------
(* Properties.                                                             *)

\* A field of a company never has two current facts, however many runs save
\* theirs at the same time (save_facts upserts into the slot).
OneCurrentFact == \A d, e \in facts :
  d.field = e.field /\ {d.status, e.status} \subseteq CurrentStatuses => d = e

\* A field that had a fact has one again once nobody works on it: a fact is made
\* history only by a request that holds another for the field (_reconcile marks
\* before start_extraction_run saves). Only a request that died in between may
\* leave the field without a current fact.
KnownStaysKnown == \A d \in facts :
  \/ Current(d.field) # {}
  \/ \E r \in Requests : /\ pc[r] \in {"reconcile", "stale", "save", "dead"}
                         /\ \E e \in pending[r] : e.field = d.field

\* The documents a step removes from the facts; one that becomes stale stays.
Lost == {d \in facts : ~\E e \in facts' : e.run = d.run /\ e.field = d.field}

\* History is never removed, and a run overwrites an accepted fact with another
\* value only if it did not see it: what it saw and superseded it has first
\* marked stale (_supersession, mark_previous_facts_stale). Array fields, which
\* supersede nothing, are overwritten.
HistoryIsKept ==
  [][\A d \in Lost :
       /\ d.status # "stale"
       /\ d.status = "accepted" /\ d.field \notin ArrayFields =>
            \E e \in facts' \ facts :
              e.field = d.field /\ (e.value = d.value \/ d \notin seen[e.run])]_vars

\* A cancellation is final: no request overwrites it with the status it computed
\* from an older copy (update_run filters on the version).
CancelledStays ==
  [][\A r \in Requests : runs[r].status = "cancelled" => runs'[r].status = "cancelled"]_vars

\* A company is extracting only while a request extracts, or after one died;
\* every other end, a cancellation included, takes it out (_finish_company_status).
CompanyNotStranded ==
  company = "extracting" =>
    \E r \in Requests : pc[r] \notin {"new", "advance", "done"}

=============================================================================
