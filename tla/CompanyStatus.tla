--------------------------- MODULE CompanyStatus ---------------------------
(***************************************************************************)
(* One company document and everybody who changes its two statuses:        *)
(*                                                                         *)
(*   - the stages (a discovery job, a crawl job, an extraction request),   *)
(*     each of which moves the company into its own status when it starts  *)
(*     and out of it when it ends, best effort (_advance_processing_status *)
(*     in the three services); a crawl's retry leaves it alone;            *)
(*   - the clients of PATCH .../processing-status and .../workflow-status  *)
(*     (companies/api/router.py).                                          *)
(*                                                                         *)
(* Every change is CompanyService.change_*_status: read the document,      *)
(* validate the transition against the table, write the one field. The     *)
(* read and the write are two steps, with the others in between. What a    *)
(* stage does between its two changes is left out.                         *)
(***************************************************************************)
EXTENDS Integers, Sequences, ProcessingStatus

CONSTANTS
  Stages,          \* executions of a stage, one shot each
  StageKind,       \* which stage each of them executes
  Clients,         \* PATCH processing-status requests, one shot each
  ClientStatuses,  \* the statuses they ask for
  Reviewers,       \* PATCH workflow-status requests, one shot each
  InitialStatuses, \* the statuses the company may have at first
  NoRequest        \* what a caller that has nothing to write holds

WorkflowStatuses ==
  {"unreviewed", "reviewed", "shortlisted", "not_suitable", "contacted", "customer", "archived"}

AllowedWorkflow ==
  [s \in WorkflowStatuses |->
     CASE s = "unreviewed"   -> {"reviewed", "shortlisted", "not_suitable", "archived"}
       [] s = "reviewed"     -> {"shortlisted", "not_suitable", "contacted", "archived"}
       [] s = "shortlisted"  -> {"contacted", "not_suitable", "archived"}
       [] s = "not_suitable" -> {"archived", "unreviewed"}
       [] s = "contacted"    -> {"customer", "not_suitable", "archived"}
       [] s = "customer"     -> {"archived"}
       [] s = "archived"     -> {"unreviewed"}]

WorkflowTransitionAllowed(current, attempted) ==
  attempted = current \/ attempted \in AllowedWorkflow[current]

\* The status of a company a stage works on.
WorkingStatus(kind) ==
  CASE kind = "discovery"  -> "discovering"
    [] kind = "crawl"      -> "crawling"
    [] kind = "extraction" -> "extracting"

\* The status a stage leaves the company in when it has worked.
DoneStatus(kind) ==
  CASE kind = "discovery"  -> "discovered"
    [] kind = "crawl"      -> "crawled"
    [] kind = "extraction" -> "extracted"

WorkingStatuses == {"discovering", "crawling", "extracting"}

Companies == [processing: ProcessingStatuses, workflow: WorkflowStatuses, shortlisted: BOOLEAN]
Requests == [status: ProcessingStatuses \cup WorkflowStatuses, read: Companies]

ASSUME CompanyStatusAssumption ==
  /\ StageKind \in [Stages -> {"discovery", "crawl", "extraction"}]
  /\ ClientStatuses \subseteq ProcessingStatuses
  /\ InitialStatuses \subseteq ProcessingStatuses
  /\ Stages \cap Clients = {} /\ Stages \cap Reviewers = {} /\ Clients \cap Reviewers = {}
  /\ NoRequest \notin Requests

Callers == Stages \cup Clients \cup Reviewers

VARIABLES
  company,  \* the stored document
  pc,       \* where each caller is
  request,  \* the status each caller is about to write, and the company it read
  reviews   \* observer: the workflow statuses written so far, oldest first

vars == <<company, pc, request, reviews>>

TypeOK ==
  /\ company \in Companies
  /\ pc \in [Callers -> {"new", "entering", "working", "leaving", "done", "dead"}]
  /\ request \in [Callers -> Requests \cup {NoRequest}]
  /\ reviews \in Seq(WorkflowStatuses)

Init ==
  /\ company \in [processing: InitialStatuses, workflow: {"unreviewed"}, shortlisted: {FALSE}]
  /\ pc = [c \in Callers |-> "new"]
  /\ request = [c \in Callers |-> NoRequest]
  /\ reviews = <<>>

-----------------------------------------------------------------------------
(* CompanyService.change_*_status: the read and the validation, then the   *)
(* write of the one field.                                                 *)

\* get_by_id and validate_*_transition: on to the write, or refused.
ReadAndValidate(c, attempted, allowed, next, refused) ==
  /\ request' = [request EXCEPT ![c] =
                   IF allowed THEN [status |-> attempted, read |-> company] ELSE NoRequest]
  /\ pc' = [pc EXCEPT ![c] = IF allowed THEN next ELSE refused]
  /\ UNCHANGED <<company, reviews>>

ReadProcessing(c, attempted, next, refused) ==
  ReadAndValidate(c, attempted, ProcessingTransitionAllowed(company.processing, attempted), next, refused)

\* The company after update_processing_status, whatever it is by now.
WholeDocument(c) == [request[c].read EXCEPT !.processing = request[c].status]  \* mutant: update()
WithProcessing(c) == [company EXCEPT !.processing = request[c].status]

WriteProcessing(c, next) ==
  /\ company' = WithProcessing(c)
  /\ pc' = [pc EXCEPT ![c] = next]
  /\ request' = [request EXCEPT ![c] = NoRequest]
  /\ UNCHANGED reviews

-----------------------------------------------------------------------------
(* The stages. A refused change is logged and swallowed.                   *)

StartStage(p) ==
  /\ pc[p] = "new"
  /\ ReadProcessing(p, WorkingStatus(StageKind[p]), "entering", "working")

EnterStatus(p) == pc[p] = "entering" /\ WriteProcessing(p, "working")

\* The status a stage that ends asks for: it succeeded or it failed.
PartialOutcome(kind) == {DoneStatus(kind), "partial"}  \* mutant: the table refuses it
Outcomes(kind) == {DoneStatus(kind), "failed"}

EndStage(p) ==
  /\ pc[p] = "working"
  /\ \E outcome \in Outcomes(StageKind[p]) : ReadProcessing(p, outcome, "leaving", "done")

LeaveStatus(p) == pc[p] = "leaving" /\ WriteProcessing(p, "done")

\* The worker is killed, the job times out, an exception escapes.
Die(p) ==
  /\ pc[p] \in {"entering", "working", "leaving"}
  /\ pc' = [pc EXCEPT ![p] = "dead"]
  /\ request' = [request EXCEPT ![p] = NoRequest]
  /\ UNCHANGED <<company, reviews>>

-----------------------------------------------------------------------------
(* The PATCH endpoints: a refused change is answered 409.                  *)

PatchProcessing(c) ==
  /\ pc[c] = "new"
  /\ \E s \in ClientStatuses : ReadProcessing(c, s, "leaving", "done")

PatchWrite(c) == pc[c] = "leaving" /\ WriteProcessing(c, "done")

PatchWorkflow(r) ==
  /\ pc[r] = "new"
  /\ \E s \in WorkflowStatuses :
       ReadAndValidate(r, s, WorkflowTransitionAllowed(company.workflow, s), "leaving", "done")

\* The company after update_workflow_status: the flag is set with SHORTLISTED only.
WithWorkflow(r) ==
  [company EXCEPT !.workflow = request[r].status,
                  !.shortlisted = @ \/ request[r].status = "shortlisted"]

WriteWorkflow(r) ==
  /\ pc[r] = "leaving"
  /\ company' = WithWorkflow(r)
  /\ reviews' = Append(reviews, request[r].status)
  /\ pc' = [pc EXCEPT ![r] = "done"]
  /\ request' = [request EXCEPT ![r] = NoRequest]

-----------------------------------------------------------------------------
StageStep(p) == StartStage(p) \/ EnterStatus(p) \/ EndStage(p) \/ LeaveStatus(p) \/ Die(p)

Next ==
  \/ \E p \in Stages : StageStep(p)
  \/ \E c \in Clients : PatchProcessing(c) \/ PatchWrite(c)
  \/ \E r \in Reviewers : PatchWorkflow(r) \/ WriteWorkflow(r)

Spec == Init /\ [][Next]_vars

-----------------------------------------------------------------------------
(* Properties.                                                             *)

WorkingOn(p) == pc[p] \in {"working", "leaving", "dead"}

\* A company is in the status of a stage at work only while an execution of
\* that stage is at work, or after one died, however the stages, whose reads
\* and writes of the status are apart, overtake each other (change_processing_status,
\* _finish_company_status): no late or stale write puts a company back into a
\* stage that has ended. It supposes that no client sets such a status by hand.
WorkingMeansWorked ==
  company.processing \in WorkingStatuses =>
    \E p \in Stages : WorkingOn(p) /\ WorkingStatus(StageKind[p]) = company.processing

\* The pipeline, which reads a company long before it writes its status, never
\* undoes what a reviewer wrote in between (update_processing_status,
\* update_workflow_status): the company shows the last review, and the flag
\* tells whether any review shortlisted it.
ReviewsStand ==
  /\ company.workflow = IF reviews = <<>> THEN "unreviewed" ELSE reviews[Len(reviews)]
  /\ company.shortlisted <=> \E i \in 1..Len(reviews) : reviews[i] = "shortlisted"

=============================================================================
