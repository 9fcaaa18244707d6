------------------------------- MODULE Facts -------------------------------
(***************************************************************************)
(* One extraction run from its pages to its facts                          *)
(* (extraction/application/structured_extraction_service.py, _execute_run  *)
(* from the listing of the pages to save_conflicts): every extractor is    *)
(* run on every page, the evidence of each draft is stored                 *)
(* (evidence/application/evidence_service.py) before the draft becomes a   *)
(* candidate, and the candidates of each field are reconciled.             *)
(*                                                                         *)
(* An extractor may raise, and the store may refuse a record of evidence,  *)
(* or store it and fail to say so. How the run's status moves, and what    *)
(* its facts do to earlier ones, is in module Extraction; the choice of    *)
(* page types and extractors a request may make is left out.               *)
(***************************************************************************)
EXTENDS Extractors

CONSTANTS
  Pages,      \* the pages of the crawl run
  PageLists,  \* what may be listed of them: in any order, and a page that a long
              \* listing's batches overlap in more than once
  MaxFaults   \* bound: extractors that raise and evidence that is refused

ASSUME FactsAssumption ==
  /\ 0 \notin DOMAIN Pages
  /\ \A list \in PageLists : list \in Seq(DOMAIN Pages)
  /\ MaxFaults \in Nat

VARIABLES
  phase,       \* "pages", "facts" or "done"
  queue,       \* pages still to visit
  page,        \* the page in hand, or 0
  extractor,   \* how many of the extractors have been run on it
  drafts,      \* what the last of them yielded and is still to be stored
  candidates,  \* the candidates so far
  evidence,    \* the stored evidence
  executions,  \* [page, extractor, status] of every execution
  warnings,    \* the drafts lost with their evidence: [page, extractor, draft]
  facts,       \* the saved facts, by field
  faults       \* counted up to the bound

progress == <<queue, page, extractor, drafts>>
vars == <<phase, progress, candidates, evidence, executions, warnings, facts, faults>>

Init ==
  /\ phase = "pages"
  /\ queue \in PageLists
  /\ page = 0 /\ extractor = 0 /\ drafts = <<>>
  /\ candidates = <<>> /\ evidence = <<>>
  /\ executions = {} /\ warnings = <<>>
  /\ facts = <<>>
  /\ faults = 0

-----------------------------------------------------------------------------
(* The page an extractor is given.                                         *)

EligibleStatuses == {"fetched", "unchanged", "browser_fetched"}
AddressPlaces == {"host", "tld country"}
TextPlaces == {"trading as", "emails in the text", "numbers in the text", "pages in all"}

\* _build_page_context: either content may be missing, not both. Hosts and the
\* generator are also in the metadata of the page.
Context(p) ==
  LET Shown(place) ==
        IF place = "markers" /\ "cleaned" \notin p.kinds
        THEN SelectSeq(p.seen[place], LAMBDA m : m[1] # "html") ELSE p.seen[place]
      places == AddressPlaces \cup {"markers"} \cup (IF "text" \in p.kinds THEN TextPlaces ELSE {})
                  \cup (IF "cleaned" \in p.kinds THEN DOMAIN p.seen \ TextPlaces ELSE {})
  IN [type |-> p.type,
      seen |-> [place \in DOMAIN p.seen \cap places |-> Shown(place)],
      entities |-> IF "cleaned" \in p.kinds THEN p.entities ELSE <<>>,
      phrases |-> IF "text" \in p.kinds THEN p.phrases ELSE <<>>]

Readable(p) == p.status \in EligibleStatuses /\ p.kinds \cap {"cleaned", "text"} # {}

Supports(e, p) ==
  CASE e = "company_name" -> p.type \in {"homepage", "about"}
    [] e = "brands" -> p.type \in {"brands", "product"}
    [] OTHER -> TRUE

\* Extraction is deterministic: what each extractor makes of each page.
DraftsOf == [e \in ToSet(Registered) |-> [p \in DOMAIN Pages |-> Extract(e, Context(Pages[p]))]]

\* An extractor yields a list of drafts (extractor.py), whose fields, sources and
\* scores their model validates; what a person entered is not among them.
IsDraft(d) ==
  /\ DOMAIN d = {"field", "source", "confidence", "strength", "value", "fragment", "key", "exact", "sort_key"}
  /\ d.field \in FieldPaths
  /\ d.source \in DOMAIN SourcePriority \ {"manual"}
  /\ d.confidence \in 0..100
  /\ d.exact \in BOOLEAN

ASSUME DraftsAssumption ==
  \A e \in ToSet(Registered) : \A p \in DOMAIN Pages :
    /\ DraftsOf[e][p] \in Seq(ToSet(DraftsOf[e][p]))
    /\ \A d \in ToSet(DraftsOf[e][p]) : IsDraft(d)

-----------------------------------------------------------------------------
(* Pages and extractors.                                                   *)

Between == phase = "pages" /\ page = 0

\* The run was found cancelled: what has been found so far is kept.
StopEarly ==
  /\ Between /\ queue # <<>>
  /\ queue' = <<>>
  /\ UNCHANGED <<phase, page, extractor, drafts, candidates, evidence, executions, warnings, facts, faults>>

SkipPage ==
  /\ Between /\ queue # <<>>
  /\ ~Readable(Pages[Head(queue)])
  /\ queue' = Tail(queue)
  /\ UNCHANGED <<phase, page, extractor, drafts, candidates, evidence, executions, warnings, facts, faults>>

OpenPage ==
  /\ Between /\ queue # <<>>
  /\ Readable(Pages[Head(queue)])
  /\ page' = Head(queue) /\ queue' = Tail(queue)
  /\ extractor' = 0
  /\ UNCHANGED <<phase, drafts, candidates, evidence, executions, warnings, facts, faults>>

\* The next extractor that supports the page, if one is left.
Remaining ==
  {i \in DOMAIN Registered : i > extractor /\ Supports(Registered[i], Pages[page])}
Idle == phase = "pages" /\ page # 0 /\ drafts = <<>>

PageAbandoned(i, status) ==   \* mutant: what an extractor raises ends the page
  /\ extractor' = IF status = "failed" THEN Len(Registered) ELSE i
  /\ executions' = executions \cup {[page |-> page, extractor |-> Registered[i], status |-> status]}
Executed(i, status) ==
  /\ extractor' = i
  /\ executions' = executions \cup {[page |-> page, extractor |-> Registered[i], status |-> status]}

RunExtractor ==
  /\ Idle /\ Remaining # {}
  /\ LET i == Min(Remaining) IN
       /\ Executed(i, "succeeded")
       /\ drafts' = DraftsOf[Registered[i]][page]
  /\ UNCHANGED <<phase, queue, page, candidates, evidence, warnings, facts, faults>>

\* It raised: its drafts are lost, the page goes on.
FailExtractor ==
  /\ Idle /\ Remaining # {} /\ faults < MaxFaults
  /\ faults' = faults + 1
  /\ Executed(Min(Remaining), "failed")
  /\ UNCHANGED <<phase, queue, page, drafts, candidates, evidence, warnings, facts>>

ClosePage ==
  /\ Idle /\ Remaining = {}
  /\ page' = 0
  /\ UNCHANGED <<phase, queue, extractor, drafts, candidates, evidence, executions, warnings, facts, faults>>

-----------------------------------------------------------------------------
(* Evidence and candidates.                                                *)

\* create_evidence_record: the digest has neither run nor extractor nor value.
EvidenceId(d) == <<page, d.field, d.fragment>>
EvidenceRecord(d) == [strength |-> d.strength, extractor |-> Registered[extractor]]

\* save_evidence: an upsert of the whole record.
Stored(d) ==
  [id \in DOMAIN evidence \cup {EvidenceId(d)} |->
     IF id = EvidenceId(d) THEN EvidenceRecord(d) ELSE evidence[id]]

Candidate(d, ids) ==
  [id |-> Len(candidates) + 1, page |-> page, extractor |-> Registered[extractor], evidence |-> ids,
   field |-> d.field, source |-> d.source, confidence |-> d.confidence, strength |-> d.strength,
   value |-> d.value, fragment |-> d.fragment, key |-> d.key, exact |-> d.exact, sort_key |-> d.sort_key]

Undocumented(d) == Append(candidates, Candidate(d, {}))  \* mutant: kept without its evidence

SaveEvidence ==
  /\ drafts # <<>>
  /\ evidence' = Stored(Head(drafts))
  /\ candidates' = Append(candidates, Candidate(Head(drafts), {EvidenceId(Head(drafts))}))
  /\ drafts' = Tail(drafts)
  /\ UNCHANGED <<phase, queue, page, extractor, executions, warnings, facts, faults>>

\* EvidenceCreationFailedError, whether or not the record was written: the
\* candidate is dropped.
Dropped(d) == candidates
RefuseEvidence ==
  /\ drafts # <<>> /\ faults < MaxFaults
  /\ faults' = faults + 1
  /\ evidence' \in {evidence, Stored(Head(drafts))}
  /\ candidates' = Dropped(Head(drafts))
  /\ warnings' = Append(warnings, [page |-> page, extractor |-> Registered[extractor], draft |-> Head(drafts)])
  /\ drafts' = Tail(drafts)
  /\ UNCHANGED <<phase, queue, page, extractor, executions, facts>>

-----------------------------------------------------------------------------
(* Facts.                                                                  *)

CandidatesFor(f) == {c \in ToSet(candidates) : c.field = f}

FieldsFound == {candidates[i].field : i \in DOMAIN candidates}
OutcomeOf(f) == ReconcileCandidates(CandidatesFor(f), f)

\* _reconcile: an unknown field has no fact.
Reconciled ==
  LET outcome == [f \in FieldsFound |-> OutcomeOf(f)]
  IN [f \in {g \in FieldsFound : outcome[g].status # "unknown"} |-> outcome[f]]

SaveFacts ==
  /\ Between /\ queue = <<>>
  /\ facts' = Reconciled
  /\ phase' = "done"
  /\ UNCHANGED <<progress, candidates, evidence, executions, warnings, faults>>

Next ==
  \/ StopEarly \/ SkipPage \/ OpenPage
  \/ RunExtractor \/ FailExtractor \/ ClosePage
  \/ SaveEvidence \/ RefuseEvidence
  \/ SaveFacts

Spec == Init /\ [][Next]_vars

-----------------------------------------------------------------------------
(* Properties.                                                             *)

Lost(p, e) == {warnings[i].draft : i \in {j \in DOMAIN warnings : warnings[j].page = p /\ warnings[j].extractor = e}}
Executions(status) == {x \in executions : x.status = status}
Opened == {x.page : x \in executions}

TypeOK ==
  /\ phase \in {"pages", "done"}
  /\ queue \in Seq(DOMAIN Pages) /\ page \in DOMAIN Pages \cup {0}
  /\ extractor \in 0..Len(Registered)
  /\ \A i \in DOMAIN candidates : candidates[i].field \in FieldPaths /\ candidates[i].id = i
  /\ executions \subseteq [page : DOMAIN Pages, extractor : ToSet(Registered), status : {"succeeded", "failed"}]
  /\ DOMAIN facts \subseteq FieldPaths
  /\ \A f \in DOMAIN facts : facts[f].status \in {"accepted", "conflicting"}

\* A fact is accepted only from candidates, each of which left evidence of this
\* field on the page it came from in the store: no fact outlives the refusal of
\* its evidence (_materialize_candidate, _new_fact).
FactsAreEvidenced ==
  \A f \in DOMAIN facts : facts[f].status = "accepted" =>
    /\ facts[f].selected # {}
    /\ \A c \in facts[f].selected :
         \E id \in facts[f].evidence :
           /\ id \in DOMAIN evidence
           /\ id[1] = candidates[c].page
           /\ id[2] = f

\* An extractor that raises and a record that is refused cost what they concern
\* and nothing else: once a page is done, its candidates are the drafts of the
\* extractors that succeeded, save those lost with their evidence.
FailuresStayLocal ==
  /\ \A p \in Opened \ {page} : \A e \in ToSet(Registered) :
       Supports(e, Pages[p]) => \E x \in executions : x.page = p /\ x.extractor = e
  /\ \A x \in executions : x.page # page =>
    LET made == ToSet(DraftsOf[x.extractor][x.page])
        kept == {candidates[i] : i \in {j \in DOMAIN candidates :
                   candidates[j].page = x.page /\ candidates[j].extractor = x.extractor}}
        IsFrom(c, d) == \A k \in DOMAIN d : c[k] = d[k]
    IN /\ x.status = "succeeded" =>
            \A d \in made \ Lost(x.page, x.extractor) : \E c \in kept : IsFrom(c, d)
       /\ kept # {} => [x EXCEPT !.status = "succeeded"] \in executions
       /\ \A c \in kept : \E d \in made : IsFrom(c, d)

\* The candidates that count for a field, whatever their order.
Counting(f) == {c \in CandidatesFor(f) : c.confidence >= MinimumConfidence(f)}
Same(c, value) == Normalized(c.value) = Normalized(value)

\* A text is accepted if and only if every other text that counts has a source
\* at least 20 points less authoritative, an exact count if and only if no other
\* exact count differs; a field is in conflict only if nothing can be accepted,
\* and unknown only if nothing counts. So the order of the pages decides neither
\* ("never silently resolved by first-seen order", reconciliation.py).
Dominates(f, value) ==
  LET backed == {c \in Counting(f) : Same(c, value)}
  IN /\ backed # {}
     /\ \A d \in Counting(f) \ backed :
          \E c \in backed : SourcePriority[c.source] >= SourcePriority[d.source] + 20
ExactCounts(f) == {c.value : c \in {d \in Counting(f) : d.exact}}

OrderDecidesNothing ==
  phase = "done" =>
    \A f \in FieldsFound :
      LET choices == IF MergeStrategy(f) = "numeric_exact_or_estimate" THEN ExactCounts(f)
                     ELSE {c.value : c \in {d \in Counting(f) : Dominates(f, d.value)}}
      IN CASE MergeStrategy(f) \in {"scalar_preferred", "scalar_conflict_preserving"} ->
                IF Counting(f) = {} THEN f \notin DOMAIN facts
                ELSE IF choices = {} THEN facts[f].status = "conflicting"
                ELSE facts[f].status = "accepted" /\ facts[f].value \in choices
           [] MergeStrategy(f) = "numeric_exact_or_estimate" /\ choices # {} ->
                IF Cardinality(choices) > 1 THEN facts[f].status = "conflicting"
                ELSE facts[f].status = "accepted" /\ {facts[f].value} = choices
           [] OTHER -> TRUE

\* The wordings by which a page offers or denies something.
Wordings ==
  [offer |-> [f \in {"business.wholesale", "business.click_and_collect"} |->
                IF f = "business.wholesale" THEN {"wholesale pricing"}
                ELSE {"click and collect", "store pickup", "in-store pickup", "click and collect is not available"}],
   denial |-> [f \in {"business.wholesale", "business.click_and_collect"} |->
                IF f = "business.wholesale" THEN {"no wholesale program"}
                ELSE {"click and collect is not available"}]]
Worded(p, f, kind) == ToSet(Context(Pages[p]).phrases) \cap Wordings[kind][f]
Quotes(d, f, kind, w) == d.field = f /\ d.fragment = Text(w) /\ d.value = Truth(kind = "offer")

\* The business model is read off its wordings, by no other extractor, and each of
\* them counts.
ASSUME WordingsAssumption ==
  \A e \in ToSet(Registered) : \A p \in DOMAIN Pages : \A f \in DOMAIN Wordings.offer :
    LET made == {d \in ToSet(DraftsOf[e][p]) : d.field = f}
    IN IF e # "business_model" THEN made = {}
       ELSE /\ \A d \in made :
                 /\ d.confidence >= MinimumConfidence(f)
                 /\ \E kind \in DOMAIN Wordings : \E w \in Worded(p, f, kind) : Quotes(d, f, kind, w)
            /\ \A kind \in DOMAIN Wordings : \A w \in Worded(p, f, kind) : \E d \in made : Quotes(d, f, kind, w)

\* The pages read say it, in a wording that was not lost, or that another reading
\* of the same page kept.
Heard(f, kind) ==
  \E x \in Executions("succeeded") :
    /\ x.extractor = "business_model"
    /\ \E w \in Worded(x.page, f, kind) :
         \/ ~\E d \in Lost(x.page, x.extractor) : Quotes(d, f, kind, w)
         \/ \E i \in DOMAIN candidates : candidates[i].page = x.page /\ Quotes(candidates[i], f, kind, w)

\* A company is said not to do something only if a page denies it and no page
\* offers it, to do it only if a page offers it and none denies it; a page that
\* does neither says nothing, and a capability that can only be shown is never
\* denied ("never emits False ... without an explicit negative-evidence
\* candidate", reconciliation.py).
DenialsAreExplicit ==
  /\ \A f \in DOMAIN facts :
       MergeStrategy(f) = "boolean_positive_only" => facts[f].value = Truth(TRUE)
  /\ phase = "done" =>
       \A f \in DOMAIN Wordings.offer :
         IF Heard(f, "offer") /\ Heard(f, "denial") THEN facts[f].status = "conflicting"
         ELSE IF Heard(f, "offer") THEN facts[f].value = Truth(TRUE)
         ELSE IF Heard(f, "denial") THEN facts[f].value = Truth(FALSE)
         ELSE f \notin DOMAIN facts
=============================================================================
