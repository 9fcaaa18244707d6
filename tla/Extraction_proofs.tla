------------------------- MODULE Extraction_proofs -------------------------
(***************************************************************************)
(* Theorems about Extraction, for any requests, fields, values and bounds. *)
(***************************************************************************)
EXTENDS Extraction, TLAPS

\* A page is read only when one is left.
PageLeft == \A r \in Requests : pc[r] = "page" => left[r] > 0

Typed == TypeOK /\ PageLeft

LEMMA InitTyped == Init => Typed
BY ExtractionAssumption
   DEF Init, Typed, TypeOK, PageLeft, ProcessingStatuses, NoRun, Runs, RunStatuses

\* Statuses of runs, and moves of the company, have their types.
LEMMA StatusTypes ==
  /\ ActiveStatuses \cup FinishedStatuses \cup {"cancelled"} \subseteq RunStatuses
  /\ \A v : FinalStatuses(v) \subseteq RunStatuses
  /\ \A c \in ProcessingStatuses, s \in {"extracting", "extracted", "failed"} :
       AdvancedProcessing(c, s) \in ProcessingStatuses
BY DEF ActiveStatuses, FinishedStatuses, RunStatuses, FinalStatuses, AdvancedProcessing,
       ProcessingStatuses

\* Writing a run to the database keeps the types of both copies.
LEMMA UpdateRunTypes ==
  ASSUME TypeOK, NEW r \in Requests, NEW s \in RunStatuses,
         UpdateRun(r, [own[r] EXCEPT !.status = s])
  PROVE  runs' \in [Requests -> Runs] /\ own' \in [Requests -> Runs]
<1> DEFINE run == [own[r] EXCEPT !.status = s]
           newer == [run EXCEPT !.version = @ + 1]
<1>1. own[r] \in Runs  BY DEF TypeOK
<1>a. run \in Runs  BY <1>1 DEF Runs
<1>b. newer \in Runs
  <2>1. newer = [run EXCEPT !.version = run.version + 1]  OBVIOUS
  <2> HIDE DEF run
  <2> QED  BY <1>a, <2>1 DEF Runs
<1>2. run \in Runs /\ newer \in Runs  BY <1>a, <1>b
<1>3. CASE Fresh(r)
  <2>1. runs' = [runs EXCEPT ![r] = newer] /\ own' = [own EXCEPT ![r] = newer]
    BY <1>3 DEF UpdateRun
  <2> QED  BY <1>2, <2>1 DEF TypeOK
<1>4. CASE ~Fresh(r)
  <2>1. runs' = runs /\ own' = [own EXCEPT ![r] = run]  BY <1>4 DEF UpdateRun
  <2> QED  BY <1>2, <2>1 DEF TypeOK
<1> QED  BY <1>3, <1>4

\* A fact made history is a fact.
LEMMA MarkedStaleTypes ==
  ASSUME TypeOK, NEW f
  PROVE  MarkedStale(f) \in SUBSET Facts
<1>1. ASSUME NEW d \in facts PROVE [d EXCEPT !.status = "stale"] \in Facts
  BY <1>1 DEF TypeOK, Facts
<1> QED  BY <1>1 DEF MarkedStale, TypeOK

\* The outcomes of a field give facts of the field that are current.
LEMMA OutcomeTypes ==
  ASSUME NEW f \in Fields, NEW values \in SUBSET Values, NEW o \in Outcomes(f, values)
  PROVE  o.status \in CurrentStatuses /\ o.value \in SUBSET Values
BY DEF Outcomes, CurrentStatuses

LEMMA StepTyped == Typed /\ [Next]_vars => Typed'
<1> SUFFICES ASSUME Typed, [Next]_vars PROVE Typed'  OBVIOUS
<1> USE DEF Typed, PageLeft
<1>0. TypeOK  OBVIOUS
<1>1. ASSUME NEW r \in Requests, Check(r) PROVE Typed'
  BY <1>1 DEF Check, Goto, TypeOK, work, reconciled
<1>2. ASSUME NEW r \in Requests, Advance(r) PROVE Typed'
  BY <1>2, StatusTypes DEF Advance, Goto, TypeOK, work, reconciled
<1>3. ASSUME NEW r \in Requests, Create(r) PROVE Typed'
  <2>1. [status |-> "queued", version |-> 1] \in Runs  BY DEF Runs, RunStatuses, ActiveStatuses
  <2>2. runs'[r] = [status |-> "queued", version |-> 1]  BY <1>3 DEF Create, TypeOK
  <2>3. runs' \in [Requests -> Runs] /\ own' \in [Requests -> Runs]
    BY <1>3, <2>1, <2>2 DEF Create, TypeOK
  <2> QED  BY <1>3, <2>3 DEF Create, Goto, TypeOK, work, reconciled
<1>4. ASSUME NEW r \in Requests, MarkRunning(r) PROVE Typed'
  <2>1. "running" \in RunStatuses  BY DEF RunStatuses, ActiveStatuses
  <2>2. runs' \in [Requests -> Runs] /\ own' \in [Requests -> Runs]
    BY <1>4, <2>1, UpdateRunTypes DEF MarkRunning
  <2> QED  BY <1>4, <2>2 DEF MarkRunning, Goto, TypeOK, work, reconciled
<1>5. ASSUME NEW r \in Requests, ListPages(r) PROVE Typed'
  <2>1. PICK n \in 0..MaxPages : left' = [left EXCEPT ![r] = n]  BY <1>5 DEF ListPages
  <2> QED  BY <1>5, <2>1, ExtractionAssumption DEF ListPages, Goto, TypeOK, work, reconciled
<1>6. ASSUME NEW r \in Requests, CheckPage(r) PROVE Typed'
  <2>1. CASE GoesOn(r)
    BY <1>6, <2>1 DEF CheckPage, GoesOn, Goto, TypeOK, work, reconciled
  <2>2. CASE ~GoesOn(r)
    <3> DEFINE b == left[r] > 0
    <3>1. b \in BOOLEAN  OBVIOUS
    <3>2. verdict' = [verdict EXCEPT ![r].cancelled = b]  BY <1>6, <2>2 DEF CheckPage
    <3>3. verdict' \in [Requests -> [cancelled: BOOLEAN, failed: BOOLEAN]]
      <4> HIDE DEF b
      <4> QED  BY <3>1, <3>2 DEF TypeOK
    <3>4. todo' \in [Requests -> SUBSET Fields]
      <4> DEFINE named == {f \in Fields : found[r][f] # {}}
      <4>1. named \in SUBSET Fields  OBVIOUS
      <4>2. todo' = [todo EXCEPT ![r] = named]  BY <1>6, <2>2 DEF CheckPage
      <4> HIDE DEF named
      <4> QED  BY <4>1, <4>2 DEF TypeOK
    <3> QED  BY <1>6, <2>2, <3>3, <3>4 DEF CheckPage, Goto, TypeOK, work, reconciled
  <2> QED  BY <2>1, <2>2
<1>7. ASSUME NEW r \in Requests, ExtractPage(r) PROVE Typed'
  <2>1. PICK more \in [Fields -> SUBSET Values] :
          found' = [found EXCEPT ![r] = [f \in Fields |-> @[f] \cup more[f]]]
    BY <1>7 DEF ExtractPage
  <2>2. [f \in Fields |-> found[r][f] \cup more[f]] \in [Fields -> SUBSET Values]
    BY DEF TypeOK
  <2>3. found' \in [Requests -> [Fields -> SUBSET Values]]
    BY <2>1, <2>2 DEF TypeOK
  <2>4. left' \in [Requests -> Nat]
    BY <1>7 DEF ExtractPage, TypeOK
  <2> QED  BY <1>7, <2>3, <2>4 DEF ExtractPage, Goto, TypeOK, work, reconciled
<1>8. ASSUME NEW r \in Requests, NEW f \in Fields, Reconcile(r, f) PROVE Typed'
  <2>1. PICK o \in Outcomes(f, found[r][f]) :
          /\ clock' = clock + 1
          /\ pending' = [pending EXCEPT ![r] = @ \cup
               {[run |-> r, field |-> f, value |-> o.value, status |-> o.status,
                 updated_at |-> clock']}]
          /\ IF \E existing \in Current(f) : Supersedes(existing, o)
               THEN Goto(r, "stale") /\ UNCHANGED todo
               ELSE todo' = [todo EXCEPT ![r] = @ \ {f}] /\ UNCHANGED pc
    BY <1>8 DEF Reconcile
  <2>0. found[r][f] \in SUBSET Values  BY DEF TypeOK
  <2>2. o.status \in CurrentStatuses /\ o.value \in SUBSET Values
    BY <2>0, <2>1, OutcomeTypes
  <2>3. [run |-> r, field |-> f, value |-> o.value, status |-> o.status,
         updated_at |-> clock'] \in Facts
    BY <2>1, <2>2 DEF Facts, TypeOK
  <2>4. pending' \in [Requests -> SUBSET Facts]
    BY <2>1, <2>3 DEF TypeOK
  <2>5. seen' \in [Requests -> SUBSET Facts]
    BY <1>8 DEF Reconcile, Current, TypeOK
  <2>6. pc[r] = "reconcile"  BY <1>8 DEF Reconcile
  <2>7. pc' \in [Requests -> {"new", "advance", "create", "mark", "list", "check", "page",
                              "reconcile", "stale", "save", "finish", "company", "done", "dead"}]
        /\ todo' \in [Requests -> SUBSET Fields]
        /\ \A q \in Requests : pc'[q] = "page" => pc[q] = "page"
    <3>1. CASE Goto(r, "stale") /\ UNCHANGED todo
      BY <2>6, <3>1 DEF Goto, TypeOK
    <3>2. CASE todo' = [todo EXCEPT ![r] = @ \ {f}] /\ UNCHANGED pc
      BY <3>2 DEF TypeOK
    <3> QED  BY <2>1, <3>1, <3>2
  <2> QED  BY <1>8, <2>1, <2>4, <2>5, <2>7 DEF Reconcile, TypeOK, work
<1>9. ASSUME NEW r \in Requests, NEW f \in Fields, LeaveUnknown(r, f) PROVE Typed'
  <2>1. PICK raised \in BOOLEAN : verdict' = [verdict EXCEPT ![r].failed = @ \/ raised]
    BY <1>9 DEF LeaveUnknown
  <2>2. verdict[r].failed \in BOOLEAN  BY DEF TypeOK
  <2>3. (verdict[r].failed \/ raised) \in BOOLEAN  BY <2>2
  <2>4. verdict' \in [Requests -> [cancelled: BOOLEAN, failed: BOOLEAN]]
    BY <2>1, <2>3 DEF TypeOK
  <2> QED  BY <1>9, <2>4 DEF LeaveUnknown, TypeOK, work, reconciled
<1>10. ASSUME NEW r \in Requests, MarkStale(r) PROVE Typed'
  <2>1. facts' \in SUBSET Facts /\ todo' \in [Requests -> SUBSET Fields]
    BY <1>10, <1>0, MarkedStaleTypes DEF MarkStale, TypeOK
  <2> QED  BY <1>10, <2>1 DEF MarkStale, Goto, TypeOK, work
<1>11. ASSUME NEW r \in Requests, ReconciliationDone(r) PROVE Typed'
  BY <1>11 DEF ReconciliationDone, Goto, TypeOK, work, reconciled
<1>12. ASSUME NEW r \in Requests, NEW d \in pending[r], SaveFact(r, d) PROVE Typed'
  <2>1. d \in Facts  BY DEF TypeOK
  <2>2. facts' \in SUBSET Facts  BY <1>12, <2>1 DEF SaveFact, Upserted, TypeOK
  <2> QED  BY <1>12, <2>2 DEF SaveFact, TypeOK, work
<1>13. ASSUME NEW r \in Requests, Finish(r) PROVE Typed'
  <2>1. PICK s \in FinalStatuses(verdict[r]) : UpdateRun(r, [own[r] EXCEPT !.status = s])
    BY <1>13 DEF Finish
  <2>2. s \in RunStatuses  BY StatusTypes
  <2>3. runs' \in [Requests -> Runs] /\ own' \in [Requests -> Runs]
    BY <2>1, <2>2, UpdateRunTypes
  <2> QED  BY <1>13, <2>3 DEF Finish, Goto, TypeOK, work, reconciled
<1>14. ASSUME NEW r \in Requests, FinishCompany(r) PROVE Typed'
  BY <1>14, StatusTypes DEF FinishCompany, Goto, TypeOK, work, reconciled
<1>15. ASSUME NEW r \in Requests, Cancel(r) PROVE Typed'
  <2>1. [status |-> "cancelled", version |-> runs[r].version + 1] \in Runs
    BY DEF TypeOK, Runs, RunStatuses
  <2>2. runs' \in [Requests -> Runs]  BY <1>15, <2>1 DEF Cancel, TypeOK
  <2> QED  BY <1>15, <2>2 DEF Cancel, TypeOK, work, reconciled
<1>16. ASSUME NEW r \in Requests, Die(r) PROVE Typed'
  BY <1>16 DEF Die, Goto, TypeOK, work, reconciled
<1>17. ASSUME UNCHANGED vars PROVE Typed'
  BY <1>17 DEF vars, TypeOK, work, reconciled
<1> QED
  BY <1>1, <1>2, <1>3, <1>4, <1>5, <1>6, <1>7, <1>8, <1>9, <1>10, <1>11, <1>12, <1>13, <1>14,
     <1>15, <1>16, <1>17
  DEF Next, RequestStep

\* The variables keep their types, with any number of requests at a time.
THEOREM TypeCorrect == Spec => []TypeOK
<1>1. Spec => []Typed  BY InitTyped, StepTyped, PTL DEF Spec
<1> QED  BY <1>1, PTL DEF Typed

-----------------------------------------------------------------------------
(* Cancellation.                                                           *)

\* A request's copy is never newer than the stored run, and while it works a
\* copy that is as new as the stored run shows that nobody has cancelled it.
Working(r) ==
  pc[r] \in {"mark", "list", "check", "page", "reconcile", "stale", "save"}
CopiesOK == \A r \in Requests :
  /\ pc[r] \in {"new", "advance", "create"} => runs[r] = NoRun
  /\ Working(r) => /\ own[r].version <= runs[r].version
                   /\ Fresh(r) => runs[r].status # "cancelled"

LEMMA InitCopies == Init => CopiesOK
BY DEF Init, CopiesOK, Working

LEMMA StepCopies ==
  ASSUME Typed, CopiesOK, [Next]_vars
  PROVE  /\ CopiesOK'
         /\ \A q \in Requests : runs[q].status = "cancelled" => runs'[q].status = "cancelled"
<1> DEFINE Goal == /\ CopiesOK'
                   /\ \A q \in Requests : runs[q].status = "cancelled" => runs'[q].status = "cancelled"
<1> USE DEF Typed
\* The steps that write no run and start no work.
<1>1. ASSUME UNCHANGED <<runs, own>>,
             \A q \in Requests : /\ pc'[q] \in {"new", "advance", "create"} =>
                                       pc[q] \in {"new", "advance", "create"}
                                 /\ Working(q)' => Working(q)
      PROVE  Goal
  <2>1. ASSUME NEW q \in Requests, pc'[q] \in {"new", "advance", "create"} PROVE runs'[q] = NoRun
    BY <1>1, <2>1 DEF CopiesOK
  <2>2. ASSUME NEW q \in Requests, Working(q)'
        PROVE  own'[q].version <= runs'[q].version /\ (Fresh(q)' => runs'[q].status # "cancelled")
    <3>1. Working(q)  BY <1>1, <2>2
    <3> QED  BY <1>1, <3>1 DEF CopiesOK, Fresh
  <2> QED  BY <1>1, <2>1, <2>2 DEF CopiesOK
<1>2. ASSUME NEW r \in Requests, Create(r) PROVE Goal
  <2>1. runs[r] = NoRun  BY <1>2 DEF Create, CopiesOK
  <2>2. /\ runs' = [runs EXCEPT ![r] = [status |-> "queued", version |-> 1]]
        /\ own' = [own EXCEPT ![r] = [status |-> "queued", version |-> 1]]
        /\ pc' = [pc EXCEPT ![r] = "mark"]
    BY <1>2 DEF Create, Goto, TypeOK
  <2> QED  BY <2>1, <2>2 DEF CopiesOK, Fresh, Working, TypeOK, NoRun
<1>3. ASSUME NEW r \in Requests, Working(r), NEW s \in RunStatuses,
             UpdateRun(r, [own[r] EXCEPT !.status = s]),
             NEW next, pc' = [pc EXCEPT ![r] = next],
             next \notin {"new", "advance", "create"},
             next = "company" \/ s # "cancelled"
      PROVE  CopiesOK' /\ (runs[r].status = "cancelled" => runs'[r].status = "cancelled")
             /\ \A q \in Requests \ {r} : runs'[q] = runs[q]
  <2>0. own[r] \in Runs /\ runs[r] \in Runs  BY DEF TypeOK
  <2>1. CASE Fresh(r)
    <3> DEFINE newer == [[own[r] EXCEPT !.status = s] EXCEPT !.version = @ + 1]
    <3>1. runs' = [runs EXCEPT ![r] = newer] /\ own' = [own EXCEPT ![r] = newer]
      BY <1>3, <2>1 DEF UpdateRun
    <3>2. newer.status = s  BY <2>0 DEF Runs
    <3>3. runs[r].status # "cancelled"  BY <1>3, <2>1 DEF CopiesOK
    <3>4. newer.version \in Nat
      <4>1. newer.version = own[r].version + 1  BY <2>0 DEF Runs
      <4> QED  BY <2>0, <4>1 DEF Runs
    <3> HIDE DEF newer
    <3>5. runs'[r] = newer /\ own'[r] = newer  BY <3>1 DEF TypeOK
    <3>6. \A q \in Requests \ {r} : runs'[q] = runs[q] /\ own'[q] = own[q] /\ pc'[q] = pc[q]
      BY <1>3, <3>1 DEF TypeOK
    <3>7. pc'[r] = next  BY <1>3 DEF TypeOK
    <3>8. CopiesOK'
      BY <1>3, <3>2, <3>4, <3>5, <3>6, <3>7 DEF CopiesOK, Working, Fresh
    <3> QED  BY <3>3, <3>6, <3>8
  <2>2. CASE ~Fresh(r)
    <3>1. runs' = runs /\ own' = [own EXCEPT ![r] = [own[r] EXCEPT !.status = s]]
      BY <1>3, <2>2 DEF UpdateRun
    <3>2. own'[r].version = own[r].version  BY <2>0, <3>1 DEF TypeOK, Runs
    <3>3. \A q \in Requests \ {r} : own'[q] = own[q] /\ pc'[q] = pc[q]
      BY <1>3, <3>1 DEF TypeOK
    <3>4. pc'[r] = next  BY <1>3 DEF TypeOK
    <3>5. CopiesOK'
      BY <1>3, <2>2, <3>1, <3>2, <3>3, <3>4 DEF CopiesOK, Working, Fresh
    <3> QED  BY <3>1, <3>5
  <2> QED  BY <2>1, <2>2
<1>4. ASSUME NEW r \in Requests, MarkRunning(r) PROVE Goal
  <2>1. "running" \in RunStatuses  BY DEF RunStatuses, ActiveStatuses
  <2> QED  BY <1>3, <1>4, <2>1 DEF MarkRunning, Goto, Working
<1>5. ASSUME NEW r \in Requests, Finish(r) PROVE Goal
  <2>1. PICK s \in FinalStatuses(verdict[r]) : UpdateRun(r, [own[r] EXCEPT !.status = s])
    BY <1>5 DEF Finish
  <2>2. s \in RunStatuses  BY StatusTypes
  <2> QED  BY <1>3, <1>5, <2>1, <2>2 DEF Finish, Goto, Working
<1>6. ASSUME NEW r \in Requests, Cancel(r) PROVE Goal
  <2>1. runs' = [runs EXCEPT ![r] = [status |-> "cancelled", version |-> runs[r].version + 1]]
    BY <1>6 DEF Cancel
  <2>2. runs[r] \in Runs /\ own[r] \in Runs  BY DEF TypeOK
  <2>3. runs'[r].status = "cancelled" /\ runs'[r].version = runs[r].version + 1
        /\ \A q \in Requests \ {r} : runs'[q] = runs[q]
    BY <2>1 DEF TypeOK
  <2>4. own' = own /\ pc' = pc /\ runs[r].status # "none"  BY <1>6 DEF Cancel
  <2> QED  BY <2>2, <2>3, <2>4 DEF CopiesOK, Working, Fresh, Runs, NoRun
<1>7. ASSUME NEW r \in Requests, Check(r) \/ Advance(r) \/ FinishCompany(r) \/ Die(r) PROVE Goal
  BY <1>1, <1>7 DEF Check, Advance, FinishCompany, Die, Goto, TypeOK, Working
<1>8. ASSUME NEW r \in Requests,
             ListPages(r) \/ CheckPage(r) \/ ExtractPage(r) \/ MarkStale(r) \/ ReconciliationDone(r)
      PROVE Goal
  <2>1. UNCHANGED <<runs, own>> /\ Working(r)
    BY <1>8 DEF ListPages, CheckPage, ExtractPage, MarkStale, ReconciliationDone, Working
  <2>2. \E next : pc' = [pc EXCEPT ![r] = next] /\ next \notin {"new", "advance", "create"}
    BY <1>8 DEF ListPages, CheckPage, ExtractPage, MarkStale, ReconciliationDone, Goto
  <2> QED  BY <1>1, <2>1, <2>2 DEF TypeOK, Working
<1>9. ASSUME NEW r \in Requests, NEW f \in Fields, Reconcile(r, f) PROVE Goal
  <2>1. UNCHANGED <<runs, own>> /\ pc[r] = "reconcile"  BY <1>9 DEF Reconcile
  <2>2. pc' = pc \/ pc' = [pc EXCEPT ![r] = "stale"]  BY <1>9 DEF Reconcile, Goto
  <2> QED  BY <1>1, <2>1, <2>2 DEF TypeOK, Working
<1>10. ASSUME NEW r \in Requests, NEW f \in Fields, LeaveUnknown(r, f) PROVE Goal
  BY <1>1, <1>10 DEF LeaveUnknown, Working
<1>11. ASSUME NEW r \in Requests, NEW d \in pending[r], SaveFact(r, d) PROVE Goal
  BY <1>1, <1>11 DEF SaveFact, Working
<1>12. ASSUME UNCHANGED vars PROVE Goal
  BY <1>1, <1>12 DEF vars, Working
<1> QED
  BY <1>2, <1>4, <1>5, <1>6, <1>7, <1>8, <1>9, <1>10, <1>11, <1>12 DEF Next, RequestStep

\* A cancelled run stays cancelled, whatever its request does.
THEOREM CancellationIsFinal == Spec => CancelledStays
<1>1. Init => Typed /\ CopiesOK  BY InitTyped, InitCopies
<1>2. Typed /\ CopiesOK /\ [Next]_vars => (Typed /\ CopiesOK)'
  BY StepTyped, StepCopies
<1>3. Typed /\ CopiesOK /\ [Next]_vars =>
        [\A r \in Requests : runs[r].status = "cancelled" => runs'[r].status = "cancelled"]_vars
  BY StepCopies
<1> QED  BY <1>1, <1>2, <1>3, PTL DEF Spec, CancelledStays

-----------------------------------------------------------------------------
(* The company.                                                            *)

\* A company is extracting only while a request extracts, or after one died.
THEOREM NotStranded == Spec => []CompanyNotStranded
<1>1. Init => CompanyNotStranded  BY ExtractionAssumption DEF Init, CompanyNotStranded
<1>2. ASSUME Typed, CompanyNotStranded, [Next]_vars PROVE CompanyNotStranded'
  <2> DEFINE Rest == {"new", "advance", "done"}
  <2> USE DEF Typed
  \* The steps that leave the company alone and end no request.
  <2>1. ASSUME company' = company, NEW r \in Requests, NEW next, next \notin {"new", "advance", "done"},
               pc' = [pc EXCEPT ![r] = next]
        PROVE  CompanyNotStranded'
    BY <1>2, <2>1 DEF CompanyNotStranded, TypeOK
  <2>2. ASSUME company' = company, pc' = pc PROVE CompanyNotStranded'
    BY <1>2, <2>2 DEF CompanyNotStranded
  <2>3. ASSUME NEW r \in Requests, Check(r) PROVE CompanyNotStranded'
    BY <1>2, <2>3 DEF Check, Goto, CompanyNotStranded, TypeOK
  <2>4. ASSUME NEW r \in Requests, Advance(r) PROVE CompanyNotStranded'
    <3>1. pc'[r] = "create"  BY <1>2, <2>4 DEF Advance, Goto, TypeOK
    <3> QED  BY <3>1 DEF CompanyNotStranded
  <2>5. ASSUME NEW r \in Requests, FinishCompany(r) PROVE CompanyNotStranded'
    <3>1. company' # "extracting"
      BY <2>5 DEF FinishCompany, AdvancedProcessing, ProcessingTransitionAllowed,
                  AllowedProcessing, ProcessingStatuses
    <3> QED  BY <3>1 DEF CompanyNotStranded
  <2>6. ASSUME NEW r \in Requests,
               Create(r) \/ MarkRunning(r) \/ ListPages(r) \/ CheckPage(r) \/ ExtractPage(r)
                 \/ MarkStale(r) \/ ReconciliationDone(r) \/ Finish(r) \/ Die(r)
        PROVE CompanyNotStranded'
    <3>1. company' = company
      BY <2>6 DEF Create, MarkRunning, ListPages, CheckPage, ExtractPage, MarkStale,
                  ReconciliationDone, Finish, Die
    <3>2. \E next : next \notin {"new", "advance", "done"} /\ pc' = [pc EXCEPT ![r] = next]
      BY <2>6 DEF Create, MarkRunning, ListPages, CheckPage, ExtractPage, MarkStale,
                  ReconciliationDone, Finish, Die, Goto
    <3> QED  BY <2>1, <3>1, <3>2
  <2>7. ASSUME NEW r \in Requests, NEW f \in Fields, Reconcile(r, f) PROVE CompanyNotStranded'
    <3>1. company' = company /\ (pc' = pc \/ pc' = [pc EXCEPT ![r] = "stale"])
      BY <2>7 DEF Reconcile, Goto
    <3> QED  BY <2>1, <2>2, <3>1
  <2>8. ASSUME NEW r \in Requests, NEW f \in Fields, LeaveUnknown(r, f) PROVE CompanyNotStranded'
    BY <2>2, <2>8 DEF LeaveUnknown
  <2>9. ASSUME NEW r \in Requests, NEW d \in pending[r], SaveFact(r, d) PROVE CompanyNotStranded'
    BY <2>2, <2>9 DEF SaveFact
  <2>10. ASSUME NEW r \in Requests, Cancel(r) PROVE CompanyNotStranded'
    BY <2>2, <2>10 DEF Cancel
  <2>11. ASSUME UNCHANGED vars PROVE CompanyNotStranded'
    BY <2>2, <2>11 DEF vars
  <2> QED
    BY <1>2, <2>3, <2>4, <2>5, <2>6, <2>7, <2>8, <2>9, <2>10, <2>11 DEF Next, RequestStep
<1> QED  BY <1>1, <1>2, InitTyped, StepTyped, PTL DEF Spec

-----------------------------------------------------------------------------
(* The facts.                                                              *)

\* A request holds unsaved facts only from its reconciliation to its saving;
\* they are its own, would be current, and are new to everybody.
PendingOK == \A r \in Requests :
  /\ pending[r] # {} => pc[r] \in {"reconcile", "stale", "save", "dead"}
  /\ \A d \in pending[r] : /\ d.run = r /\ d.status \in CurrentStatuses
                           /\ d \notin facts
                           /\ \A q \in Requests : d \notin seen[q]

\* No fact is dated later than the clock.
DatesOK ==
  /\ \A d \in facts : d.updated_at <= clock
  /\ \A r \in Requests : \A d \in seen[r] \cup pending[r] : d.updated_at <= clock

\* A field a request holds a fact for is one it need not reconcile again; only
\* the field whose old fact it is about to make history is still to do.
TodoOK == \A r \in Requests :
  /\ pc[r] \in {"reconcile", "save"} => \A d \in pending[r] : d.field \notin todo[r]
  /\ pc[r] = "stale" =>
       \A d, e \in pending[r] : {d.field, e.field} \subseteq todo[r] => d.field = e.field

\* An accepted fact a request saw and is going to contradict is no longer
\* current, unless the request is just about to make it history.
Contradicts(d, e) ==
  /\ d.field = e.field /\ d.field \notin ArrayFields
  /\ e.status = "accepted" /\ d.value # e.value
SeenOK == \A r \in Requests : pc[r] \in {"reconcile", "stale", "save"} =>
  \A d \in pending[r], e \in seen[r] :
    Contradicts(d, e) => e \notin facts \/ (pc[r] = "stale" /\ d.field \in todo[r])

FactsOK == OneCurrentFact /\ KnownStaysKnown /\ PendingOK /\ DatesOK /\ TodoOK /\ SeenOK

\* What FactsOK promises of a step.
Kept == /\ FactsOK'
        /\ \A d \in Lost :
             /\ d.status # "stale"
             /\ d.status = "accepted" /\ d.field \notin ArrayFields =>
                  \E e \in facts' \ facts :
                    e.field = d.field /\ (e.value = d.value \/ d \notin seen[e.run])

LEMMA InitFacts == Init => FactsOK
BY DEF Init, FactsOK, OneCurrentFact, KnownStaysKnown, PendingOK, DatesOK, TodoOK, SeenOK

\* The steps that touch neither the facts nor what a request holds.
Quiet ==
  /\ UNCHANGED <<facts, pending, seen, clock>>
  /\ \A r \in Requests : pending[r] # {} =>
       /\ todo'[r] \subseteq todo[r]
       /\ pc[r] = "stale" => todo'[r] = todo[r]
       /\ pc'[r] \in {pc[r], "dead"} \/ (pc[r] = "reconcile" /\ pc'[r] = "save")

LEMMA QuietSteps ==
  ASSUME TypeOK, PendingOK, [Next]_vars
  PROVE  \/ Quiet
         \/ \E r \in Requests : \/ \E f \in Fields : Reconcile(r, f)
                               \/ MarkStale(r)
                               \/ \E d \in pending[r] : SaveFact(r, d)
<1>1. ASSUME NEW r \in Requests,
             Check(r) \/ Advance(r) \/ Create(r) \/ MarkRunning(r) \/ ListPages(r)
               \/ CheckPage(r) \/ ExtractPage(r) \/ Finish(r) \/ FinishCompany(r)
      PROVE  Quiet
  <2>1. pending[r] = {}
    BY <1>1 DEF PendingOK, Check, Advance, Create, MarkRunning, ListPages, CheckPage, ExtractPage,
                Finish, FinishCompany
  <2>2. UNCHANGED <<facts, pending, seen, clock>>
    BY <1>1 DEF Check, Advance, Create, MarkRunning, ListPages, CheckPage, ExtractPage,
                Finish, FinishCompany, reconciled
  <2>3. \E next : pc' = [pc EXCEPT ![r] = next]
    BY <1>1 DEF Check, Advance, Create, MarkRunning, ListPages, CheckPage, ExtractPage,
                Finish, FinishCompany, Goto
  <2>4. todo' = todo \/ \E set : todo' = [todo EXCEPT ![r] = set]
    BY <1>1 DEF Check, Advance, Create, MarkRunning, ListPages, CheckPage, ExtractPage,
                Finish, FinishCompany, reconciled
  <2>5. \A q \in Requests : pending[q] # {} => pc'[q] = pc[q] /\ todo'[q] = todo[q]
    BY <2>1, <2>3, <2>4 DEF TypeOK
  <2> QED  BY <2>2, <2>5 DEF Quiet
<1>2. ASSUME NEW r \in Requests, NEW f \in Fields, LeaveUnknown(r, f) PROVE Quiet
  BY <1>2 DEF LeaveUnknown, TypeOK, Quiet
<1>3. ASSUME NEW r \in Requests, ReconciliationDone(r) \/ Die(r) PROVE Quiet
  BY <1>3 DEF ReconciliationDone, Die, Goto, TypeOK, Quiet, reconciled
<1>4. ASSUME NEW r \in Requests, Cancel(r) PROVE Quiet
  BY <1>4 DEF Cancel, Quiet, reconciled
<1>5. ASSUME UNCHANGED vars PROVE Quiet
  BY <1>5 DEF vars, Quiet, reconciled
<1> QED  BY <1>1, <1>2, <1>3, <1>4, <1>5 DEF Next, RequestStep

LEMMA QuietKeeps ==
  ASSUME TypeOK, FactsOK, Quiet
  PROVE  Kept
<1> USE DEF FactsOK
<1>1. OneCurrentFact'  BY DEF OneCurrentFact, Quiet
<1>2. KnownStaysKnown'
  <2> SUFFICES ASSUME NEW d \in facts, Current(d.field) = {}
               PROVE  \E r \in Requests : /\ pc'[r] \in {"reconcile", "stale", "save", "dead"}
                                          /\ \E e \in pending[r] : e.field = d.field
    BY DEF KnownStaysKnown, Quiet, Current
  <2>1. PICK r \in Requests : /\ pc[r] \in {"reconcile", "stale", "save", "dead"}
                              /\ \E e \in pending[r] : e.field = d.field
    BY DEF KnownStaysKnown
  <2> QED  BY <2>1 DEF Quiet
<1>3. PendingOK'  BY DEF PendingOK, Quiet
<1>4. DatesOK'  BY DEF DatesOK, Quiet
<1>5. TodoOK'
  <2> SUFFICES ASSUME NEW r \in Requests, pending[r] # {}
               PROVE  /\ pc'[r] \in {"reconcile", "save"} => \A d \in pending[r] : d.field \notin todo'[r]
                      /\ pc'[r] = "stale" =>
                           \A d, e \in pending[r] : {d.field, e.field} \subseteq todo'[r] => d.field = e.field
    BY DEF TodoOK, Quiet
  <2> QED  BY DEF TodoOK, Quiet
<1>6. SeenOK'
  <2> SUFFICES ASSUME NEW r \in Requests, pc'[r] \in {"reconcile", "stale", "save"},
                      NEW d \in pending[r], NEW e \in seen[r], Contradicts(d, e), e \in facts
               PROVE  pc'[r] = "stale" /\ d.field \in todo'[r]
    BY DEF SeenOK, Quiet, Contradicts
  <2>1. pc[r] \in {"reconcile", "stale", "save"}  BY DEF Quiet
  <2>2. pc[r] = "stale" /\ d.field \in todo[r]  BY <2>1 DEF SeenOK
  <2> QED  BY <2>2 DEF Quiet
<1>7. Lost = {}  BY DEF Lost, Quiet
<1> QED  BY <1>1, <1>2, <1>3, <1>4, <1>5, <1>6, <1>7 DEF Kept

LEMMA ReconcileKeeps ==
  ASSUME TypeOK, FactsOK, NEW r \in Requests, NEW f \in Fields, Reconcile(r, f)
  PROVE  Kept
<1> USE DEF FactsOK
<1>1. PICK o \in Outcomes(f, found[r][f]) :
        /\ clock' = clock + 1
        /\ pending' = [pending EXCEPT ![r] = @ \cup
             {[run |-> r, field |-> f, value |-> o.value, status |-> o.status,
               updated_at |-> clock']}]
        /\ IF \E existing \in Current(f) : Supersedes(existing, o)
             THEN Goto(r, "stale") /\ UNCHANGED todo
             ELSE todo' = [todo EXCEPT ![r] = @ \ {f}] /\ UNCHANGED pc
  BY DEF Reconcile
<1> DEFINE new == [run |-> r, field |-> f, value |-> o.value, status |-> o.status,
                   updated_at |-> clock + 1]
<1>2. /\ pending' = [pending EXCEPT ![r] = @ \cup {new}]
      /\ seen' = [seen EXCEPT ![r] = @ \cup Current(f)]
      /\ facts' = facts /\ clock' = clock + 1
      /\ pc[r] = "reconcile" /\ f \in todo[r]
  BY <1>1 DEF Reconcile
<1>3. /\ new.run = r /\ new.field = f /\ new.value = o.value /\ new.status = o.status
      /\ new.updated_at = clock + 1
  OBVIOUS
<1>4. new.status \in CurrentStatuses
  <2>1. found[r][f] \in SUBSET Values  BY DEF TypeOK
  <2> QED  BY <2>1, <1>3, OutcomeTypes
<1>5. /\ new \notin facts
      /\ \A q \in Requests : new \notin seen[q] /\ new \notin pending[q]
  <2>1. clock \in Nat  BY DEF TypeOK
  <2>2. ~(new.updated_at <= clock)  BY <1>3, <2>1
  <2> QED  BY <2>2 DEF DatesOK
<1> HIDE DEF new
<1>6. \A q \in Requests : /\ pending'[q] = IF q = r THEN pending[r] \cup {new} ELSE pending[q]
                          /\ seen'[q] = IF q = r THEN seen[r] \cup Current(f) ELSE seen[q]
  BY <1>2 DEF TypeOK
<1>7. Current(f) \subseteq facts /\ (\A g : Current(g)' = Current(g))
  BY <1>2 DEF Current
<1>8. /\ \A q \in Requests \ {r} : pc'[q] = pc[q] /\ todo'[q] = todo[q]
      /\ \/ pc'[r] = "stale" /\ todo'[r] = todo[r]
         \/ /\ pc'[r] = "reconcile" /\ todo'[r] = todo[r] \ {f}
            /\ ~\E existing \in Current(f) : Supersedes(existing, o)
  BY <1>1, <1>2 DEF Goto, TypeOK
<1>9. OneCurrentFact'  BY <1>2 DEF OneCurrentFact
<1>10. KnownStaysKnown'
  <2> SUFFICES ASSUME NEW d \in facts, Current(d.field) = {}
               PROVE  \E q \in Requests : /\ pc'[q] \in {"reconcile", "stale", "save", "dead"}
                                          /\ \E e \in pending'[q] : e.field = d.field
    BY <1>2, <1>7 DEF KnownStaysKnown
  <2>1. PICK q \in Requests : /\ pc[q] \in {"reconcile", "stale", "save", "dead"}
                              /\ \E e \in pending[q] : e.field = d.field
    BY DEF KnownStaysKnown
  <2> QED  BY <2>1, <1>6, <1>8
<1>11. PendingOK'
  <2> SUFFICES ASSUME NEW q \in Requests
               PROVE  /\ pending'[q] # {} => pc'[q] \in {"reconcile", "stale", "save", "dead"}
                      /\ \A d \in pending'[q] : /\ d.run = q /\ d.status \in CurrentStatuses
                                                /\ d \notin facts
                                                /\ \A p \in Requests : d \notin seen'[p]
    BY <1>2 DEF PendingOK
  <2>1. pending'[q] # {} => pc'[q] \in {"reconcile", "stale", "save", "dead"}
    BY <1>6, <1>8 DEF PendingOK
  <2>2. ASSUME NEW d \in pending'[q]
        PROVE  /\ d.run = q /\ d.status \in CurrentStatuses /\ d \notin facts
               /\ \A p \in Requests : d \notin seen[p]
    BY <1>3, <1>4, <1>5, <1>6, <2>2 DEF PendingOK
  <2> QED  BY <2>1, <2>2, <1>6, <1>7
<1>12. DatesOK'
  <2>1. clock \in Nat  BY DEF TypeOK
  <2>2. \A d \in facts : d.updated_at \in Nat
    BY DEF TypeOK, Facts
  <2>3. \A q \in Requests : \A d \in seen[q] \cup pending[q] : d.updated_at \in Nat
    BY DEF TypeOK, Facts
  <2> QED  BY <1>2, <1>3, <1>6, <1>7, <2>1, <2>2, <2>3 DEF DatesOK
<1>13. TodoOK'
  <2> SUFFICES ASSUME NEW q \in Requests
               PROVE  /\ pc'[q] \in {"reconcile", "save"} =>
                           \A d \in pending'[q] : d.field \notin todo'[q]
                      /\ pc'[q] = "stale" => \A d, e \in pending'[q] :
                           {d.field, e.field} \subseteq todo'[q] => d.field = e.field
    BY DEF TodoOK
  <2>1. CASE q # r  BY <2>1, <1>6, <1>8 DEF TodoOK
  <2>2. CASE q = r
    <3>1. \A d \in pending[r] : d.field \notin todo[r]  BY <1>2 DEF TodoOK
    <3> QED  BY <2>2, <3>1, <1>3, <1>6, <1>8
  <2> QED  BY <2>1, <2>2
<1>14. SeenOK'
  <2> SUFFICES ASSUME NEW q \in Requests, pc'[q] \in {"reconcile", "stale", "save"},
                      NEW d \in pending'[q], NEW e \in seen'[q], Contradicts(d, e), e \in facts
               PROVE  pc'[q] = "stale" /\ d.field \in todo'[q]
    BY <1>2 DEF SeenOK, Contradicts
  <2>1. CASE q # r  BY <2>1, <1>6, <1>8 DEF SeenOK
  <2>2. CASE q = r /\ d = new
    <3>1. e \in Current(f) /\ e.field \notin ArrayFields /\ e.status = "accepted" /\ o.value # e.value
      BY <2>2, <1>3 DEF Contradicts, Current, CurrentStatuses
    <3>2. Supersedes(e, o)  BY <3>1 DEF Supersedes
    <3> QED  BY <2>2, <3>1, <3>2, <1>2, <1>3, <1>8
  <2>3. CASE q = r /\ d # new
    <3>1. d \in pending[r]  BY <2>3, <1>6
    <3>2. d.field # f  BY <3>1, <1>2 DEF TodoOK
    <3>3. e \in seen[r]  BY <2>3, <3>2, <1>6 DEF Contradicts, Current
    <3> QED  BY <3>1, <3>3, <1>2 DEF SeenOK
  <2> QED  BY <2>1, <2>2, <2>3
<1>15. Lost = {}  BY <1>2 DEF Lost
<1> QED  BY <1>9, <1>10, <1>11, <1>12, <1>13, <1>14, <1>15 DEF Kept

LEMMA MarkStaleKeeps ==
  ASSUME TypeOK, FactsOK, NEW r \in Requests, MarkStale(r)
  PROVE  Kept
<1> USE DEF FactsOK
<1>1. PICK d \in pending[r] : /\ d.field \in todo[r]
                              /\ facts' = MarkedStale(d.field)
                              /\ todo' = [todo EXCEPT ![r] = @ \ {d.field}]
  BY DEF MarkStale
<1> DEFINE f == d.field
           stale(e) == [e EXCEPT !.status = "stale"]
<1>2. /\ pc[r] = "stale" /\ pc' = [pc EXCEPT ![r] = "reconcile"]
      /\ pending' = pending /\ seen' = seen /\ clock' = clock
  BY DEF MarkStale, Goto
<1>3. /\ \A q \in Requests \ {r} : pc'[q] = pc[q] /\ todo'[q] = todo[q]
      /\ pc'[r] = "reconcile" /\ todo'[r] = todo[r] \ {f}
  BY <1>1, <1>2 DEF TypeOK
<1>4. \A e \in facts : /\ stale(e).run = e.run /\ stale(e).field = e.field
                       /\ stale(e).updated_at = e.updated_at /\ stale(e).status = "stale"
  BY DEF TypeOK, Facts
<1>5. \A e \in facts' : \/ e \in facts /\ e \notin Current(f)
                        \/ e.status = "stale" /\ \E b \in Current(f) : e = stale(b)
  BY <1>1, <1>4 DEF MarkedStale, Current
<1>6. \A e \in facts : IF e \in Current(f) THEN stale(e) \in facts' ELSE e \in facts'
  BY <1>1 DEF MarkedStale
<1>7. \A e \in facts' : e.status \in CurrentStatuses => e \in facts /\ e.field # f
  BY <1>5 DEF Current, CurrentStatuses
<1>8. \A g : g # f => Current(g)' = Current(g)
  <2> SUFFICES ASSUME NEW g, g # f, NEW e
               PROVE  e \in Current(g)' <=> e \in Current(g)
    OBVIOUS
  <2> QED  BY <1>6, <1>7 DEF Current
<1> HIDE DEF stale
<1>9. OneCurrentFact'
  BY <1>7 DEF OneCurrentFact
<1>10. KnownStaysKnown'
  <2> SUFFICES ASSUME NEW e \in facts', Current(e.field)' = {}
               PROVE  \E q \in Requests : /\ pc'[q] \in {"reconcile", "stale", "save", "dead"}
                                          /\ \E b \in pending'[q] : b.field = e.field
    BY DEF KnownStaysKnown
  <2>1. CASE e.field = f  BY <2>1, <1>2, <1>3
  <2>2. CASE e.field # f
    <3>1. e \in facts  BY <2>2, <1>4, <1>5 DEF Current
    <3>2. PICK q \in Requests : /\ pc[q] \in {"reconcile", "stale", "save", "dead"}
                                /\ \E b \in pending[q] : b.field = e.field
      BY <2>2, <3>1, <1>8 DEF KnownStaysKnown
    <3> QED  BY <3>2, <1>2, <1>3
  <2> QED  BY <2>1, <2>2
<1>11. PendingOK'
  <2>1. \A q \in Requests : pending[q] # {} => pc'[q] \in {"reconcile", "stale", "save", "dead"}
    BY <1>2, <1>3 DEF PendingOK
  <2>2. \A q \in Requests : \A e \in pending[q] : e \notin facts'
    BY <1>7 DEF PendingOK
  <2> QED  BY <2>1, <2>2, <1>2 DEF PendingOK
<1>12. DatesOK'
  <2>1. \A e \in facts' : e.updated_at <= clock  BY <1>4, <1>5 DEF DatesOK, Current
  <2> QED  BY <2>1, <1>2 DEF DatesOK
<1>13. TodoOK'
  <2>1. \A e \in pending[r] : e.field \in todo[r] => e.field = f  BY <1>1, <1>2 DEF TodoOK
  <2> QED  BY <2>1, <1>2, <1>3 DEF TodoOK
<1>14. SeenOK'
  <2> SUFFICES ASSUME NEW q \in Requests, pc'[q] \in {"reconcile", "stale", "save"},
                      NEW b \in pending[q], NEW e \in seen[q], Contradicts(b, e), e \in facts'
               PROVE  pc'[q] = "stale" /\ b.field \in todo'[q]
    BY <1>2 DEF SeenOK, Contradicts
  <2>1. e \in facts /\ b.field # f  BY <1>7 DEF Contradicts, CurrentStatuses
  <2>2. CASE q # r  BY <2>1, <2>2, <1>3 DEF SeenOK
  <2>3. CASE q = r
    <3>1. b.field \in todo[r]  BY <2>1, <2>3, <1>2 DEF SeenOK
    <3>2. b.field = f  BY <2>3, <3>1, <1>1, <1>2 DEF TodoOK
    <3> QED  BY <2>1, <3>2
  <2> QED  BY <2>2, <2>3
<1>15. Lost = {}  BY <1>4, <1>6 DEF Lost, Current
<1> QED  BY <1>9, <1>10, <1>11, <1>12, <1>13, <1>14, <1>15 DEF Kept

LEMMA SaveFactKeeps ==
  ASSUME TypeOK, FactsOK, NEW r \in Requests, NEW d \in pending[r], SaveFact(r, d)
  PROVE  Kept
<1> USE DEF FactsOK
<1> DEFINE f == d.field
           old == CHOOSE e \in Current(f) : TRUE
<1>1. /\ pc[r] = "save" /\ facts' = Upserted(d)
      /\ pending' = [pending EXCEPT ![r] = @ \ {d}]
      /\ pc' = pc /\ todo' = todo /\ seen' = seen /\ clock' = clock
  BY DEF SaveFact
<1>2. /\ d.run = r /\ d.status \in CurrentStatuses /\ d \notin facts
      /\ \A q \in Requests : d \notin seen[q]
  BY DEF PendingOK
<1>3. \A e, b \in Current(f) : e = b  BY DEF OneCurrentFact, Current
<1>4. Current(f) # {} => old \in Current(f)  OBVIOUS
<1>5. facts' = (facts \ Current(f)) \cup {d}
  <2>1. CASE Current(f) = {}  BY <2>1, <1>1 DEF Upserted
  <2>2. CASE Current(f) # {}
    <3>1. Current(f) = {old}  BY <2>2, <1>3, <1>4
    <3>2. facts' = (facts \ {old}) \cup {d}  BY <2>2, <1>1 DEF Upserted
    <3> QED  BY <3>1, <3>2
  <2> QED  BY <2>1, <2>2
<1> HIDE DEF old
<1>6. \A q \in Requests : pending'[q] = IF q = r THEN pending[r] \ {d} ELSE pending[q]
  BY <1>1 DEF TypeOK
<1>7. /\ Current(f)' = {d}
      /\ \A g : g # f => Current(g)' = Current(g)
  BY <1>2, <1>5 DEF Current
<1>8. OneCurrentFact'
  BY <1>5 DEF OneCurrentFact, Current
<1>9. KnownStaysKnown'
  <2> SUFFICES ASSUME NEW e \in facts', Current(e.field)' = {}
               PROVE  \E q \in Requests : /\ pc'[q] \in {"reconcile", "stale", "save", "dead"}
                                          /\ \E b \in pending'[q] : b.field = e.field
    BY DEF KnownStaysKnown
  <2>1. e.field # f /\ e \in facts  BY <1>5, <1>7
  <2>2. PICK q \in Requests : /\ pc[q] \in {"reconcile", "stale", "save", "dead"}
                              /\ \E b \in pending[q] : b.field = e.field
    BY <2>1, <1>7 DEF KnownStaysKnown
  <2> QED  BY <2>1, <2>2, <1>1, <1>6
<1>10. PendingOK'
  <2>1. \A q \in Requests : \A e \in pending'[q] : e \in pending[q] /\ e # d
    BY <1>2, <1>6 DEF PendingOK
  <2> QED  BY <2>1, <1>1, <1>5 DEF PendingOK
<1>11. DatesOK'  BY <1>1, <1>5, <1>6 DEF DatesOK
<1>12. TodoOK'  BY <1>1, <1>6 DEF TodoOK
<1>13. SeenOK'
  <2> SUFFICES ASSUME NEW q \in Requests, pc[q] \in {"reconcile", "stale", "save"},
                      NEW b \in pending'[q], NEW e \in seen[q], Contradicts(b, e), e \in facts'
               PROVE  pc[q] = "stale" /\ b.field \in todo[q]
    BY <1>1 DEF SeenOK, Contradicts
  <2>1. b \in pending[q]  BY <1>6
  <2>2. e \in facts  BY <1>2, <1>5
  <2> QED  BY <2>1, <2>2 DEF SeenOK
<1>14. ASSUME NEW e \in Lost
       PROVE  /\ e.status # "stale"
              /\ e.status = "accepted" /\ e.field \notin ArrayFields =>
                   \E b \in facts' \ facts :
                     b.field = e.field /\ (b.value = e.value \/ e \notin seen[b.run])
  <2>1. e \in Current(f)  BY <1>5, <1>14 DEF Lost
  <2>2. e \in facts /\ e.field = f /\ e.status # "stale"  BY <2>1 DEF Current, CurrentStatuses
  <2>3. d \in facts' \ facts  BY <1>2, <1>5
  <2>4. ASSUME e.status = "accepted", e.field \notin ArrayFields, d.value # e.value
        PROVE  e \notin seen[d.run]
    <3>1. Contradicts(d, e)  BY <2>2, <2>4 DEF Contradicts
    <3> QED  BY <2>2, <3>1, <1>1, <1>2 DEF SeenOK
  <2> QED  BY <2>2, <2>3, <2>4
<1> QED  BY <1>8, <1>9, <1>10, <1>11, <1>12, <1>13, <1>14 DEF Kept

LEMMA StepFacts ==
  ASSUME Typed, FactsOK, [Next]_vars
  PROVE  Kept
BY QuietSteps, QuietKeeps, ReconcileKeeps, MarkStaleKeeps, SaveFactKeeps DEF Typed, FactsOK

LEMMA FactsInvariant == Spec => [](Typed /\ FactsOK)
<1>1. Init => Typed /\ FactsOK  BY InitTyped, InitFacts
<1>2. Typed /\ FactsOK /\ [Next]_vars => (Typed /\ FactsOK)'
  BY StepTyped, StepFacts DEF Kept
<1> QED  BY <1>1, <1>2, PTL DEF Spec

\* However many requests save their facts at a time, a field has one current fact.
THEOREM OneFactPerField == Spec => []OneCurrentFact
<1>1. FactsOK => OneCurrentFact  BY DEF FactsOK
<1> QED  BY <1>1, FactsInvariant, PTL

\* A field that had a fact has a current one, or a request holds one for it.
THEOREM FieldsStayKnown == Spec => []KnownStaysKnown
<1>1. FactsOK => KnownStaysKnown  BY DEF FactsOK
<1> QED  BY <1>1, FactsInvariant, PTL

\* History is never removed, and no accepted scalar fact is overwritten by a
\* request that saw it and contradicts it.
THEOREM HistoryStays == Spec => HistoryIsKept
<1>1. Typed /\ FactsOK /\ [Next]_vars =>
        [\A d \in Lost :
           /\ d.status # "stale"
           /\ d.status = "accepted" /\ d.field \notin ArrayFields =>
                \E e \in facts' \ facts :
                  e.field = d.field /\ (e.value = d.value \/ d \notin seen[e.run])]_vars
  BY StepFacts DEF Kept
<1> QED  BY <1>1, FactsInvariant, PTL DEF Spec, HistoryIsKept

-----------------------------------------------------------------------------
(* The document of a run is an OptimisticRecord.                           *)

\* The document of a run is an OptimisticRecord that its request and cancellations
\* write; before it is inserted it is taken for what will be inserted.
Stored(r) == IF runs[r].status = "none" THEN [status |-> "queued", version |-> 1] ELSE runs[r]
Document(r) == INSTANCE OptimisticRecord WITH
  Procs <- {r},
  Statuses <- RunStatuses,
  status <- Stored(r).status,
  version <- Stored(r).version,
  view <- [p \in {r} |-> own[p].version]

\* Every step on a run's document is a read, a write based on the newest version,
\* a cancellation, or none of these (mongo_extraction_repository.py, update_run,
\* mark_run_cancelled).
RunsAreOptimisticRecords ==
  /\ \A r \in Requests : Document(r)!Init
  /\ [][\A r \in Requests : [Document(r)!Next]_(Document(r)!vars)]_vars

\* A request that is at work on its run has inserted it.
RunInserted == \A r \in Requests : Working(r) => runs[r].status # "none"

DocumentStep(r) == [Document(r)!Next]_(Document(r)!vars)
DocumentSteps == \A r \in Requests : DocumentStep(r)

\* The version a request has in hand, as Document maps it.
View(r) == [p \in {r} |-> own[p].version]

\* The document of a run that is left alone.
LEMMA DocumentQuiet ==
  ASSUME NEW q \in Requests, runs'[q] = runs[q], own'[q].version = own[q].version
  PROVE  DocumentStep(q)
<1>1. View(q)' = View(q)  BY DEF View
<1>2. Stored(q)' = Stored(q)  BY DEF Stored
<1> QED  BY <1>1, <1>2 DEF DocumentStep, Document!vars, View

LEMMA CreateReads ==
  ASSUME Typed, CopiesOK, NEW r \in Requests, Create(r)
  PROVE  DocumentSteps
<1>1. runs[r] = NoRun  BY DEF Create, CopiesOK
<1>2. PICK new : new = [status |-> "queued", version |-> 1]  OBVIOUS
<1>3. runs' = [runs EXCEPT ![r] = new] /\ own' = [own EXCEPT ![r] = new]
  BY <1>2 DEF Create, Typed, TypeOK
<1>4. runs'[r] = new /\ own'[r] = new /\ \A q \in Requests \ {r} : runs'[q] = runs[q] /\ own'[q] = own[q]
  BY <1>3 DEF Typed, TypeOK
<1>5. Stored(r) = new /\ Stored(r)' = new  BY <1>1, <1>2, <1>4 DEF Stored, NoRun
<1>6. View(r)' = [View(r) EXCEPT ![r] = new.version]  BY <1>4 DEF View
<1>7. Document(r)!Read(r)  BY <1>5, <1>6 DEF Document!Read, View
<1>8. DocumentStep(r)  BY <1>7 DEF DocumentStep, Document!Next
<1> QED  BY <1>4, <1>8, DocumentQuiet DEF DocumentSteps

\* update_run writes what is based on the newest version, and nothing else.
LEMMA UpdateWrites ==
  ASSUME Typed, RunInserted, NEW r \in Requests, Working(r), NEW s \in RunStatuses, s # "none",
         UpdateRun(r, [own[r] EXCEPT !.status = s])
  PROVE  DocumentSteps /\ runs'[r].status # "none" /\ \A q \in Requests \ {r} : runs'[q] = runs[q]
<1>1. own[r] \in Runs /\ runs[r] \in Runs /\ runs[r].status # "none"  BY DEF Typed, TypeOK, RunInserted
<1>2. PICK run : run = [own[r] EXCEPT !.status = s]  OBVIOUS
<1>3. run.status = s /\ run.version = own[r].version /\ run \in Runs  BY <1>1, <1>2 DEF Runs
<1>4. CASE Fresh(r)
  <2>1. PICK newer : newer = [run EXCEPT !.version = run.version + 1]  OBVIOUS
  <2>2. newer.status = s /\ newer.version = run.version + 1  BY <1>3, <2>1 DEF Runs
  <2>3. runs' = [runs EXCEPT ![r] = newer] /\ own' = [own EXCEPT ![r] = newer]
    BY <1>2, <1>4, <2>1 DEF UpdateRun
  <2>4. /\ runs'[r] = newer /\ own'[r] = newer
        /\ \A q \in Requests \ {r} : runs'[q] = runs[q] /\ own'[q] = own[q]
    BY <2>3 DEF Typed, TypeOK
  <2>5. Stored(r) = runs[r] /\ Stored(r)' = newer  BY <1>1, <2>2, <2>4 DEF Stored
  <2>6. View(r)' = [View(r) EXCEPT ![r] = newer.version]  BY <2>4 DEF View
  <2>7. View(r)[r] = runs[r].version /\ newer.version = runs[r].version + 1
    BY <1>3, <1>4, <2>2 DEF View, Fresh
  <2>8. Document(r)!Write(r)  BY <2>2, <2>5, <2>6, <2>7 DEF Document!Write, View
  <2>9. DocumentStep(r)  BY <2>8 DEF DocumentStep, Document!Next
  <2> QED  BY <2>2, <2>4, <2>9, DocumentQuiet DEF DocumentSteps
<1>5. CASE ~Fresh(r)
  <2>1. runs' = runs /\ own' = [own EXCEPT ![r] = run]  BY <1>2, <1>5 DEF UpdateRun
  <2>2. \A q \in Requests : own'[q].version = own[q].version  BY <1>3, <2>1 DEF Typed, TypeOK
  <2> QED  BY <1>1, <2>1, <2>2, DocumentQuiet DEF DocumentSteps
<1> QED  BY <1>4, <1>5

LEMMA CancelStrikes ==
  ASSUME Typed, NEW r \in Requests, Cancel(r)
  PROVE  DocumentSteps
<1>1. runs[r] \in Runs /\ runs[r].status # "none" /\ own' = own  BY DEF Cancel, Typed, TypeOK
<1>2. PICK new : new = [status |-> "cancelled", version |-> runs[r].version + 1]  OBVIOUS
<1>3. runs' = [runs EXCEPT ![r] = new]  BY <1>2 DEF Cancel
<1>4. runs'[r] = new /\ \A q \in Requests \ {r} : runs'[q] = runs[q]  BY <1>3 DEF Typed, TypeOK
<1>5. Stored(r) = runs[r] /\ Stored(r)' = new  BY <1>1, <1>2, <1>4 DEF Stored
<1>6. View(r)' = View(r)  BY <1>1 DEF View
<1>7. Document(r)!Cancel  BY <1>2, <1>5, <1>6 DEF Document!Cancel, View
<1>8. DocumentStep(r)  BY <1>7 DEF DocumentStep, Document!Next
<1> QED  BY <1>1, <1>4, <1>8, DocumentQuiet DEF DocumentSteps

LEMMA StepDocuments ==
  ASSUME Typed, CopiesOK, RunInserted, [Next]_vars
  PROVE  RunInserted' /\ DocumentSteps
<1>1. \A s : s \in FinishedStatuses \cup {"running", "cancelled"} => s \in RunStatuses /\ s # "none"
  BY DEF FinishedStatuses, RunStatuses, ActiveStatuses
\* The steps that write no run and start no work.
<1>2. ASSUME UNCHANGED <<runs, own>>, \A q \in Requests : Working(q)' => Working(q)
      PROVE  RunInserted' /\ DocumentSteps
  BY <1>2, DocumentQuiet DEF RunInserted, DocumentSteps
<1>3. ASSUME NEW r \in Requests, Create(r) PROVE RunInserted' /\ DocumentSteps
  <2>1. /\ runs' = [runs EXCEPT ![r] = [status |-> "queued", version |-> 1]]
        /\ pc' = [pc EXCEPT ![r] = "mark"]
    BY <1>3 DEF Create, Goto
  <2>2. runs'[r].status = "queued" /\ \A q \in Requests \ {r} : runs'[q] = runs[q] /\ pc'[q] = pc[q]
    BY <2>1 DEF Typed, TypeOK
  <2> QED  BY <1>3, <2>2, CreateReads DEF RunInserted, Working
<1>4. ASSUME NEW r \in Requests, MarkRunning(r) \/ Finish(r) PROVE RunInserted' /\ DocumentSteps
  <2>1. PICK s \in FinishedStatuses \cup {"running", "cancelled"} : UpdateRun(r, [own[r] EXCEPT !.status = s])
    BY <1>4 DEF MarkRunning, Finish, FinalStatuses, FinishedStatuses
  <2>2. Working(r) /\ \E next : pc' = [pc EXCEPT ![r] = next]
    BY <1>4 DEF MarkRunning, Finish, Goto, Working
  <2>3. DocumentSteps /\ runs'[r].status # "none" /\ \A q \in Requests \ {r} : runs'[q] = runs[q]
    BY <1>1, <2>1, <2>2, UpdateWrites
  <2>4. \A q \in Requests \ {r} : pc'[q] = pc[q]  BY <2>2 DEF Typed, TypeOK
  <2> QED  BY <2>3, <2>4 DEF RunInserted, Working
<1>5. ASSUME NEW r \in Requests, Cancel(r) PROVE RunInserted' /\ DocumentSteps
  <2>1. /\ runs' = [runs EXCEPT ![r] = [status |-> "cancelled", version |-> runs[r].version + 1]]
        /\ pc' = pc
    BY <1>5 DEF Cancel
  <2>2. runs'[r].status = "cancelled" /\ \A q \in Requests \ {r} : runs'[q] = runs[q]
    BY <2>1 DEF Typed, TypeOK
  <2> QED  BY <1>5, <2>1, <2>2, CancelStrikes DEF RunInserted, Working
<1>6. ASSUME NEW r \in Requests, Check(r) \/ Advance(r) \/ FinishCompany(r) \/ Die(r)
      PROVE  RunInserted' /\ DocumentSteps
  BY <1>2, <1>6 DEF Check, Advance, FinishCompany, Die, Goto, Typed, TypeOK, Working
<1>7. ASSUME NEW r \in Requests,
             ListPages(r) \/ CheckPage(r) \/ ExtractPage(r) \/ MarkStale(r) \/ ReconciliationDone(r)
      PROVE  RunInserted' /\ DocumentSteps
  <2>1. UNCHANGED <<runs, own>> /\ Working(r)
    BY <1>7 DEF ListPages, CheckPage, ExtractPage, MarkStale, ReconciliationDone, Working
  <2>2. \E next : pc' = [pc EXCEPT ![r] = next]
    BY <1>7 DEF ListPages, CheckPage, ExtractPage, MarkStale, ReconciliationDone, Goto
  <2>3. \A q \in Requests \ {r} : pc'[q] = pc[q]  BY <2>2 DEF Typed, TypeOK
  <2> QED  BY <1>2, <2>1, <2>3 DEF Working
<1>8. ASSUME NEW r \in Requests, NEW f \in Fields, Reconcile(r, f) PROVE RunInserted' /\ DocumentSteps
  <2>1. UNCHANGED <<runs, own>> /\ pc[r] = "reconcile"  BY <1>8 DEF Reconcile
  <2>2. pc' = pc \/ pc' = [pc EXCEPT ![r] = "stale"]  BY <1>8 DEF Reconcile, Goto
  <2> QED  BY <1>2, <2>1, <2>2 DEF Typed, TypeOK, Working
<1>9. ASSUME NEW r \in Requests, NEW f \in Fields, LeaveUnknown(r, f) PROVE RunInserted' /\ DocumentSteps
  BY <1>2, <1>9 DEF LeaveUnknown, Working
<1>10. ASSUME NEW r \in Requests, NEW d \in pending[r], SaveFact(r, d) PROVE RunInserted' /\ DocumentSteps
  BY <1>2, <1>10 DEF SaveFact, Working
<1>11. ASSUME UNCHANGED vars PROVE RunInserted' /\ DocumentSteps
  BY <1>2, <1>11 DEF vars, Working
<1> QED
  BY <1>3, <1>4, <1>5, <1>6, <1>7, <1>8, <1>9, <1>10, <1>11 DEF Next, RequestStep

\* Every run's document, written by its request and by cancellations without a
\* filter, implements OptimisticRecord.
THEOREM RunsRefineOptimisticRecord == Spec => RunsAreOptimisticRecords
<1>1. Init => \A r \in Requests : Document(r)!Init
  <2> SUFFICES ASSUME Init, NEW r \in Requests PROVE Document(r)!Init
    OBVIOUS
  <2>1. runs[r] = NoRun /\ own[r] = NoRun  BY DEF Init
  <2>2. Stored(r) = [status |-> "queued", version |-> 1]  BY <2>1 DEF Stored, NoRun
  <2>3. View(r) = [p \in {r} |-> 0]  BY <2>1 DEF View, NoRun
  <2>4. "queued" \in RunStatuses  BY DEF RunStatuses, ActiveStatuses
  <2> QED  BY <2>2, <2>3, <2>4 DEF Document!Init, View
<1>2. Init => Typed /\ CopiesOK /\ RunInserted  BY InitTyped, InitCopies DEF Init, RunInserted, Working
<1>3. Typed /\ CopiesOK /\ RunInserted /\ [Next]_vars => (Typed /\ CopiesOK /\ RunInserted)'
  BY StepTyped, StepCopies, StepDocuments
<1>4. Typed /\ CopiesOK /\ RunInserted /\ [Next]_vars =>
        [\A r \in Requests : [Document(r)!Next]_(Document(r)!vars)]_vars
  BY StepDocuments DEF DocumentSteps, DocumentStep
<1> QED  BY <1>1, <1>2, <1>3, <1>4, PTL DEF Spec, RunsAreOptimisticRecords

=============================================================================
