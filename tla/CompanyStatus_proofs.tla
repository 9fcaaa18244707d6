----------------------- MODULE CompanyStatus_proofs -----------------------
(***************************************************************************)
(* Theorems about CompanyStatus, for any stages, clients and reviewers.    *)
(***************************************************************************)
EXTENDS CompanyStatus, SequenceTheorems, TLAPS

\* The steps of a caller between its read and its write.
Writing(c) == pc[c] \in {"entering", "leaving"}

\* What a caller that is about to write holds.
RequestsOK ==
  /\ \A c \in Stages \cup Clients :
       Writing(c) => request[c] \in Requests /\ request[c].status \in ProcessingStatuses
  /\ \A r \in Reviewers : /\ pc[r] \in {"new", "leaving", "done"}
                          /\ pc[r] = "leaving" => request[r] \in Requests /\ request[r].status \in WorkflowStatuses

Typed == TypeOK /\ RequestsOK

LEMMA StatusTypes ==
  ASSUME NEW k \in {"discovery", "crawl", "extraction"}
  PROVE  /\ WorkingStatus(k) \in WorkingStatuses
         /\ WorkingStatuses \subseteq ProcessingStatuses
         /\ Outcomes(k) \subseteq ProcessingStatuses \ WorkingStatuses
         /\ Outcomes(k) \subseteq AllowedProcessing[WorkingStatus(k)]
BY DEF WorkingStatus, WorkingStatuses, ProcessingStatuses, Outcomes, DoneStatus, AllowedProcessing

LEMMA InitTyped == Init => Typed
<1> SUFFICES ASSUME Init PROVE Typed  OBVIOUS
<1>1. reviews \in Seq(WorkflowStatuses)  BY EmptySeq DEF Init
<1>2. company \in Companies
  BY CompanyStatusAssumption DEF Init, Companies, WorkflowStatuses
<1> QED  BY <1>1, <1>2 DEF Init, Typed, TypeOK, RequestsOK, Writing, Callers

\* The read half of a change keeps the types.
LEMMA ReadTyped ==
  ASSUME Typed, NEW c \in Callers, NEW s, NEW allowed \in BOOLEAN,
         NEW next \in {"entering", "leaving"}, NEW refused \in {"working", "done"},
         ReadAndValidate(c, s, allowed, next, refused),
         c \in Stages \cup Clients => s \in ProcessingStatuses,
         c \in Reviewers => s \in WorkflowStatuses /\ next = "leaving" /\ refused = "done"
  PROVE  Typed'
<1>1. c \in Stages \cup Clients \/ c \in Reviewers  BY DEF Callers
<1>2. [status |-> s, read |-> company] \in Requests
  BY <1>1 DEF Typed, TypeOK, Requests
<1>3. TypeOK'
  BY <1>2 DEF ReadAndValidate, Typed, TypeOK
<1>4. RequestsOK'
  BY <1>1, <1>2, CompanyStatusAssumption
     DEF ReadAndValidate, Typed, TypeOK, RequestsOK, Writing, Callers
<1> QED  BY <1>3, <1>4 DEF Typed

\* So does its write half.
LEMMA WriteTyped ==
  ASSUME Typed, NEW c \in Stages \cup Clients, NEW next \in {"working", "done"},
         Writing(c), WriteProcessing(c, next)
  PROVE  Typed'
<1>1. WithProcessing(c) \in Companies
  BY DEF Typed, TypeOK, RequestsOK, WithProcessing, Companies
<1>2. TypeOK'
  BY <1>1 DEF WriteProcessing, Typed, TypeOK
<1>3. RequestsOK'
  BY CompanyStatusAssumption
     DEF WriteProcessing, Typed, TypeOK, RequestsOK, Writing, Callers
<1> QED  BY <1>2, <1>3 DEF Typed

LEMMA StepTyped == Typed /\ [Next]_vars => Typed'
<1> SUFFICES ASSUME Typed, [Next]_vars PROVE Typed'  OBVIOUS
<1>1. ASSUME NEW p \in Stages, StartStage(p) PROVE Typed'
  <2>1. StageKind[p] \in {"discovery", "crawl", "extraction"}  BY CompanyStatusAssumption
  <2>2. WorkingStatus(StageKind[p]) \in ProcessingStatuses  BY <2>1, StatusTypes
  <2> QED
    BY <1>1, <2>2, ReadTyped, CompanyStatusAssumption
       DEF StartStage, ReadProcessing, Callers, ProcessingTransitionAllowed
<1>2. ASSUME NEW p \in Stages, EnterStatus(p) PROVE Typed'
  BY <1>2, WriteTyped DEF EnterStatus, Writing
<1>3. ASSUME NEW p \in Stages, EndStage(p) PROVE Typed'
  <2>1. StageKind[p] \in {"discovery", "crawl", "extraction"}  BY CompanyStatusAssumption
  <2>2. Outcomes(StageKind[p]) \subseteq ProcessingStatuses  BY <2>1, StatusTypes
  <2>3. PICK o \in Outcomes(StageKind[p]) : ReadProcessing(p, o, "leaving", "done")
    BY <1>3 DEF EndStage
  <2> QED
    BY <2>2, <2>3, ReadTyped, CompanyStatusAssumption
       DEF ReadProcessing, Callers, ProcessingTransitionAllowed
<1>4. ASSUME NEW p \in Stages, LeaveStatus(p) PROVE Typed'
  BY <1>4, WriteTyped DEF LeaveStatus, Writing
<1>5. ASSUME NEW p \in Stages, Die(p) PROVE Typed'
  <2>1. TypeOK'  BY <1>5 DEF Die, Typed, TypeOK
  <2>2. RequestsOK'
    BY <1>5, CompanyStatusAssumption DEF Die, Typed, TypeOK, RequestsOK, Writing, Callers
  <2> QED  BY <2>1, <2>2 DEF Typed
<1>6. ASSUME NEW c \in Clients, PatchProcessing(c) PROVE Typed'
  <2>1. PICK s \in ClientStatuses : ReadProcessing(c, s, "leaving", "done")
    BY <1>6 DEF PatchProcessing
  <2>2. s \in ProcessingStatuses  BY CompanyStatusAssumption
  <2> QED
    BY <2>1, <2>2, ReadTyped, CompanyStatusAssumption
       DEF ReadProcessing, Callers, ProcessingTransitionAllowed
<1>7. ASSUME NEW c \in Clients, PatchWrite(c) PROVE Typed'
  BY <1>7, WriteTyped DEF PatchWrite, Writing
<1>8. ASSUME NEW r \in Reviewers, PatchWorkflow(r) PROVE Typed'
  <2>1. PICK s \in WorkflowStatuses :
          ReadAndValidate(r, s, WorkflowTransitionAllowed(company.workflow, s), "leaving", "done")
    BY <1>8 DEF PatchWorkflow
  <2> QED
    BY <2>1, ReadTyped, CompanyStatusAssumption DEF Callers, WorkflowTransitionAllowed
<1>9. ASSUME NEW r \in Reviewers, WriteWorkflow(r) PROVE Typed'
  <2>1. request[r].status \in WorkflowStatuses
    BY <1>9 DEF Typed, RequestsOK, WriteWorkflow
  <2>2. WithWorkflow(r) \in Companies
    BY <2>1 DEF Typed, TypeOK, WithWorkflow, Companies
  <2>3. reviews' \in Seq(WorkflowStatuses)
    BY <1>9, <2>1, AppendProperties DEF Typed, TypeOK, WriteWorkflow
  <2>4. TypeOK'
    BY <1>9, <2>2, <2>3 DEF WriteWorkflow, Typed, TypeOK
  <2>5. RequestsOK'
    BY <1>9, CompanyStatusAssumption
       DEF WriteWorkflow, Typed, TypeOK, RequestsOK, Writing, Callers
  <2> QED  BY <2>4, <2>5 DEF Typed
<1>10. ASSUME UNCHANGED vars PROVE Typed'
  BY <1>10 DEF vars, Typed, TypeOK, RequestsOK, Writing
<1> QED
  BY <1>1, <1>2, <1>3, <1>4, <1>5, <1>6, <1>7, <1>8, <1>9, <1>10 DEF Next, StageStep

\* The company and its callers keep their types, for any number of callers
\* (change_processing_status, change_workflow_status).
THEOREM TypeCorrect == Spec => []TypeOK
<1>1. Typed => TypeOK  BY DEF Typed
<1> QED  BY <1>1, InitTyped, StepTyped, PTL DEF Spec

LEMMA TypedAlways == Spec => []Typed
BY InitTyped, StepTyped, PTL DEF Spec

-----------------------------------------------------------------------------
(* Stages and the status they work under.                                  *)

\* Only a stage that is about to work is about to write its working status.
WritesOK ==
  /\ \A p \in Stages :
       /\ pc[p] = "entering" => request[p].status = WorkingStatus(StageKind[p])
       /\ pc[p] = "leaving" => request[p].status \notin WorkingStatuses
  /\ \A c \in Clients :
       /\ pc[c] # "entering"
       /\ pc[c] = "leaving" => request[c].status \notin WorkingStatuses

WorkInv == WritesOK /\ WorkingMeansWorked

\* A step that leaves the company alone and takes no stage out of work.
LEMMA StillWorked ==
  ASSUME WorkingMeansWorked, UNCHANGED company, \A p \in Stages : WorkingOn(p) => WorkingOn(p)'
  PROVE  WorkingMeansWorked'
BY DEF WorkingMeansWorked

\* A company that has just been moved to a status of rest.
LEMMA Rested ==
  ASSUME company'.processing \notin WorkingStatuses
  PROVE  WorkingMeansWorked'
BY DEF WorkingMeansWorked

LEMMA StepWork ==
  ASSUME Typed, ClientStatuses \cap WorkingStatuses = {}, WorkInv, [Next]_vars
  PROVE  WorkInv'
<1> USE DEF Typed, TypeOK
<1>1. ASSUME NEW p \in Stages, StartStage(p) PROVE WorkInv'
  <2>1. WritesOK'
    BY <1>1, CompanyStatusAssumption
       DEF StartStage, ReadProcessing, ReadAndValidate, WorkInv, WritesOK, Callers
  <2>2. WorkingMeansWorked'
    BY <1>1, StillWorked
       DEF StartStage, ReadProcessing, ReadAndValidate, WorkInv, WorkingOn, Callers
  <2> QED  BY <2>1, <2>2 DEF WorkInv
<1>2. ASSUME NEW p \in Stages, EnterStatus(p) PROVE WorkInv'
  <2>1. WritesOK'
    BY <1>2, CompanyStatusAssumption DEF EnterStatus, WriteProcessing, WorkInv, WritesOK, Callers
  <2>2. pc'[p] = "working" /\ company'.processing = WorkingStatus(StageKind[p])
    BY <1>2 DEF EnterStatus, WriteProcessing, WithProcessing, WorkInv, WritesOK, Callers, Companies
  <2>3. WorkingMeansWorked'  BY <2>2 DEF WorkingMeansWorked, WorkingOn
  <2> QED  BY <2>1, <2>3 DEF WorkInv
<1>3. ASSUME NEW p \in Stages, EndStage(p) PROVE WorkInv'
  <2>1. PICK o \in Outcomes(StageKind[p]) : ReadProcessing(p, o, "leaving", "done")
    BY <1>3 DEF EndStage
  <2>2. StageKind[p] \in {"discovery", "crawl", "extraction"}  BY CompanyStatusAssumption
  <2>3. o \notin WorkingStatuses  BY <2>2, StatusTypes
  <2>4. WritesOK'
    BY <2>1, <2>3, CompanyStatusAssumption
       DEF ReadProcessing, ReadAndValidate, WorkInv, WritesOK, Callers
  <2>5. CASE company.processing = WorkingStatus(StageKind[p])
    <3>1. ProcessingTransitionAllowed(company.processing, o)
      BY <2>2, <2>5, StatusTypes DEF ProcessingTransitionAllowed
    <3>2. pc' = [pc EXCEPT ![p] = "leaving"]
      BY <2>1, <3>1 DEF ReadProcessing, ReadAndValidate
    <3> QED
      BY <2>1, <2>4, <3>2, StillWorked
         DEF ReadProcessing, ReadAndValidate, WorkInv, WorkingOn, Callers
  <2>6. CASE company.processing # WorkingStatus(StageKind[p])
    <3>1. ASSUME company.processing \in WorkingStatuses
          PROVE  \E q \in Stages : WorkingOn(q)' /\ WorkingStatus(StageKind[q]) = company.processing
      <4>1. PICK q \in Stages : WorkingOn(q) /\ WorkingStatus(StageKind[q]) = company.processing
        BY <3>1 DEF WorkInv, WorkingMeansWorked
      <4>2. q # p  BY <2>6, <4>1
      <4>3. pc'[q] = pc[q]  BY <2>1, <4>2 DEF ReadProcessing, ReadAndValidate, Callers
      <4> QED  BY <4>1, <4>3 DEF WorkingOn
    <3>2. company' = company  BY <2>1 DEF ReadProcessing, ReadAndValidate
    <3> QED  BY <2>4, <3>1, <3>2 DEF WorkInv, WorkingMeansWorked
  <2> QED  BY <2>5, <2>6
<1>4. ASSUME NEW p \in Stages, LeaveStatus(p) PROVE WorkInv'
  <2>1. WritesOK'
    BY <1>4, CompanyStatusAssumption DEF LeaveStatus, WriteProcessing, WorkInv, WritesOK, Callers
  <2>2. company'.processing \notin WorkingStatuses
    BY <1>4 DEF LeaveStatus, WriteProcessing, WithProcessing, WorkInv, WritesOK, Companies
  <2> QED  BY <2>1, <2>2, Rested DEF WorkInv
<1>5. ASSUME NEW p \in Stages, Die(p) PROVE WorkInv'
  <2>1. WritesOK'
    BY <1>5, CompanyStatusAssumption DEF Die, WorkInv, WritesOK, Callers
  <2>2. WorkingMeansWorked'
    BY <1>5, StillWorked DEF Die, WorkInv, WorkingOn, Callers
  <2> QED  BY <2>1, <2>2 DEF WorkInv
<1>6. ASSUME NEW c \in Clients, PatchProcessing(c) PROVE WorkInv'
  <2>1. PICK s \in ClientStatuses : ReadProcessing(c, s, "leaving", "done")
    BY <1>6 DEF PatchProcessing
  <2>2. WritesOK'
    BY <2>1, CompanyStatusAssumption
       DEF ReadProcessing, ReadAndValidate, WorkInv, WritesOK, Callers
  <2>3. WorkingMeansWorked'
    BY <2>1, StillWorked, CompanyStatusAssumption
       DEF ReadProcessing, ReadAndValidate, WorkInv, WorkingOn, Callers
  <2> QED  BY <2>2, <2>3 DEF WorkInv
<1>7. ASSUME NEW c \in Clients, PatchWrite(c) PROVE WorkInv'
  <2>1. WritesOK'
    BY <1>7, CompanyStatusAssumption DEF PatchWrite, WriteProcessing, WorkInv, WritesOK, Callers
  <2>2. company'.processing \notin WorkingStatuses
    BY <1>7 DEF PatchWrite, WriteProcessing, WithProcessing, WorkInv, WritesOK, Companies
  <2> QED  BY <2>1, <2>2, Rested DEF WorkInv
<1>8. ASSUME NEW r \in Reviewers, PatchWorkflow(r) PROVE WorkInv'
  <2>1. \A c \in Stages \cup Clients : pc'[c] = pc[c] /\ request'[c] = request[c]
    BY <1>8, CompanyStatusAssumption DEF PatchWorkflow, ReadAndValidate, Callers
  <2>2. company' = company  BY <1>8 DEF PatchWorkflow, ReadAndValidate
  <2> QED  BY <2>1, <2>2 DEF WorkInv, WritesOK, WorkingMeansWorked, WorkingOn
<1>9. ASSUME NEW r \in Reviewers, WriteWorkflow(r) PROVE WorkInv'
  <2>1. \A c \in Stages \cup Clients : pc'[c] = pc[c] /\ request'[c] = request[c]
    BY <1>9, CompanyStatusAssumption DEF WriteWorkflow, Callers
  <2>2. company'.processing = company.processing
    BY <1>9 DEF WriteWorkflow, WithWorkflow, Companies
  <2> QED  BY <2>1, <2>2 DEF WorkInv, WritesOK, WorkingMeansWorked, WorkingOn
<1>10. ASSUME UNCHANGED vars PROVE WorkInv'
  BY <1>10 DEF vars, WorkInv, WritesOK, WorkingMeansWorked, WorkingOn
<1> QED
  BY <1>1, <1>2, <1>3, <1>4, <1>5, <1>6, <1>7, <1>8, <1>9, <1>10 DEF Next, StageStep

\* If no client sets a working status by hand and the company starts at rest,
\* it is in such a status only while an execution of that stage is at work or
\* after one died (_advance_processing_status, _finish_company_status).
THEOREM WorkIsReal ==
  ASSUME ClientStatuses \cap WorkingStatuses = {}, InitialStatuses \cap WorkingStatuses = {}
  PROVE  Spec => []WorkingMeansWorked
<1>1. Init => WorkInv
  BY DEF Init, WorkInv, WritesOK, WorkingMeansWorked, Callers
<1>2. Typed /\ WorkInv /\ [Next]_vars => WorkInv'  BY StepWork
<1>3. WorkInv => WorkingMeansWorked  BY DEF WorkInv
<1> QED  BY <1>1, <1>2, <1>3, TypedAlways, PTL DEF Spec

-----------------------------------------------------------------------------
(* Reviews.                                                                *)

LEMMA StepReviews ==
  ASSUME Typed, ReviewsStand, [Next]_vars
  PROVE  ReviewsStand'
<1>1. CASE \E r \in Reviewers : WriteWorkflow(r)
  <2>1. PICK r \in Reviewers : WriteWorkflow(r)  BY <1>1
  <2> DEFINE s == request[r].status
  <2>2. reviews \in Seq(WorkflowStatuses) /\ s \in WorkflowStatuses
    BY <2>1 DEF Typed, TypeOK, RequestsOK, WriteWorkflow
  <2>3. /\ company'.workflow = s
        /\ company'.shortlisted = (company.shortlisted \/ s = "shortlisted")
    BY <2>1 DEF Typed, TypeOK, WriteWorkflow, WithWorkflow, Companies
  <2>4. /\ reviews' # <<>>
        /\ Len(reviews') = Len(reviews) + 1
        /\ reviews'[Len(reviews) + 1] = s
        /\ \A i \in 1..Len(reviews) : reviews'[i] = reviews[i]
    BY <2>1, <2>2, AppendProperties DEF WriteWorkflow
  <2>5. Len(reviews) \in Nat  BY <2>2, LenProperties
  <2> HIDE DEF s
  <2>6. company'.shortlisted <=> \E i \in 1..Len(reviews') : reviews'[i] = "shortlisted"
    <3>1. (\E i \in 1..Len(reviews') : reviews'[i] = "shortlisted")
            <=> (\E i \in 1..Len(reviews) : reviews[i] = "shortlisted") \/ s = "shortlisted"
      BY <2>4, <2>5
    <3> QED  BY <2>3, <3>1 DEF ReviewsStand
  <2> QED  BY <2>3, <2>4, <2>6 DEF ReviewsStand
<1>2. CASE ~\E r \in Reviewers : WriteWorkflow(r)
  <2>1. /\ reviews' = reviews
        /\ company'.workflow = company.workflow
        /\ company'.shortlisted = company.shortlisted
    BY <1>2 DEF Typed, TypeOK, Companies, Next, StageStep, StartStage, EnterStatus, EndStage, LeaveStatus,
                Die, PatchProcessing, PatchWrite, PatchWorkflow, ReadProcessing, ReadAndValidate,
                WriteProcessing, WithProcessing, vars
  <2> QED  BY <2>1 DEF ReviewsStand
<1> QED  BY <1>1, <1>2

\* Whatever the stages do, the company shows what the reviewers wrote last
\* (update_processing_status and update_workflow_status set their own fields).
THEOREM ReviewsSurvive == Spec => []ReviewsStand
<1>1. Init => ReviewsStand
  <2> SUFFICES ASSUME Init PROVE ReviewsStand  OBVIOUS
  <2>1. company.workflow = "unreviewed" /\ company.shortlisted = FALSE  BY DEF Init
  <2>2. reviews = <<>> /\ Len(reviews) = 0  BY EmptySeq DEF Init
  <2> QED  BY <2>1, <2>2 DEF ReviewsStand
<1>2. Typed /\ ReviewsStand /\ [Next]_vars => ReviewsStand'  BY StepReviews
<1> QED  BY <1>1, <1>2, TypedAlways, PTL DEF Spec
=============================================================================
