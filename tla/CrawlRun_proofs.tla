-------------------------- MODULE CrawlRun_proofs --------------------------
(***************************************************************************)
(* Theorems about CrawlRun, for any sets of targets, workers and requests. *)
(***************************************************************************)
EXTENDS CrawlRun, FiniteSetTheorems, TLAPS

-----------------------------------------------------------------------------
(* Types.                                                                  *)

\* What the step a worker is at says of its job and of the target in hand.
StepOK ==
  \A w \in Workers :
    /\ pc[w] = "idle" <=> job[w] = "none"
    /\ pc[w] \in {"advance", "mark", "select", "skip", "company"} => job[w] = "execute"
    /\ pc[w] = "list" => job[w] = "retry"
    /\ pc[w] \in {"process", "page", "target"} => work[w].target \in Targets
    /\ pc[w] = "page" => work[w].outcome \in PageStatuses
    /\ pc[w] = "target" => work[w].outcome \in PageStatuses \cup {"blocked_by_robots"}

Typed == TypeOK /\ StepOK

\* Every set of targets the model counts is finite.
LEMMA CountIsNat ==
  ASSUME NEW S \in SUBSET Targets
  PROVE  Cardinality(S) \in Nat
BY CrawlRunAssumption, FS_Subset, FS_CardinalityType

\* Counting an outcome keeps a summary a summary.
LEMMA CountedSummary ==
  ASSUME NEW s \in Summaries,
         NEW o \in PageStatuses \cup {"blocked_by_robots"}
  PROVE  [s EXCEPT ![CounterOf(o)] = @ + 1] \in Summaries
<1>1. CounterOf(o) \in {"failed", "fetched", "unchanged", "blocked"}
  BY DEF CounterOf, PageStatuses, FailedStatuses, FetchedStatuses
<1>2. CASE CounterOf(o) = "failed"  BY <1>2 DEF Summaries
<1>3. CASE CounterOf(o) = "fetched"  BY <1>3 DEF Summaries
<1>4. CASE CounterOf(o) = "unchanged"  BY <1>4 DEF Summaries
<1>5. CASE CounterOf(o) = "blocked"  BY <1>5 DEF Summaries
<1> QED  BY <1>1, <1>2, <1>3, <1>4, <1>5

\* The verdict on a run is one of its statuses.
LEMMA FinalStatusType ==
  ASSUME NEW s \in Summaries, NEW h \in BOOLEAN, NEW c \in BOOLEAN
  PROVE  FinalStatus(s, h, c) \in RunStatuses
BY CrawlRunAssumption DEF FinalStatus, RunStatuses, FinishedStatuses

\* What update_run stores and returns is a run.
LEMMA WrittenRunType ==
  ASSUME NEW c \in Runs, run \in Runs
  PROVE  StoredRun(c) \in Runs /\ ReturnedRun(c) \in Runs
BY DEF StoredRun, ReturnedRun, Fresh, Runs

LEMMA InitTyped == Init => Typed
BY CrawlRunAssumption
   DEF Init, Typed, TypeOK, StepOK, Runs, RunStatuses, FinishedStatuses, Summaries,
       EmptySummary, NoRun, NoWork, Works, TargetDocs, TargetStatuses, PageStatuses,
       FailedStatuses, FetchedStatuses, JobKinds, WorkerPcs

\* What a job starts from.
LEMMA NullTypes == NoRun \in Runs /\ NoWork \in Works
BY DEF NoRun, NoWork, Runs, Works, RunStatuses, Summaries, EmptySummary,
       TargetStatuses, PageStatuses, FailedStatuses, FetchedStatuses

\* The parts of a step that many actions share.
LEMMA WatchRunType == TypeOK /\ WatchRun => overrun' \in [JobKinds -> Nat]
BY DEF TypeOK, WatchRun, NoOverrun

LEMMA GotoType ==
  ASSUME TypeOK, NEW w \in Workers, NEW label \in WorkerPcs, Goto(w, label)
  PROVE  pc' \in [Workers -> WorkerPcs]
BY DEF TypeOK, Goto

LEMMA EndJobType ==
  ASSUME TypeOK, NEW w \in Workers, EndJob(w)
  PROVE  /\ pc' \in [Workers -> WorkerPcs]
         /\ job' \in [Workers -> JobKinds \cup {"none"}]
         /\ copy' \in [Workers -> Runs]
         /\ work' \in [Workers -> Works]
<1>1. "idle" \in WorkerPcs
  BY DEF WorkerPcs
<1> QED
  BY <1>1, NullTypes DEF TypeOK, EndJob

LEMMA StoreRunType ==
  ASSUME TypeOK, NEW c \in Runs, run' = StoredRun(c)
  PROVE  run' \in Runs
BY WrittenRunType DEF TypeOK

LEMMA UpdateTargetType ==
  ASSUME TypeOK, NEW t \in Targets, NEW v \in Nat, NEW s \in TargetStatuses,
         UpdateTarget(t, v, s)
  PROVE  targets' \in [Targets -> TargetDocs]
BY DEF TypeOK, UpdateTarget, TargetDocs

\* The updates a worker makes to its variables keep their types.
LEMMA WorkType ==
  ASSUME work \in [Workers -> Works], NEW w \in Workers
  PROVE  /\ \A t \in Targets :
              /\ [work EXCEPT ![w].todo = @ \cup {t}, ![w].held[t] = 1] \in [Workers -> Works]
              /\ [work EXCEPT ![w].todo = @ \ {t}, ![w].target = t] \in [Workers -> Works]
              /\ [work EXCEPT ![w].todo = @ \ {t}] \in [Workers -> Works]
         /\ \A S \in SUBSET Targets, h \in [Targets -> Nat] :
              [work EXCEPT ![w].todo = S, ![w].held = h] \in [Workers -> Works]
         /\ \A o \in TargetStatuses : [work EXCEPT ![w].outcome = o] \in [Workers -> Works]
         /\ [work EXCEPT ![w].wasCancelled = TRUE] \in [Workers -> Works]
         /\ \A b \in BOOLEAN :
              [work EXCEPT ![w].target = NoTarget, ![w].outcome = "absent",
                           ![w].homepageFailed = @ \/ b] \in [Workers -> Works]
<1>1. "absent" \in TargetStatuses
  BY DEF TargetStatuses
<1>2. ASSUME NEW t \in Targets
      PROVE  [work EXCEPT ![w].todo = @ \cup {t}, ![w].held[t] = 1] \in [Workers -> Works]
  <2>1. [work[w].held EXCEPT ![t] = 1] \in [Targets -> Nat]
    BY DEF Works
  <2>2. [work[w] EXCEPT !.todo = @ \cup {t}, !.held = [@ EXCEPT ![t] = 1]] \in Works
    BY <2>1 DEF Works
  <2> QED
    BY <2>2
<1>3. ASSUME NEW t \in Targets
      PROVE  [work EXCEPT ![w].todo = @ \ {t}, ![w].target = t] \in [Workers -> Works]
  BY DEF Works
<1>4. ASSUME NEW t \in Targets
      PROVE  [work EXCEPT ![w].todo = @ \ {t}] \in [Workers -> Works]
  BY DEF Works
<1>5. ASSUME NEW S \in SUBSET Targets, NEW h \in [Targets -> Nat]
      PROVE  [work EXCEPT ![w].todo = S, ![w].held = h] \in [Workers -> Works]
  BY DEF Works
<1>6. ASSUME NEW o \in TargetStatuses
      PROVE  [work EXCEPT ![w].outcome = o] \in [Workers -> Works]
  BY DEF Works
<1>7. [work EXCEPT ![w].wasCancelled = TRUE] \in [Workers -> Works]
  BY DEF Works
<1>8. ASSUME NEW b \in BOOLEAN
      PROVE  [work EXCEPT ![w].target = NoTarget, ![w].outcome = "absent",
                          ![w].homepageFailed = @ \/ b] \in [Workers -> Works]
  <2>1. (work[w].homepageFailed \/ b) \in BOOLEAN
    OBVIOUS
  <2>2. [work[w] EXCEPT !.target = NoTarget, !.outcome = "absent",
                        !.homepageFailed = @ \/ b] \in Works
    BY <1>1, <2>1 DEF Works
  <2> QED
    BY <2>2
<1> QED
  BY <1>2, <1>3, <1>4, <1>5, <1>6, <1>7, <1>8

LEMMA CopyType ==
  ASSUME copy \in [Workers -> Runs], NEW w \in Workers
  PROVE  /\ \A n \in Nat : [copy EXCEPT ![w].summary.selected = n] \in [Workers -> Runs]
         /\ [copy EXCEPT ![w].summary.skipped = @ + 1] \in [Workers -> Runs]
         /\ \A m, n \in Nat :
              [copy EXCEPT ![w].summary.failed = m, ![w].summary.blocked = n] \in [Workers -> Runs]
         /\ \A b \in BOOLEAN :
              [copy EXCEPT ![w].summary.warned = @ \/ b] \in [Workers -> Runs]
         /\ \A o \in PageStatuses \cup {"blocked_by_robots"} :
              [copy EXCEPT ![w].summary[CounterOf(o)] = @ + 1] \in [Workers -> Runs]
         /\ \A s \in RunStatuses : [copy[w] EXCEPT !.status = s] \in Runs
<1>1. ASSUME NEW n \in Nat
      PROVE  [copy EXCEPT ![w].summary.selected = n] \in [Workers -> Runs]
  BY DEF Runs, Summaries
<1>2. [copy EXCEPT ![w].summary.skipped = @ + 1] \in [Workers -> Runs]
  BY DEF Runs, Summaries
<1>3. ASSUME NEW m \in Nat, NEW n \in Nat
      PROVE  [copy EXCEPT ![w].summary.failed = m, ![w].summary.blocked = n] \in [Workers -> Runs]
  <2>1. [copy[w].summary EXCEPT !.failed = m, !.blocked = n] \in Summaries
    BY DEF Runs, Summaries
  <2> QED
    BY <2>1 DEF Runs
<1>4. ASSUME NEW b \in BOOLEAN
      PROVE  [copy EXCEPT ![w].summary.warned = @ \/ b] \in [Workers -> Runs]
  BY DEF Runs, Summaries
<1>5. ASSUME NEW o \in PageStatuses \cup {"blocked_by_robots"}
      PROVE  [copy EXCEPT ![w].summary[CounterOf(o)] = @ + 1] \in [Workers -> Runs]
  <2>1. [copy[w].summary EXCEPT ![CounterOf(o)] = @ + 1] \in Summaries
    BY CountedSummary DEF Runs
  <2> QED
    BY <2>1 DEF Runs
<1>6. ASSUME NEW s \in RunStatuses
      PROVE  [copy[w] EXCEPT !.status = s] \in Runs
  BY DEF Runs
<1> QED
  BY <1>1, <1>2, <1>3, <1>4, <1>5, <1>6

\* The document as a cancellation leaves it.
LEMMA CancelledRunType ==
  ASSUME NEW x \in Runs
  PROVE  [x EXCEPT !.status = "cancelled", !.version = @ + 1] \in Runs
<1>1. x.version + 1 \in Nat
  BY DEF Runs
<1>2. "cancelled" \in RunStatuses
  BY DEF RunStatuses
<1> QED
  BY <1>1, <1>2 DEF Runs


\* Every step keeps the types and what the step a worker is at says.
LEMMA TypedStep == Typed /\ [Next]_vars => Typed'
<1> SUFFICES ASSUME Typed, [Next]_vars  PROVE Typed'
  OBVIOUS
<1> USE DEF Typed
<1>1. CASE EnqueueExecution
  <2>1. TypeOK'  BY <1>1 DEF EnqueueExecution, TypeOK, storeVars, workerVars, requestVars
  <2>2. StepOK'  BY <1>1 DEF EnqueueExecution, TypeOK, StepOK, storeVars, workerVars, requestVars
  <2> QED  BY <2>1, <2>2
<1>2. CASE EnqueueExecutionFails
  <2>1. TypeOK'  BY <1>2 DEF EnqueueExecutionFails, TypeOK, storeVars, workerVars, requestVars
  <2>2. StepOK'  BY <1>2 DEF EnqueueExecutionFails, TypeOK, StepOK, storeVars, workerVars, requestVars
  <2> QED  BY <2>1, <2>2
<1>3. ASSUME NEW r \in RetryRequests, RetryLoad(r)  PROVE Typed'
  <2>1. TypeOK'  BY <1>3 DEF RetryLoad, TypeOK, storeVars, workerVars, requestVars
  <2>2. StepOK'  BY <1>3 DEF RetryLoad, TypeOK, StepOK, storeVars, workerVars, requestVars
  <2> QED  BY <2>1, <2>2
<1>4. ASSUME NEW r \in RetryRequests, RetryMark(r)  PROVE Typed'
  <2>1. TypeOK'  BY <1>4, StoreRunType, WatchRunType DEF RetryMark, TypeOK, storeVars, workerVars, requestVars, Runs, RunStatuses
  <2>2. StepOK'  BY <1>4 DEF RetryMark, TypeOK, StepOK, storeVars, workerVars, requestVars
  <2> QED  BY <2>1, <2>2
<1>5. ASSUME NEW r \in RetryRequests, RetryEnqueue(r)  PROVE Typed'
  <2>1. TypeOK'  BY <1>5 DEF RetryEnqueue, TypeOK, storeVars, workerVars, requestVars
  <2>2. StepOK'  BY <1>5 DEF RetryEnqueue, TypeOK, StepOK, storeVars, workerVars, requestVars
  <2> QED  BY <2>1, <2>2
<1>6. ASSUME NEW c \in CancelRequests, CancelMark(c)  PROVE Typed'
  <2>1. TypeOK'
    <3>1. run' \in Runs
      BY <1>6, CancelledRunType DEF CancelMark, TypeOK
    <3> QED  BY <1>6, WatchRunType, <3>1 DEF CancelMark, TypeOK, storeVars, workerVars, requestVars
  <2>2. StepOK'  BY <1>6 DEF CancelMark, TypeOK, StepOK, storeVars, workerVars, requestVars
  <2> QED  BY <2>1, <2>2
<1>7. ASSUME NEW c \in CancelRequests, CancelJobs(c)  PROVE Typed'
  <2>1. TypeOK'  BY <1>7 DEF CancelJobs, TypeOK, storeVars, workerVars, requestVars
  <2>2. StepOK'  BY <1>7 DEF CancelJobs, TypeOK, StepOK, storeVars, workerVars, requestVars
  <2> QED  BY <2>1, <2>2
<1>8. ASSUME NEW w \in Workers, Dequeue(w)  PROVE Typed'
  <2>1. TypeOK'
    <3>1. pc' \in [Workers -> WorkerPcs]
      BY <1>8 DEF Dequeue, TypeOK, WorkerPcs
    <3>2. job' \in [Workers -> JobKinds \cup {"none"}]
      BY <1>8 DEF Dequeue, TypeOK, JobKinds
    <3>3. jobs' \in [execute : BOOLEAN, retry : Nat]
      <4>1. CASE jobs' = [jobs EXCEPT !.execute = FALSE]
        BY <4>1 DEF TypeOK
      <4>2. CASE jobs.retry > 0 /\ jobs' = [jobs EXCEPT !.retry = @ - 1]
        <5>1. jobs.retry - 1 \in Nat
          BY <4>2 DEF TypeOK
        <5> QED
          BY <4>2, <5>1 DEF TypeOK
      <4> QED
        BY <1>8, <4>1, <4>2 DEF Dequeue
    <3> QED  BY <1>8, <3>1, <3>2, <3>3 DEF Dequeue, TypeOK, storeVars, workerVars, requestVars
  <2>2. StepOK'  BY <1>8 DEF Dequeue, TypeOK, StepOK, storeVars, workerVars, requestVars, EndJob, Goto
  <2> QED  BY <2>1, <2>2
<1>9. ASSUME NEW w \in Workers, LoadExecution(w)  PROVE Typed'
  <2>1. TypeOK'  BY <1>9, EndJobType DEF LoadExecution, TypeOK, storeVars, workerVars, requestVars, WorkerPcs, Goto
  <2>2. StepOK'  BY <1>9 DEF LoadExecution, TypeOK, StepOK, storeVars, workerVars, requestVars, EndJob, Goto
  <2> QED  BY <2>1, <2>2
<1>10. ASSUME NEW w \in Workers, AdvanceToCrawling(w)  PROVE Typed'
  <2>1. TypeOK'  BY <1>10 DEF AdvanceToCrawling, TypeOK, storeVars, workerVars, requestVars, WorkerPcs, Goto, AdvancedProcessing, ProcessingStatuses
  <2>2. StepOK'  BY <1>10 DEF AdvanceToCrawling, TypeOK, StepOK, storeVars, workerVars, requestVars, EndJob, Goto
  <2> QED  BY <2>1, <2>2
<1>11. ASSUME NEW w \in Workers, MarkRunning(w)  PROVE Typed'
  <2>1. TypeOK'  BY <1>11, WrittenRunType, WatchRunType DEF MarkRunning, TypeOK, storeVars, workerVars, requestVars, WorkerPcs, Goto, Runs, RunStatuses
  <2>2. StepOK'  BY <1>11 DEF MarkRunning, TypeOK, StepOK, storeVars, workerVars, requestVars, EndJob, Goto
  <2> QED  BY <2>1, <2>2
<1>12. ASSUME NEW w \in Workers, SaveTarget(w)  PROVE Typed'
  <2>1. TypeOK'
    <3>1. targets' \in [Targets -> TargetDocs]
      BY <1>12 DEF SaveTarget, TypeOK, TargetDocs, TargetStatuses
    <3>2. work' \in [Workers -> Works]
      <4>1. PICK t \in Targets :
              work' = [work EXCEPT ![w].todo = @ \cup {t}, ![w].held[t] = 1]
        BY <1>12 DEF SaveTarget
      <4> QED
        BY <4>1, WorkType DEF TypeOK
    <3> QED  BY <1>12, <3>1, <3>2 DEF SaveTarget, TypeOK, storeVars, workerVars, requestVars
  <2>2. StepOK'  BY <1>12 DEF SaveTarget, TypeOK, StepOK, storeVars, workerVars, requestVars, EndJob, Goto
  <2> QED  BY <2>1, <2>2
<1>13. ASSUME NEW w \in Workers, SelectionDone(w)  PROVE Typed'
  <2>1. TypeOK'
    <3>1. pc' \in [Workers -> WorkerPcs]
      BY <1>13 DEF SelectionDone, TypeOK, WorkerPcs, Goto
    <3>2. copy' \in [Workers -> Runs]
      BY <1>13, CountIsNat, CopyType DEF SelectionDone, TypeOK, Works
    <3> QED  BY <1>13, <3>1, <3>2 DEF SelectionDone, TypeOK, storeVars, workerVars, requestVars
  <2>2. StepOK'  BY <1>13 DEF SelectionDone, TypeOK, StepOK, storeVars, workerVars, requestVars, EndJob, Goto
  <2> QED  BY <2>1, <2>2
<1>14. ASSUME NEW w \in Workers, CheckCancellation(w)  PROVE Typed'
  <2>1. TypeOK'
    <3>1. pc' \in [Workers -> WorkerPcs]
      BY <1>14 DEF CheckCancellation, TypeOK, WorkerPcs, Goto
    <3>2. work' \in [Workers -> Works]
      <4>0. work \in [Workers -> Works]
        BY DEF TypeOK
      <4>1. CASE UNCHANGED work \/ work' = [work EXCEPT ![w].wasCancelled = TRUE]
        <5>1. [work EXCEPT ![w].wasCancelled = TRUE] \in [Workers -> Works]
          BY <4>0, WorkType
        <5> QED
          BY <4>0, <4>1, <5>1
      <4>2. CASE \E t \in work[w].todo :
                   work' = [work EXCEPT ![w].todo = @ \ {t}, ![w].target = t]
        <5>1. PICK t \in work[w].todo :
                work' = [work EXCEPT ![w].todo = @ \ {t}, ![w].target = t]
          BY <4>2
        <5>2. t \in Targets
          BY <4>0 DEF Works
        <5>3. [work EXCEPT ![w].todo = @ \ {t}, ![w].target = t] \in [Workers -> Works]
          BY <4>0, <5>2, WorkType
        <5> QED
          BY <5>1, <5>3
      <4> QED
        BY <1>14, <4>1, <4>2 DEF CheckCancellation
    <3> QED  BY <1>14, <3>1, <3>2 DEF CheckCancellation, TypeOK, storeVars, workerVars, requestVars
  <2>2. StepOK'
    <3>1. \A v \in Workers \ {w} : pc'[v] = pc[v] /\ job'[v] = job[v] /\ work'[v] = work[v]
      BY <1>14 DEF CheckCancellation, TypeOK, Goto
    <3>2. job'[w] = job[w] /\ job[w] # "none"
      BY <1>14 DEF CheckCancellation, TypeOK, StepOK
    <3>3. pc'[w] \in {"check", "skip", "finish", "process"}
      BY <1>14 DEF CheckCancellation, TypeOK, Goto
    <3>4. pc'[w] = "skip" => job[w] = "execute"
      BY <1>14 DEF CheckCancellation, TypeOK, Goto
    <3>5. pc'[w] = "process" => work'[w].target \in Targets
      <4>1. work \in [Workers -> Works] /\ pc[w] = "check" /\ pc \in [Workers -> WorkerPcs]
        BY <1>14 DEF CheckCancellation, TypeOK
      <4>2. SUFFICES ASSUME pc'[w] = "process"
                     PROVE  work'[w].target \in Targets
        OBVIOUS
      <4>3. PICK t \in work[w].todo : work' = [work EXCEPT ![w].todo = @ \ {t}, ![w].target = t]
        BY <1>14, <4>1, <4>2 DEF CheckCancellation, Goto
      <4> QED
        BY <4>1, <4>3 DEF Works
    <3> QED
      BY <3>1, <3>2, <3>3, <3>4, <3>5 DEF StepOK
  <2> QED  BY <2>1, <2>2
<1>15. ASSUME NEW w \in Workers, SkipTarget(w)  PROVE Typed'
  <2>1. TypeOK'
    <3>1. pc' \in [Workers -> WorkerPcs]
      BY <1>15 DEF SkipTarget, TypeOK, WorkerPcs, Goto
    <3>2. work' \in [Workers -> Works]
      <4>1. PICK t \in Targets : work' = [work EXCEPT ![w].todo = @ \ {t}]
        BY <1>15 DEF SkipTarget, TypeOK, Works
      <4> QED
        BY <4>1, WorkType DEF TypeOK
    <3>3. copy' \in [Workers -> Runs]
      BY <1>15, CopyType DEF SkipTarget, TypeOK
    <3>4. targets' \in [Targets -> TargetDocs]
      BY <1>15, UpdateTargetType DEF SkipTarget, TypeOK, Works, TargetStatuses
    <3> QED  BY <1>15, <3>1, <3>2, <3>3, <3>4 DEF SkipTarget, TypeOK, storeVars, workerVars, requestVars
  <2>2. StepOK'  BY <1>15 DEF SkipTarget, TypeOK, StepOK, storeVars, workerVars, requestVars, EndJob, Goto
  <2> QED  BY <2>1, <2>2
<1>16. ASSUME NEW w \in Workers, LoadRetry(w)  PROVE Typed'
  <2>1. TypeOK'  BY <1>16 DEF LoadRetry, TypeOK, storeVars, workerVars, requestVars, WorkerPcs, Goto
  <2>2. StepOK'  BY <1>16 DEF LoadRetry, TypeOK, StepOK, storeVars, workerVars, requestVars, EndJob, Goto
  <2> QED  BY <2>1, <2>2
<1>17. ASSUME NEW w \in Workers, ListRetryable(w)  PROVE Typed'
  <2>1. TypeOK'
    <3>1. pc' \in [Workers -> WorkerPcs]
      BY <1>17 DEF ListRetryable, TypeOK, WorkerPcs, Goto
    <3>2. work' \in [Workers -> Works]
      BY <1>17, WorkType DEF ListRetryable, TypeOK, TargetDocs, WithStatus
    <3>3. copy' \in [Workers -> Runs]
      <4>1. \A m, n \in Nat : Less(m, n) \in Nat
        BY DEF Less
      <4>2. copy[w].summary.failed \in Nat /\ copy[w].summary.blocked \in Nat
        BY DEF TypeOK, Runs, Summaries
      <4>3. \A S : Cardinality(WithStatus(S)) \in Nat
        BY CountIsNat DEF WithStatus
      <4> QED
        BY <1>17, <4>1, <4>2, <4>3, CopyType DEF ListRetryable, TypeOK
    <3> QED  BY <1>17, <3>1, <3>2, <3>3 DEF ListRetryable, TypeOK, storeVars, workerVars, requestVars
  <2>2. StepOK'  BY <1>17 DEF ListRetryable, TypeOK, StepOK, storeVars, workerVars, requestVars, EndJob, Goto
  <2> QED  BY <2>1, <2>2
<1>18. ASSUME NEW w \in Workers, NextRetry(w)  PROVE Typed'
  <2>1. TypeOK'
    <3>1. pc' \in [Workers -> WorkerPcs]
      BY <1>18 DEF NextRetry, TypeOK, WorkerPcs, Goto
    <3>2. work' \in [Workers -> Works]
      <4>0. work \in [Workers -> Works]
        BY DEF TypeOK
      <4>1. CASE UNCHANGED work
        BY <4>0, <4>1, WorkType
      <4>2. CASE \E t \in work[w].todo :
                   work' = [work EXCEPT ![w].todo = @ \ {t}, ![w].target = t]
        <5>1. PICK t \in work[w].todo :
                work' = [work EXCEPT ![w].todo = @ \ {t}, ![w].target = t]
          BY <4>2
        <5>2. t \in Targets
          BY <4>0 DEF Works
        <5>3. [work EXCEPT ![w].todo = @ \ {t}, ![w].target = t] \in [Workers -> Works]
          BY <4>0, <5>2, WorkType
        <5> QED
          BY <5>1, <5>3
      <4> QED
        BY <1>18, <4>1, <4>2 DEF NextRetry
    <3> QED  BY <1>18, <3>1, <3>2 DEF NextRetry, TypeOK, storeVars, workerVars, requestVars
  <2>2. StepOK'
    <3>1. \A v \in Workers \ {w} : pc'[v] = pc[v] /\ job'[v] = job[v] /\ work'[v] = work[v]
      BY <1>18 DEF NextRetry, TypeOK, Goto
    <3>2. job'[w] = job[w] /\ job[w] # "none"
      BY <1>18 DEF NextRetry, TypeOK, StepOK
    <3>3. pc'[w] \in {"check", "skip", "finish", "process"}
      BY <1>18 DEF NextRetry, TypeOK, Goto
    <3>4. pc'[w] = "skip" => job[w] = "execute"
      BY <1>18 DEF NextRetry, TypeOK, Goto
    <3>5. pc'[w] = "process" => work'[w].target \in Targets
      <4>1. work \in [Workers -> Works] /\ pc[w] = "check" /\ pc \in [Workers -> WorkerPcs]
        BY <1>18 DEF NextRetry, TypeOK
      <4>2. SUFFICES ASSUME pc'[w] = "process"
                     PROVE  work'[w].target \in Targets
        OBVIOUS
      <4>3. PICK t \in work[w].todo : work' = [work EXCEPT ![w].todo = @ \ {t}, ![w].target = t]
        BY <1>18, <4>1, <4>2 DEF NextRetry, Goto
      <4> QED
        BY <4>1, <4>3 DEF Works
    <3> QED
      BY <3>1, <3>2, <3>3, <3>4, <3>5 DEF StepOK
  <2> QED  BY <2>1, <2>2
<1>19. ASSUME NEW w \in Workers, BlockTarget(w)  PROVE Typed'
  <2>1. TypeOK'
    <3>1. pc' \in [Workers -> WorkerPcs]
      BY <1>19 DEF BlockTarget, TypeOK, WorkerPcs, Goto
    <3>2. work' \in [Workers -> Works]
      BY <1>19, WorkType DEF BlockTarget, TypeOK, TargetStatuses
    <3> QED  BY <1>19, <3>1, <3>2 DEF BlockTarget, TypeOK, storeVars, workerVars, requestVars
  <2>2. StepOK'  BY <1>19 DEF BlockTarget, TypeOK, StepOK, storeVars, workerVars, requestVars, EndJob, Goto
  <2> QED  BY <2>1, <2>2
<1>20. ASSUME NEW w \in Workers, FetchTarget(w)  PROVE Typed'
  <2>1. TypeOK'
    <3>1. pc' \in [Workers -> WorkerPcs]
      BY <1>20 DEF FetchTarget, TypeOK, WorkerPcs, Goto
    <3>2. work' \in [Workers -> Works]
      <4>1. PICK o \in PageStatuses : work' = [work EXCEPT ![w].outcome = o]
        BY <1>20 DEF FetchTarget
      <4> QED
        BY <4>1, WorkType DEF TypeOK, TargetStatuses
    <3>3. copy' \in [Workers -> Runs]
      <4>1. PICK b \in BOOLEAN : copy' = [copy EXCEPT ![w].summary.warned = @ \/ b]
        BY <1>20 DEF FetchTarget
      <4> QED
        BY <4>1, CopyType DEF TypeOK
    <3>4. overrun' \in [JobKinds -> Nat]
      BY <1>20 DEF FetchTarget, TypeOK, StepOK
    <3> QED  BY <1>20, <3>1, <3>2, <3>3, <3>4 DEF FetchTarget, TypeOK, storeVars, workerVars, requestVars
  <2>2. StepOK'  BY <1>20 DEF FetchTarget, TypeOK, StepOK, storeVars, workerVars, requestVars, EndJob, Goto
  <2> QED  BY <2>1, <2>2
<1>21. ASSUME NEW w \in Workers, SavePage(w)  PROVE Typed'
  <2>1. TypeOK'  BY <1>21 DEF SavePage, TypeOK, storeVars, workerVars, requestVars, WorkerPcs, Goto, StorePage, StepOK
  <2>2. StepOK'  BY <1>21 DEF SavePage, TypeOK, StepOK, storeVars, workerVars, requestVars, EndJob, Goto
  <2> QED  BY <2>1, <2>2
<1>22. ASSUME NEW w \in Workers, SaveTargetUpdate(w)  PROVE Typed'
  <2>1. TypeOK'
    <3>1. pc' \in [Workers -> WorkerPcs]
      BY <1>22 DEF SaveTargetUpdate, TypeOK, WorkerPcs, Goto
    <3>2. work' \in [Workers -> Works]
      BY <1>22, WorkType DEF SaveTargetUpdate, TypeOK, StepOK
    <3>3. copy' \in [Workers -> Runs]
      BY <1>22, CopyType DEF SaveTargetUpdate, TypeOK, StepOK
    <3>4. targets' \in [Targets -> TargetDocs]
      BY <1>22, UpdateTargetType DEF SaveTargetUpdate, TypeOK, Works, StepOK, TargetStatuses
    <3> QED  BY <1>22, <3>1, <3>2, <3>3, <3>4 DEF SaveTargetUpdate, TypeOK, storeVars, workerVars, requestVars
  <2>2. StepOK'  BY <1>22 DEF SaveTargetUpdate, TypeOK, StepOK, storeVars, workerVars, requestVars, EndJob, Goto
  <2> QED  BY <2>1, <2>2
<1>23. ASSUME NEW w \in Workers, FinishRun(w)  PROVE Typed'
  <2>1. TypeOK'
    <3> DEFINE final == [copy[w] EXCEPT !.status =
                 FinalStatus(copy[w].summary, work[w].homepageFailed, work[w].wasCancelled)]
    <3>1. final \in Runs
      <4>1. copy[w].summary \in Summaries
        BY DEF TypeOK, Runs
      <4>2. work[w].homepageFailed \in BOOLEAN /\ work[w].wasCancelled \in BOOLEAN
        BY DEF TypeOK, Works
      <4> QED
        BY <4>1, <4>2, FinalStatusType, CopyType DEF TypeOK
    <3>2. run' = StoredRun(final)
      BY <1>23 DEF FinishRun
    <3>3. run' \in Runs
      BY <3>1, <3>2, StoreRunType
    <3>4. overrun' \in [JobKinds -> Nat]
      BY <1>23, WatchRunType DEF FinishRun
    <3>5. CASE copy' = [copy EXCEPT ![w] = ReturnedRun(final)] /\ Goto(w, "company")
                 /\ UNCHANGED <<job, work>>
      <4>1. copy' \in [Workers -> Runs]
        BY <3>1, <3>5, WrittenRunType DEF TypeOK
      <4>2. pc' \in [Workers -> WorkerPcs]
        BY <3>5, GotoType DEF WorkerPcs
      <4> QED
        BY <1>23, <3>3, <3>4, <3>5, <4>1, <4>2 DEF FinishRun, TypeOK, requestVars
    <3>6. CASE EndJob(w)
      BY <1>23, <3>3, <3>4, <3>6, EndJobType DEF FinishRun, TypeOK, requestVars
    <3> QED
      BY <1>23, <3>5, <3>6 DEF FinishRun
  <2>2. StepOK'  BY <1>23 DEF FinishRun, TypeOK, StepOK, storeVars, workerVars, requestVars, EndJob, Goto
  <2> QED  BY <2>1, <2>2
<1>24. ASSUME NEW w \in Workers, FinishCompany(w)  PROVE Typed'
  <2>1. TypeOK'  BY <1>24, EndJobType DEF FinishCompany, TypeOK, storeVars, workerVars, requestVars, AdvancedProcessing, ProcessingTransitionAllowed, AllowedProcessing, ProcessingStatuses, CompanyVerdict
  <2>2. StepOK'  BY <1>24 DEF FinishCompany, TypeOK, StepOK, storeVars, workerVars, requestVars, EndJob, Goto
  <2> QED  BY <2>1, <2>2
<1>25. ASSUME NEW w \in Workers, Crash(w)  PROVE Typed'
  <2>1. TypeOK'  BY <1>25, EndJobType DEF Crash, TypeOK, storeVars, workerVars, requestVars
  <2>2. StepOK'  BY <1>25 DEF Crash, TypeOK, StepOK, storeVars, workerVars, requestVars, EndJob, Goto
  <2> QED  BY <2>1, <2>2
<1>26. CASE UNCHANGED vars
  BY <1>26 DEF vars, TypeOK, StepOK, storeVars, workerVars, requestVars
<1> QED
  BY <1>1, <1>2, <1>3, <1>4, <1>5, <1>6, <1>7, <1>8, <1>9, <1>10, <1>11, <1>12, <1>13, <1>14, <1>15, <1>16, <1>17, <1>18, <1>19, <1>20, <1>21, <1>22, <1>23, <1>24, <1>25, <1>26 DEF Next, WorkerStep, RetryContinues

\* Type correctness: every run, target, page, company and job stays in its
\* type; no counter of a summary becomes negative, whatever dies and whatever
\* is retried (max(0, ...) in retry_failed).
THEOREM TypeCorrect == Spec => []TypeOK
<1>1. Init => Typed
  BY InitTyped
<1>2. Typed /\ [Next]_vars => Typed'
  BY TypedStep
<1>3. Typed => TypeOK
  BY DEF Typed
<1> QED
  BY <1>1, <1>2, <1>3, PTL DEF Spec

-----------------------------------------------------------------------------
(* Cancellation and the run document's version: no write that is based on  *)
(* an old copy takes effect, so a cancellation stands, and the document is *)
(* an OptimisticRecord.                                                    *)

\* A copy is of the stored version or an older one; a copy of the stored
\* version shows the stored status.
CopyOK(c) ==
  /\ c.version <= run.version
  /\ c.version = run.version => c.status = run.status

VersionOK ==
  /\ run.version >= 1
  /\ \A w \in Workers : CopyOK(copy[w])
  /\ \A r \in RetryRequests : CopyOK(retryCopy[r])

\* An execution that is under way does not know of a cancellation.
ExecutionOK ==
  \A w \in Workers :
    job[w] = "execute" /\ pc[w] \notin {"load", "company"} => copy[w].status # "cancelled"

CancelInv == Typed /\ VersionOK /\ ExecutionOK

LEMMA InitCancel == Init => VersionOK /\ ExecutionOK
BY DEF Init, VersionOK, CopyOK, ExecutionOK, NoRun

\* The versions of well-typed documents are numbers.
LEMMA VersionsAreNat ==
  ASSUME Typed
  PROVE  /\ run.version \in Nat
         /\ \A w \in Workers : copy[w].version \in Nat
         /\ \A r \in RetryRequests : retryCopy[r].version \in Nat
BY DEF Typed, TypeOK, Runs

\* A step that neither writes the run nor takes a new copy of it.
LEMMA QuietVersion ==
  ASSUME VersionOK, UNCHANGED <<run, retryCopy>>,
         \A w \in Workers : /\ copy'[w].version = copy[w].version
                            /\ copy'[w].status = copy[w].status
  PROVE  VersionOK'
BY DEF VersionOK, CopyOK

\* A worker that ends its job drops its copy.
LEMMA EndJobVersion ==
  ASSUME Typed, VersionOK, NEW w \in Workers, EndJob(w), UNCHANGED <<run, retryCopy>>
  PROVE  VersionOK'
<1>1. \A v \in Workers : copy'[v] = IF v = w THEN NoRun ELSE copy[v]
  BY DEF EndJob, Typed, TypeOK
<1>2. NoRun.version = 0
  BY DEF NoRun
<1>3. run.version \in Nat /\ run.version >= 1
  BY VersionsAreNat DEF VersionOK
<1>4. NoRun.version <= run.version /\ NoRun.version # run.version
  BY <1>2, <1>3
<1> QED
  BY <1>1, <1>4 DEF VersionOK, CopyOK

\* update_run: the stored document is the caller's, one version on, or stays.
LEMMA StoredRunFacts ==
  ASSUME NEW c \in Runs, run \in Runs
  PROVE  /\ Fresh(c) => /\ StoredRun(c) = ReturnedRun(c)
                        /\ StoredRun(c).version = run.version + 1
                        /\ StoredRun(c).status = c.status
         /\ ~Fresh(c) => StoredRun(c) = run /\ ReturnedRun(c) = c
BY DEF StoredRun, ReturnedRun, Fresh, Runs

\* A worker writes the run and goes on with what update_run returned.
LEMMA WriteVersion ==
  ASSUME Typed, VersionOK, NEW w \in Workers, NEW c \in Runs, c.version = copy[w].version,
         run' = StoredRun(c), copy' = [copy EXCEPT ![w] = ReturnedRun(c)], UNCHANGED retryCopy
  PROVE  VersionOK'
<1>1. run \in Runs /\ copy \in [Workers -> Runs]
  BY DEF Typed, TypeOK
<1>2. \A v \in Workers \ {w} : copy'[v] = copy[v]
  BY <1>1
<1>3. copy'[w] = ReturnedRun(c)
  BY <1>1
<1>4. CASE Fresh(c)
  <2>1. run' = copy'[w] /\ run'.version = run.version + 1
    BY <1>1, <1>3, <1>4, StoredRunFacts
  <2> QED
    BY <1>2, <2>1, VersionsAreNat DEF VersionOK, CopyOK
<1>5. CASE ~Fresh(c)
  <2>1. run' = run /\ copy'[w] = c
    BY <1>1, <1>3, <1>5, StoredRunFacts
  <2>2. c.version <= run.version /\ c.version # run.version
    BY <1>5 DEF VersionOK, CopyOK, Fresh
  <2> QED
    BY <1>2, <2>1, <2>2 DEF VersionOK, CopyOK
<1> QED
  BY <1>4, <1>5

\* The invariant on versions is kept by every step.
LEMMA VersionStep == Typed /\ VersionOK /\ [Next]_vars => VersionOK'
<1> SUFFICES ASSUME Typed, VersionOK, [Next]_vars  PROVE VersionOK'
  OBVIOUS
<1>1. CASE EnqueueExecution
  BY <1>1, QuietVersion DEF EnqueueExecution, Typed, TypeOK, Runs, storeVars, workerVars, requestVars
<1>2. CASE EnqueueExecutionFails
  BY <1>2, QuietVersion DEF EnqueueExecutionFails, Typed, TypeOK, Runs, storeVars, workerVars, requestVars
<1>3. ASSUME NEW r \in RetryRequests, RetryLoad(r)  PROVE VersionOK'
  <2>1. UNCHANGED <<run, copy>> /\ retryCopy' = [retryCopy EXCEPT ![r] = run]
    BY <1>3 DEF RetryLoad, storeVars, workerVars
  <2>2. run.version \in Nat
    BY VersionsAreNat
  <2> QED
    BY <2>1, <2>2 DEF VersionOK, CopyOK, Typed, TypeOK
<1>4. ASSUME NEW r \in RetryRequests, RetryMark(r)  PROVE VersionOK'
  <2> DEFINE c == [retryCopy[r] EXCEPT !.status = "queued"]
  <2>1. c \in Runs /\ run \in Runs
    BY DEF Typed, TypeOK, Runs, RunStatuses
  <2>2. run' = StoredRun(c) /\ UNCHANGED <<copy, retryCopy>>
    BY <1>4 DEF RetryMark, workerVars
  <2>3. run' = run \/ run'.version = run.version + 1
    BY <2>1, <2>2, StoredRunFacts
  <2> QED
    BY <2>2, <2>3, VersionsAreNat DEF VersionOK, CopyOK
<1>5. ASSUME NEW r \in RetryRequests, RetryEnqueue(r)  PROVE VersionOK'
  BY <1>5, QuietVersion DEF RetryEnqueue, Typed, TypeOK, Runs, storeVars, workerVars, requestVars
<1>6. ASSUME NEW q \in CancelRequests, CancelMark(q)  PROVE VersionOK'
  <2>1. run'.version = run.version + 1 /\ UNCHANGED <<copy, retryCopy>>
    BY <1>6 DEF CancelMark, workerVars, Typed, TypeOK, Runs
  <2> QED
    BY <2>1, VersionsAreNat DEF VersionOK, CopyOK
<1>7. ASSUME NEW q \in CancelRequests, CancelJobs(q)  PROVE VersionOK'
  BY <1>7, QuietVersion DEF CancelJobs, Typed, TypeOK, Runs, storeVars, workerVars, requestVars
<1>8. ASSUME NEW w \in Workers, Dequeue(w)  PROVE VersionOK'
  BY <1>8, QuietVersion DEF Dequeue, Typed, TypeOK, Runs, storeVars, workerVars, requestVars
<1>9. ASSUME NEW w \in Workers, LoadExecution(w)  PROVE VersionOK'
  <2>1. CASE EndJob(w)
    BY <1>9, <2>1, EndJobVersion DEF LoadExecution, storeVars, requestVars
  <2>2. CASE copy' = [copy EXCEPT ![w] = run]
    <3>1. UNCHANGED <<run, retryCopy>>
      BY <1>9 DEF LoadExecution, storeVars, requestVars
    <3> QED
      BY <2>2, <3>1, VersionsAreNat DEF VersionOK, CopyOK, Typed, TypeOK
  <2> QED
    BY <1>9, <2>1, <2>2 DEF LoadExecution
<1>10. ASSUME NEW w \in Workers, AdvanceToCrawling(w)  PROVE VersionOK'
  BY <1>10, QuietVersion DEF AdvanceToCrawling, Typed, TypeOK, Runs, storeVars, workerVars, requestVars
<1>11. ASSUME NEW w \in Workers, MarkRunning(w)  PROVE VersionOK'
  <2> DEFINE c == [copy[w] EXCEPT !.status = "running"]
  <2>1. c \in Runs /\ run \in Runs /\ c.version = copy[w].version
    BY DEF Typed, TypeOK, Runs, RunStatuses
  <2>2. run' = StoredRun(c) /\ copy' = [copy EXCEPT ![w] = ReturnedRun(c)] /\ UNCHANGED retryCopy
    BY <1>11 DEF MarkRunning, requestVars
  <2> QED
    BY <2>1, <2>2, WriteVersion
<1>12. ASSUME NEW w \in Workers, SaveTarget(w)  PROVE VersionOK'
  BY <1>12, QuietVersion DEF SaveTarget, Typed, TypeOK, Runs, storeVars, workerVars, requestVars
<1>13. ASSUME NEW w \in Workers, SelectionDone(w)  PROVE VersionOK'
  BY <1>13, QuietVersion DEF SelectionDone, Typed, TypeOK, Runs, storeVars, workerVars, requestVars
<1>14. ASSUME NEW w \in Workers, CheckCancellation(w)  PROVE VersionOK'
  BY <1>14, QuietVersion DEF CheckCancellation, Typed, TypeOK, Runs, storeVars, workerVars, requestVars
<1>15. ASSUME NEW w \in Workers, SkipTarget(w)  PROVE VersionOK'
  BY <1>15, QuietVersion DEF SkipTarget, Typed, TypeOK, Runs, storeVars, workerVars, requestVars
<1>16. ASSUME NEW w \in Workers, LoadRetry(w)  PROVE VersionOK'
  <2>1. UNCHANGED <<run, retryCopy>> /\ copy' = [copy EXCEPT ![w] = run]
    BY <1>16 DEF LoadRetry, storeVars, requestVars
  <2> QED
    BY <2>1, VersionsAreNat DEF VersionOK, CopyOK, Typed, TypeOK
<1>17. ASSUME NEW w \in Workers, ListRetryable(w)  PROVE VersionOK'
  BY <1>17, QuietVersion DEF ListRetryable, Typed, TypeOK, Runs, storeVars, workerVars, requestVars
<1>18. ASSUME NEW w \in Workers, NextRetry(w)  PROVE VersionOK'
  BY <1>18, QuietVersion DEF NextRetry, Typed, TypeOK, Runs, storeVars, workerVars, requestVars
<1>19. ASSUME NEW w \in Workers, BlockTarget(w)  PROVE VersionOK'
  BY <1>19, QuietVersion DEF BlockTarget, Typed, TypeOK, Runs, storeVars, workerVars, requestVars
<1>20. ASSUME NEW w \in Workers, FetchTarget(w)  PROVE VersionOK'
  BY <1>20, QuietVersion DEF FetchTarget, Typed, TypeOK, Runs, storeVars, workerVars, requestVars
<1>21. ASSUME NEW w \in Workers, SavePage(w)  PROVE VersionOK'
  BY <1>21, QuietVersion DEF SavePage, Typed, TypeOK, Runs, storeVars, workerVars, requestVars
<1>22. ASSUME NEW w \in Workers, SaveTargetUpdate(w)  PROVE VersionOK'
  BY <1>22, QuietVersion DEF SaveTargetUpdate, Typed, TypeOK, Runs, storeVars, workerVars, requestVars
<1>23. ASSUME NEW w \in Workers, FinishRun(w)  PROVE VersionOK'
  <2> DEFINE c == [copy[w] EXCEPT !.status =
                 FinalStatus(copy[w].summary, work[w].homepageFailed, work[w].wasCancelled)]
  <2>1. c \in Runs /\ run \in Runs /\ c.version = copy[w].version
    <3>1. copy[w].summary \in Summaries /\ copy[w] \in Runs /\ run \in Runs
      BY DEF Typed, TypeOK, Runs
    <3>2. work[w].homepageFailed \in BOOLEAN /\ work[w].wasCancelled \in BOOLEAN
      BY DEF Typed, TypeOK, Works
    <3> QED
      BY <3>1, <3>2, FinalStatusType DEF Runs
  <2>2. run' = StoredRun(c) /\ UNCHANGED retryCopy
    BY <1>23 DEF FinishRun, requestVars
  <2>3. CASE copy' = [copy EXCEPT ![w] = ReturnedRun(c)]
    BY <2>1, <2>2, <2>3, WriteVersion
  <2>4. CASE copy' = [copy EXCEPT ![w] = NoRun]
    <3>1. run' = run \/ run'.version = run.version + 1
      BY <2>1, <2>2, StoredRunFacts
    <3>2. NoRun.version = 0
      BY DEF NoRun
    <3> QED
      BY <2>2, <2>4, <3>1, <3>2, VersionsAreNat DEF VersionOK, CopyOK, Typed, TypeOK
  <2> QED
    BY <1>23, <2>3, <2>4 DEF FinishRun, EndJob
<1>24. ASSUME NEW w \in Workers, FinishCompany(w)  PROVE VersionOK'
  BY <1>24, EndJobVersion DEF FinishCompany, storeVars, requestVars
<1>25. ASSUME NEW w \in Workers, Crash(w)  PROVE VersionOK'
  BY <1>25, EndJobVersion DEF Crash, storeVars, requestVars
<1>26. CASE UNCHANGED vars
  BY <1>26, QuietVersion DEF vars, storeVars, workerVars, requestVars
<1> QED
  BY <1>1, <1>2, <1>3, <1>4, <1>5, <1>6, <1>7, <1>8, <1>9, <1>10, <1>11, <1>12, <1>13, <1>14, <1>15, <1>16, <1>17, <1>18, <1>19, <1>20, <1>21, <1>22, <1>23, <1>24, <1>25, <1>26 DEF Next, WorkerStep, RetryContinues

\* An execution takes its copy from a run that is not cancelled and gives it
\* the status running; only its last write can be a cancellation.
LEMMA ExecutionStep == Typed /\ ExecutionOK /\ [Next]_vars => ExecutionOK'
<1> SUFFICES ASSUME Typed, ExecutionOK, [Next]_vars  PROVE ExecutionOK'
  OBVIOUS
<1>1. CASE EnqueueExecution
  BY <1>1 DEF EnqueueExecution, ExecutionOK, storeVars, workerVars, requestVars
<1>2. CASE EnqueueExecutionFails
  BY <1>2 DEF EnqueueExecutionFails, ExecutionOK, storeVars, workerVars, requestVars
<1>3. ASSUME NEW r \in RetryRequests, RetryLoad(r)  PROVE ExecutionOK'
  BY <1>3 DEF RetryLoad, ExecutionOK, storeVars, workerVars, requestVars
<1>4. ASSUME NEW r \in RetryRequests, RetryMark(r)  PROVE ExecutionOK'
  BY <1>4 DEF RetryMark, ExecutionOK, storeVars, workerVars, requestVars
<1>5. ASSUME NEW r \in RetryRequests, RetryEnqueue(r)  PROVE ExecutionOK'
  BY <1>5 DEF RetryEnqueue, ExecutionOK, storeVars, workerVars, requestVars
<1>6. ASSUME NEW q \in CancelRequests, CancelMark(q)  PROVE ExecutionOK'
  BY <1>6 DEF CancelMark, ExecutionOK, storeVars, workerVars, requestVars
<1>7. ASSUME NEW q \in CancelRequests, CancelJobs(q)  PROVE ExecutionOK'
  BY <1>7 DEF CancelJobs, ExecutionOK, storeVars, workerVars, requestVars
<1>8. ASSUME NEW w \in Workers, Dequeue(w)  PROVE ExecutionOK'
  BY <1>8 DEF Dequeue, Typed, TypeOK, StepOK, ExecutionOK, EndJob, Goto, Runs
<1>9. ASSUME NEW w \in Workers, LoadExecution(w)  PROVE ExecutionOK'
  BY <1>9 DEF LoadExecution, Typed, TypeOK, StepOK, ExecutionOK, EndJob, Goto, Runs
<1>10. ASSUME NEW w \in Workers, AdvanceToCrawling(w)  PROVE ExecutionOK'
  BY <1>10 DEF AdvanceToCrawling, Typed, TypeOK, StepOK, ExecutionOK, EndJob, Goto, Runs
<1>11. ASSUME NEW w \in Workers, MarkRunning(w)  PROVE ExecutionOK'
  <2> DEFINE c == [copy[w] EXCEPT !.status = "running"]
  <2>1. c \in Runs /\ run \in Runs
    BY DEF Typed, TypeOK, Runs, RunStatuses
  <2>2. ReturnedRun(c).status = "running"
    BY <2>1, StoredRunFacts DEF ReturnedRun, Runs
  <2>3. copy' = [copy EXCEPT ![w] = ReturnedRun(c)] /\ UNCHANGED job
    BY <1>11 DEF MarkRunning
  <2>4. \A v \in Workers \ {w} : copy'[v] = copy[v] /\ pc'[v] = pc[v]
    BY <1>11 DEF MarkRunning, Goto, Typed, TypeOK
  <2>5. copy'[w].status = "running"
    BY <2>2, <2>3 DEF Typed, TypeOK
  <2> QED
    BY <2>3, <2>4, <2>5 DEF ExecutionOK
<1>12. ASSUME NEW w \in Workers, SaveTarget(w)  PROVE ExecutionOK'
  BY <1>12 DEF SaveTarget, Typed, TypeOK, StepOK, ExecutionOK, EndJob, Goto, Runs
<1>13. ASSUME NEW w \in Workers, SelectionDone(w)  PROVE ExecutionOK'
  BY <1>13 DEF SelectionDone, Typed, TypeOK, StepOK, ExecutionOK, EndJob, Goto, Runs
<1>14. ASSUME NEW w \in Workers, CheckCancellation(w)  PROVE ExecutionOK'
  BY <1>14 DEF CheckCancellation, Typed, TypeOK, StepOK, ExecutionOK, EndJob, Goto, Runs
<1>15. ASSUME NEW w \in Workers, SkipTarget(w)  PROVE ExecutionOK'
  BY <1>15 DEF SkipTarget, Typed, TypeOK, StepOK, ExecutionOK, EndJob, Goto, Runs
<1>16. ASSUME NEW w \in Workers, LoadRetry(w)  PROVE ExecutionOK'
  BY <1>16 DEF LoadRetry, Typed, TypeOK, StepOK, ExecutionOK, EndJob, Goto, Runs
<1>17. ASSUME NEW w \in Workers, ListRetryable(w)  PROVE ExecutionOK'
  BY <1>17 DEF ListRetryable, Typed, TypeOK, StepOK, ExecutionOK, EndJob, Goto, Runs
<1>18. ASSUME NEW w \in Workers, NextRetry(w)  PROVE ExecutionOK'
  BY <1>18 DEF NextRetry, Typed, TypeOK, StepOK, ExecutionOK, EndJob, Goto, Runs
<1>19. ASSUME NEW w \in Workers, BlockTarget(w)  PROVE ExecutionOK'
  BY <1>19 DEF BlockTarget, Typed, TypeOK, StepOK, ExecutionOK, EndJob, Goto, Runs
<1>20. ASSUME NEW w \in Workers, FetchTarget(w)  PROVE ExecutionOK'
  BY <1>20 DEF FetchTarget, Typed, TypeOK, StepOK, ExecutionOK, EndJob, Goto, Runs
<1>21. ASSUME NEW w \in Workers, SavePage(w)  PROVE ExecutionOK'
  BY <1>21 DEF SavePage, Typed, TypeOK, StepOK, ExecutionOK, EndJob, Goto, Runs
<1>22. ASSUME NEW w \in Workers, SaveTargetUpdate(w)  PROVE ExecutionOK'
  BY <1>22 DEF SaveTargetUpdate, Typed, TypeOK, StepOK, ExecutionOK, EndJob, Goto, Runs
<1>23. ASSUME NEW w \in Workers, FinishRun(w)  PROVE ExecutionOK'
  BY <1>23 DEF FinishRun, Typed, TypeOK, StepOK, ExecutionOK, EndJob, Goto, Runs
<1>24. ASSUME NEW w \in Workers, FinishCompany(w)  PROVE ExecutionOK'
  BY <1>24 DEF FinishCompany, Typed, TypeOK, StepOK, ExecutionOK, EndJob, Goto, Runs
<1>25. ASSUME NEW w \in Workers, Crash(w)  PROVE ExecutionOK'
  BY <1>25 DEF Crash, Typed, TypeOK, StepOK, ExecutionOK, EndJob, Goto, Runs
<1>26. CASE UNCHANGED vars
  BY <1>26 DEF vars, ExecutionOK, storeVars, workerVars, requestVars
<1> QED
  BY <1>1, <1>2, <1>3, <1>4, <1>5, <1>6, <1>7, <1>8, <1>9, <1>10, <1>11, <1>12, <1>13, <1>14, <1>15, <1>16, <1>17, <1>18, <1>19, <1>20, <1>21, <1>22, <1>23, <1>24, <1>25, <1>26 DEF Next, WorkerStep, RetryContinues

LEMMA CancelInvariant == Spec => []CancelInv
<1>1. Init => CancelInv
  BY InitTyped, InitCancel DEF CancelInv
<1>2. CancelInv /\ [Next]_vars => CancelInv'
  BY TypedStep, VersionStep, ExecutionStep DEF CancelInv
<1> QED
  BY <1>1, <1>2, PTL DEF Spec

-----------------------------------------------------------------------------
(* The cancellation stands.                                                *)

\* Who takes a run out of "cancelled" had read it as cancelled.
KnowsOfCancel ==
  \/ \E r \in RetryRequests :
       /\ retryPc[r] = "loaded" /\ retryPc'[r] = "marked"
       /\ retryCopy[r].status = "cancelled"
  \/ \E w \in Workers :
       /\ job[w] = "retry" /\ pc[w] = "finish" /\ pc'[w] = "idle"
       /\ copy[w].status = "cancelled"

LEMMA RevivalIsKnown ==
  ASSUME CancelInv, [Next]_vars, run.status = "cancelled", run'.status # "cancelled"
  PROVE  KnowsOfCancel
<1>1. ASSUME NEW r \in RetryRequests, RetryMark(r)  PROVE KnowsOfCancel
  <2>1. Fresh([retryCopy[r] EXCEPT !.status = "queued"])
    BY <1>1 DEF RetryMark, StoredRun
  <2>2. retryCopy[r].version = run.version
    BY <2>1 DEF Fresh, CancelInv, Typed, TypeOK, Runs
  <2>3. retryCopy[r].status = "cancelled"
    BY <2>2 DEF CancelInv, VersionOK, CopyOK
  <2> QED
    BY <1>1, <2>3 DEF RetryMark, KnowsOfCancel, CancelInv, Typed, TypeOK
<1>2. ASSUME NEW q \in CancelRequests, CancelMark(q)  PROVE FALSE
  BY <1>2 DEF CancelMark, CancelInv, Typed, TypeOK, Runs
<1>3. ASSUME NEW w \in Workers, MarkRunning(w)  PROVE FALSE
  <2>1. copy[w].status # "cancelled"
    BY <1>3 DEF MarkRunning, CancelInv, Typed, StepOK, ExecutionOK
  <2>2. copy[w].version # run.version
    BY <2>1 DEF CancelInv, VersionOK, CopyOK
  <2>3. ~Fresh([copy[w] EXCEPT !.status = "running"])
    BY <2>2 DEF Fresh, CancelInv, Typed, TypeOK, Runs
  <2> QED
    BY <1>3, <2>3 DEF MarkRunning, StoredRun
<1>4. ASSUME NEW w \in Workers, FinishRun(w)  PROVE KnowsOfCancel
  <2> DEFINE c == [copy[w] EXCEPT !.status =
                 FinalStatus(copy[w].summary, work[w].homepageFailed, work[w].wasCancelled)]
  <2>1. Fresh(c)
    BY <1>4 DEF FinishRun, StoredRun
  <2>2. c.version = copy[w].version
    BY DEF CancelInv, Typed, TypeOK, Runs
  <2>3. copy[w].status = "cancelled"
    BY <2>1, <2>2 DEF Fresh, CancelInv, VersionOK, CopyOK
  <2>4. job[w] = "retry"
    BY <1>4, <2>3 DEF FinishRun, CancelInv, ExecutionOK
  <2> QED
    BY <1>4, <2>3, <2>4 DEF FinishRun, EndJob, KnowsOfCancel, CancelInv, Typed, TypeOK
<1>5. \/ \E r \in RetryRequests : RetryMark(r)
      \/ \E q \in CancelRequests : CancelMark(q)
      \/ \E w \in Workers : MarkRunning(w) \/ FinishRun(w)
  <2>1. run' # run
    OBVIOUS
  <2> QED
    BY <2>1 DEF Next, WorkerStep, RetryContinues, vars, storeVars,
      EnqueueExecution, EnqueueExecutionFails, RetryLoad, RetryEnqueue, CancelJobs,
      Dequeue, LoadExecution, AdvanceToCrawling, SaveTarget, SelectionDone,
      CheckCancellation, SkipTarget, LoadRetry, ListRetryable, NextRetry, BlockTarget,
      FetchTarget, SavePage, SaveTargetUpdate, FinishCompany, Crash
<1> QED
  BY <1>1, <1>2, <1>3, <1>4, <1>5

\* A run leaves "cancelled" only by a retry that had read it as cancelled: a
\* stale update_run, by an execution above all, is rejected by its version.
THEOREM CancelSurvives == Spec => CancelSurvivesExecution
<1>1. CancelInv /\ [Next]_vars =>
        [run.status = "cancelled" /\ run'.status # "cancelled" => KnowsOfCancel]_vars
  BY RevivalIsKnown
<1> QED
  BY <1>1, CancelInvariant, PTL DEF CancelSurvivesExecution, KnowsOfCancel, Spec

-----------------------------------------------------------------------------
(* The document is an OptimisticRecord.                                    *)

\* The version each process has in hand, as Document maps it.
View == [p \in Workers \cup RetryRequests |->
           IF p \in Workers THEN copy[p].version ELSE retryCopy[p].version]

DocumentStep == [Document!Next]_(Document!vars)

\* A step that concerns no document.
LEMMA QuietDocument ==
  ASSUME UNCHANGED <<run, retryCopy>>,
         \A w \in Workers : copy'[w].version = copy[w].version
  PROVE  DocumentStep
<1>1. View' = View
  BY DEF View
<1> QED
  BY <1>1 DEF DocumentStep, Document!vars, View

\* What one process does to its own copy, seen in View.
LEMMA WorkerView ==
  ASSUME Typed, NEW w \in Workers, NEW c, UNCHANGED retryCopy,
         copy' = [copy EXCEPT ![w] = c]
  PROVE  View' = [View EXCEPT ![w] = c.version]
BY CrawlRunAssumption DEF View, Typed, TypeOK

\* A job takes a copy of the run.
LEMMA WorkerReads ==
  ASSUME Typed, NEW w \in Workers, UNCHANGED <<run, retryCopy>>,
         copy' = [copy EXCEPT ![w] = run]
  PROVE  DocumentStep
<1>1. View' = [View EXCEPT ![w] = run.version]
  BY WorkerView
<1> QED
  BY <1>1 DEF DocumentStep, Document!Next, Document!Read, View

\* A job ends.
LEMMA WorkerForgets ==
  ASSUME Typed, NEW w \in Workers, UNCHANGED <<run, retryCopy>>, EndJob(w)
  PROVE  DocumentStep
<1>1. View' = [View EXCEPT ![w] = NoRun.version]
  BY WorkerView DEF EndJob
<1>2. View' = [View EXCEPT ![w] = 0]
  BY <1>1 DEF NoRun
<1> QED
  BY <1>2 DEF DocumentStep, Document!Next, Document!Forget, View

\* A job writes the run and keeps what update_run returned, or ends.
LEMMA WorkerWrites ==
  ASSUME Typed, NEW w \in Workers, NEW c \in Runs, c.version = copy[w].version,
         run' = StoredRun(c), UNCHANGED retryCopy,
         \/ copy' = [copy EXCEPT ![w] = ReturnedRun(c)]
         \/ copy' = [copy EXCEPT ![w] = NoRun]
  PROVE  DocumentStep
<1>1. run \in Runs /\ View[w] = copy[w].version
  BY DEF View, Typed, TypeOK
<1>2. CASE Fresh(c)
  <2>1. run'.version = run.version + 1 /\ ReturnedRun(c).version = run.version + 1
    BY <1>1, <1>2, StoredRunFacts
  <2>2. run'.status \in RunStatuses
    BY <1>1, <1>2, StoredRunFacts DEF Runs
  <2>3. View' = [View EXCEPT ![w] = run'.version] \/ View' = [View EXCEPT ![w] = 0]
    <3>1. CASE copy' = [copy EXCEPT ![w] = ReturnedRun(c)]
      <4>1. View' = [View EXCEPT ![w] = ReturnedRun(c).version]
        BY <3>1, WorkerView
      <4>2. ReturnedRun(c).version = run'.version
        BY <2>1
      <4> QED
        BY <4>1, <4>2
    <3>2. CASE copy' = [copy EXCEPT ![w] = NoRun]
      <4>1. NoRun.version = 0
        BY DEF NoRun
      <4> QED
        BY <3>2, <4>1, WorkerView
    <3> QED
      BY <3>1, <3>2
  <2>4. View[w] = run.version
    BY <1>1, <1>2 DEF Fresh
  <2>5. Document!Write(w)
    BY <2>1, <2>2, <2>3, <2>4 DEF Document!Write, View
  <2> QED
    BY <2>5 DEF DocumentStep, Document!Next
<1>3. CASE ~Fresh(c)
  <2>1. run' = run /\ ReturnedRun(c) = c
    BY <1>1, <1>3, StoredRunFacts
  <2>2. CASE copy' = [copy EXCEPT ![w] = ReturnedRun(c)]
    <3>1. \A v \in Workers : copy'[v].version = copy[v].version
      BY <2>1, <2>2 DEF Typed, TypeOK
    <3> QED
      BY <2>1, <3>1, QuietDocument
  <2>3. CASE copy' = [copy EXCEPT ![w] = NoRun]
    <3>1. View' = [View EXCEPT ![w] = NoRun.version]
      BY <2>3, WorkerView
    <3>2. View' = [View EXCEPT ![w] = 0]
      BY <3>1 DEF NoRun
    <3> QED
      BY <2>1, <3>2 DEF DocumentStep, Document!Next, Document!Forget, View
  <2> QED
    BY <2>2, <2>3
<1> QED
  BY <1>2, <1>3

\* Every step of the model is a step on the document, or none.
LEMMA StepOnDocument == Typed /\ [Next]_vars => DocumentStep
<1> SUFFICES ASSUME Typed, [Next]_vars  PROVE DocumentStep
  OBVIOUS
<1>1. CASE EnqueueExecution
  BY <1>1, QuietDocument DEF EnqueueExecution, Typed, TypeOK, Runs, storeVars, workerVars, requestVars
<1>2. CASE EnqueueExecutionFails
  BY <1>2, QuietDocument DEF EnqueueExecutionFails, Typed, TypeOK, Runs, storeVars, workerVars, requestVars
<1>3. ASSUME NEW r \in RetryRequests, RetryLoad(r)  PROVE DocumentStep
  <2>1. UNCHANGED <<run, copy>> /\ retryCopy' = [retryCopy EXCEPT ![r] = run]
    BY <1>3 DEF RetryLoad, storeVars, workerVars
  <2>2. View' = [View EXCEPT ![r] = run.version]
    BY <2>1, CrawlRunAssumption DEF View, Typed, TypeOK
  <2> QED
    BY <2>1, <2>2 DEF DocumentStep, Document!Next, Document!Read, View
<1>4. ASSUME NEW r \in RetryRequests, RetryMark(r)  PROVE DocumentStep
  <2> DEFINE c == [retryCopy[r] EXCEPT !.status = "queued"]
  <2>1. c \in Runs /\ run \in Runs /\ c.version = retryCopy[r].version
    BY DEF Typed, TypeOK, Runs, RunStatuses
  <2>2. run' = StoredRun(c) /\ UNCHANGED <<copy, retryCopy>>
    BY <1>4 DEF RetryMark, workerVars
  <2>3. CASE Fresh(c)
    <3>1. run'.version = run.version + 1 /\ run'.status \in RunStatuses
      BY <2>1, <2>2, <2>3, StoredRunFacts DEF Runs
    <3>2. View' = View
      BY <2>2 DEF View
    <3>3. View[r] = run.version
      BY <2>1, <2>3, CrawlRunAssumption DEF Fresh, View
    <3>4. Document!Write(r)
      BY <3>1, <3>2, <3>3 DEF Document!Write, View
    <3> QED
      BY <3>4 DEF DocumentStep, Document!Next
  <2>4. CASE ~Fresh(c)
    BY <2>1, <2>2, <2>4, StoredRunFacts, QuietDocument
  <2> QED
    BY <2>3, <2>4
<1>5. ASSUME NEW r \in RetryRequests, RetryEnqueue(r)  PROVE DocumentStep
  BY <1>5, QuietDocument DEF RetryEnqueue, Typed, TypeOK, Runs, storeVars, workerVars, requestVars
<1>6. ASSUME NEW q \in CancelRequests, CancelMark(q)  PROVE DocumentStep
  <2>1. run'.version = run.version + 1 /\ run'.status = "cancelled"
    BY <1>6 DEF CancelMark, Typed, TypeOK, Runs
  <2>2. View' = View
    BY <1>6 DEF CancelMark, workerVars, View
  <2>3. Document!Cancel
    BY <2>1, <2>2 DEF Document!Cancel, View
  <2> QED
    BY <2>3 DEF DocumentStep, Document!Next
<1>7. ASSUME NEW q \in CancelRequests, CancelJobs(q)  PROVE DocumentStep
  BY <1>7, QuietDocument DEF CancelJobs, Typed, TypeOK, Runs, storeVars, workerVars, requestVars
<1>8. ASSUME NEW w \in Workers, Dequeue(w)  PROVE DocumentStep
  BY <1>8, QuietDocument DEF Dequeue, Typed, TypeOK, Runs, storeVars, workerVars, requestVars
<1>9. ASSUME NEW w \in Workers, LoadExecution(w)  PROVE DocumentStep
  <2>1. UNCHANGED <<run, retryCopy>>
    BY <1>9 DEF LoadExecution, storeVars, requestVars
  <2>2. EndJob(w) \/ copy' = [copy EXCEPT ![w] = run]
    BY <1>9 DEF LoadExecution
  <2> QED
    BY <2>1, <2>2, WorkerReads, WorkerForgets
<1>10. ASSUME NEW w \in Workers, AdvanceToCrawling(w)  PROVE DocumentStep
  BY <1>10, QuietDocument DEF AdvanceToCrawling, Typed, TypeOK, Runs, storeVars, workerVars, requestVars
<1>11. ASSUME NEW w \in Workers, MarkRunning(w)  PROVE DocumentStep
  <2> DEFINE c == [copy[w] EXCEPT !.status = "running"]
  <2>1. c \in Runs /\ c.version = copy[w].version
    BY DEF Typed, TypeOK, Runs, RunStatuses
  <2>2. run' = StoredRun(c) /\ copy' = [copy EXCEPT ![w] = ReturnedRun(c)] /\ UNCHANGED retryCopy
    BY <1>11 DEF MarkRunning, requestVars
  <2> QED
    BY <2>1, <2>2, WorkerWrites
<1>12. ASSUME NEW w \in Workers, SaveTarget(w)  PROVE DocumentStep
  BY <1>12, QuietDocument DEF SaveTarget, Typed, TypeOK, Runs, storeVars, workerVars, requestVars
<1>13. ASSUME NEW w \in Workers, SelectionDone(w)  PROVE DocumentStep
  BY <1>13, QuietDocument DEF SelectionDone, Typed, TypeOK, Runs, storeVars, workerVars, requestVars
<1>14. ASSUME NEW w \in Workers, CheckCancellation(w)  PROVE DocumentStep
  BY <1>14, QuietDocument DEF CheckCancellation, Typed, TypeOK, Runs, storeVars, workerVars, requestVars
<1>15. ASSUME NEW w \in Workers, SkipTarget(w)  PROVE DocumentStep
  BY <1>15, QuietDocument DEF SkipTarget, Typed, TypeOK, Runs, storeVars, workerVars, requestVars
<1>16. ASSUME NEW w \in Workers, LoadRetry(w)  PROVE DocumentStep
  BY <1>16, WorkerReads DEF LoadRetry, storeVars, requestVars
<1>17. ASSUME NEW w \in Workers, ListRetryable(w)  PROVE DocumentStep
  BY <1>17, QuietDocument DEF ListRetryable, Typed, TypeOK, Runs, storeVars, workerVars, requestVars
<1>18. ASSUME NEW w \in Workers, NextRetry(w)  PROVE DocumentStep
  BY <1>18, QuietDocument DEF NextRetry, Typed, TypeOK, Runs, storeVars, workerVars, requestVars
<1>19. ASSUME NEW w \in Workers, BlockTarget(w)  PROVE DocumentStep
  BY <1>19, QuietDocument DEF BlockTarget, Typed, TypeOK, Runs, storeVars, workerVars, requestVars
<1>20. ASSUME NEW w \in Workers, FetchTarget(w)  PROVE DocumentStep
  BY <1>20, QuietDocument DEF FetchTarget, Typed, TypeOK, Runs, storeVars, workerVars, requestVars
<1>21. ASSUME NEW w \in Workers, SavePage(w)  PROVE DocumentStep
  BY <1>21, QuietDocument DEF SavePage, Typed, TypeOK, Runs, storeVars, workerVars, requestVars
<1>22. ASSUME NEW w \in Workers, SaveTargetUpdate(w)  PROVE DocumentStep
  BY <1>22, QuietDocument DEF SaveTargetUpdate, Typed, TypeOK, Runs, storeVars, workerVars, requestVars
<1>23. ASSUME NEW w \in Workers, FinishRun(w)  PROVE DocumentStep
  <2> DEFINE c == [copy[w] EXCEPT !.status =
                 FinalStatus(copy[w].summary, work[w].homepageFailed, work[w].wasCancelled)]
  <2>1. c \in Runs /\ c.version = copy[w].version
    <3>1. copy[w].summary \in Summaries /\ copy[w] \in Runs
      BY DEF Typed, TypeOK, Runs
    <3>2. work[w].homepageFailed \in BOOLEAN /\ work[w].wasCancelled \in BOOLEAN
      BY DEF Typed, TypeOK, Works
    <3> QED
      BY <3>1, <3>2, FinalStatusType DEF Runs
  <2>2. run' = StoredRun(c) /\ UNCHANGED retryCopy
    BY <1>23 DEF FinishRun, requestVars
  <2>3. \/ copy' = [copy EXCEPT ![w] = ReturnedRun(c)]
        \/ copy' = [copy EXCEPT ![w] = NoRun]
    BY <1>23 DEF FinishRun, EndJob
  <2> QED
    BY <2>1, <2>2, <2>3, WorkerWrites
<1>24. ASSUME NEW w \in Workers, FinishCompany(w)  PROVE DocumentStep
  BY <1>24, WorkerForgets DEF FinishCompany, storeVars, requestVars
<1>25. ASSUME NEW w \in Workers, Crash(w)  PROVE DocumentStep
  BY <1>25, WorkerForgets DEF Crash, storeVars, requestVars
<1>26. CASE UNCHANGED vars
  BY <1>26, QuietDocument DEF vars, storeVars, workerVars, requestVars
<1> QED
  BY <1>1, <1>2, <1>3, <1>4, <1>5, <1>6, <1>7, <1>8, <1>9, <1>10, <1>11, <1>12, <1>13, <1>14, <1>15, <1>16, <1>17, <1>18, <1>19, <1>20, <1>21, <1>22, <1>23, <1>24, <1>25, <1>26 DEF Next, WorkerStep, RetryContinues

\* The run document, written by workers and retry requests with update_run
\* and by cancellations without a filter, implements OptimisticRecord.
THEOREM RefinesOptimisticRecord == Spec => RunIsOptimisticRecord
<1>1. Init => Document!Init
  <2> SUFFICES ASSUME Init  PROVE Document!Init
    OBVIOUS
  <2>1. View = [p \in Workers \cup RetryRequests |-> 0]
    BY DEF View, Init, NoRun
  <2>2. run.status \in RunStatuses /\ run.version = 1
    BY DEF Init, RunStatuses
  <2> QED
    BY <2>1, <2>2 DEF Document!Init, View
<1>2. Typed /\ [Next]_vars => [Document!Next]_(Document!vars)
  BY StepOnDocument DEF DocumentStep
<1>3. CancelInv => Typed
  BY DEF CancelInv
<1> QED
  BY <1>1, <1>2, <1>3, CancelInvariant, PTL DEF RunIsOptimisticRecord, Document!Spec, Spec

-----------------------------------------------------------------------------
(***************************************************************************)
(* One execution per run, and what it and the retries may do to targets,   *)
(* pages and the company.                                                  *)
(***************************************************************************)
-----------------------------------------------------------------------------
(* A run is executed once.                                                 *)

\* The execution is still to be enqueued, waits, or is with one worker.
OneExecution ==
  /\ creator = "push" => ~jobs.execute
  /\ creator = "push" \/ jobs.execute => \A w \in Workers : job[w] # "execute"
  /\ \A v, w \in Workers : job[v] = "execute" /\ job[w] = "execute" => v = w

\* No step starts a second execution: the job is enqueued once and RQ
\* delivers it once.
LEMMA OneExecutionStep == Typed /\ OneExecution /\ [Next]_vars => OneExecution'
<1> SUFFICES ASSUME Typed, OneExecution, [Next]_vars  PROVE OneExecution'
  OBVIOUS
<1>1. CASE EnqueueExecution
  BY <1>1 DEF EnqueueExecution, Typed, TypeOK, OneExecution, storeVars, workerVars, requestVars
<1>2. CASE EnqueueExecutionFails
  BY <1>2 DEF EnqueueExecutionFails, Typed, TypeOK, OneExecution, storeVars, workerVars, requestVars
<1>3. ASSUME NEW r \in RetryRequests, RetryLoad(r)  PROVE OneExecution'
  BY <1>3 DEF RetryLoad, Typed, TypeOK, OneExecution, storeVars, workerVars, requestVars
<1>4. ASSUME NEW r \in RetryRequests, RetryMark(r)  PROVE OneExecution'
  BY <1>4 DEF RetryMark, Typed, TypeOK, OneExecution, storeVars, workerVars, requestVars
<1>5. ASSUME NEW r \in RetryRequests, RetryEnqueue(r)  PROVE OneExecution'
  BY <1>5 DEF RetryEnqueue, Typed, TypeOK, OneExecution, storeVars, workerVars, requestVars
<1>6. ASSUME NEW q \in CancelRequests, CancelMark(q)  PROVE OneExecution'
  BY <1>6 DEF CancelMark, Typed, TypeOK, OneExecution, storeVars, workerVars, requestVars
<1>7. ASSUME NEW q \in CancelRequests, CancelJobs(q)  PROVE OneExecution'
  BY <1>7 DEF CancelJobs, Typed, TypeOK, OneExecution, storeVars, workerVars, requestVars
<1>8. ASSUME NEW w \in Workers, Dequeue(w)  PROVE OneExecution'
  BY <1>8 DEF Dequeue, Typed, TypeOK, OneExecution, EndJob, storeVars, workerVars, requestVars
<1>9. ASSUME NEW w \in Workers, LoadExecution(w)  PROVE OneExecution'
  BY <1>9 DEF LoadExecution, Typed, TypeOK, OneExecution, EndJob, storeVars, workerVars, requestVars
<1>10. ASSUME NEW w \in Workers, AdvanceToCrawling(w)  PROVE OneExecution'
  BY <1>10 DEF AdvanceToCrawling, Typed, TypeOK, OneExecution, EndJob, storeVars, workerVars, requestVars
<1>11. ASSUME NEW w \in Workers, MarkRunning(w)  PROVE OneExecution'
  BY <1>11 DEF MarkRunning, Typed, TypeOK, OneExecution, EndJob, storeVars, workerVars, requestVars
<1>12. ASSUME NEW w \in Workers, SaveTarget(w)  PROVE OneExecution'
  BY <1>12 DEF SaveTarget, Typed, TypeOK, OneExecution, EndJob, storeVars, workerVars, requestVars
<1>13. ASSUME NEW w \in Workers, SelectionDone(w)  PROVE OneExecution'
  BY <1>13 DEF SelectionDone, Typed, TypeOK, OneExecution, EndJob, storeVars, workerVars, requestVars
<1>14. ASSUME NEW w \in Workers, CheckCancellation(w)  PROVE OneExecution'
  BY <1>14 DEF CheckCancellation, Typed, TypeOK, OneExecution, EndJob, storeVars, workerVars, requestVars
<1>15. ASSUME NEW w \in Workers, SkipTarget(w)  PROVE OneExecution'
  BY <1>15 DEF SkipTarget, Typed, TypeOK, OneExecution, EndJob, storeVars, workerVars, requestVars
<1>16. ASSUME NEW w \in Workers, LoadRetry(w)  PROVE OneExecution'
  BY <1>16 DEF LoadRetry, Typed, TypeOK, OneExecution, EndJob, storeVars, workerVars, requestVars
<1>17. ASSUME NEW w \in Workers, ListRetryable(w)  PROVE OneExecution'
  BY <1>17 DEF ListRetryable, Typed, TypeOK, OneExecution, EndJob, storeVars, workerVars, requestVars
<1>18. ASSUME NEW w \in Workers, NextRetry(w)  PROVE OneExecution'
  BY <1>18 DEF NextRetry, Typed, TypeOK, OneExecution, EndJob, storeVars, workerVars, requestVars
<1>19. ASSUME NEW w \in Workers, BlockTarget(w)  PROVE OneExecution'
  BY <1>19 DEF BlockTarget, Typed, TypeOK, OneExecution, EndJob, storeVars, workerVars, requestVars
<1>20. ASSUME NEW w \in Workers, FetchTarget(w)  PROVE OneExecution'
  BY <1>20 DEF FetchTarget, Typed, TypeOK, OneExecution, EndJob, storeVars, workerVars, requestVars
<1>21. ASSUME NEW w \in Workers, SavePage(w)  PROVE OneExecution'
  BY <1>21 DEF SavePage, Typed, TypeOK, OneExecution, EndJob, storeVars, workerVars, requestVars
<1>22. ASSUME NEW w \in Workers, SaveTargetUpdate(w)  PROVE OneExecution'
  BY <1>22 DEF SaveTargetUpdate, Typed, TypeOK, OneExecution, EndJob, storeVars, workerVars, requestVars
<1>23. ASSUME NEW w \in Workers, FinishRun(w)  PROVE OneExecution'
  BY <1>23 DEF FinishRun, Typed, TypeOK, OneExecution, EndJob, storeVars, workerVars, requestVars
<1>24. ASSUME NEW w \in Workers, FinishCompany(w)  PROVE OneExecution'
  BY <1>24 DEF FinishCompany, Typed, TypeOK, OneExecution, EndJob, storeVars, workerVars, requestVars
<1>25. ASSUME NEW w \in Workers, Crash(w)  PROVE OneExecution'
  BY <1>25 DEF Crash, Typed, TypeOK, OneExecution, EndJob, storeVars, workerVars, requestVars
<1>26. CASE UNCHANGED vars
  BY <1>26 DEF vars, OneExecution, storeVars, workerVars, requestVars
<1> QED
  BY <1>1, <1>2, <1>3, <1>4, <1>5, <1>6, <1>7, <1>8, <1>9, <1>10, <1>11, <1>12, <1>13, <1>14, <1>15, <1>16, <1>17, <1>18, <1>19, <1>20, <1>21, <1>22, <1>23, <1>24, <1>25, <1>26 DEF Next, WorkerStep, RetryContinues

-----------------------------------------------------------------------------
(* Cooperative cancellation.                                               *)

\* Once the execution has begun a request on a cancelled run it is not about
\* to begin another.
OverrunOK ==
  /\ overrun["execute"] <= 1
  /\ overrun["execute"] # 0 =>
       /\ run.status = "cancelled"
       /\ \A w \in Workers : job[w] = "execute" => pc[w] # "process"

\* A worker that is not moved to "process", while the observer and the
\* cancellation stay as they are.
LEMMA QuietOverrun ==
  ASSUME OverrunOK, overrun' = overrun, run' = run,
         \A w \in Workers : job'[w] = "execute" /\ pc'[w] = "process" =>
                              job[w] = "execute" /\ pc[w] = "process"
  PROVE  OverrunOK'
BY DEF OverrunOK

\* The observer starts anew when the run becomes or stops being cancelled.
LEMMA WatchedOverrun ==
  ASSUME OverrunOK, WatchRun,
         \A w \in Workers : job'[w] = "execute" /\ pc'[w] = "process" =>
                              job[w] = "execute" /\ pc[w] = "process"
  PROVE  OverrunOK'
BY DEF OverrunOK, WatchRun, NoOverrun, JobKinds

LEMMA OverrunStep ==
  Typed /\ OneExecution /\ OverrunOK /\ [Next]_vars => OverrunOK'
<1> SUFFICES ASSUME Typed, OneExecution, OverrunOK, [Next]_vars  PROVE OverrunOK'
  OBVIOUS
<1>1. CASE EnqueueExecution
  BY <1>1, QuietOverrun DEF EnqueueExecution, storeVars, workerVars, requestVars
<1>2. CASE EnqueueExecutionFails
  BY <1>2, QuietOverrun DEF EnqueueExecutionFails, storeVars, workerVars, requestVars
<1>3. ASSUME NEW r \in RetryRequests, RetryLoad(r)  PROVE OverrunOK'
  BY <1>3, QuietOverrun DEF RetryLoad, storeVars, workerVars, requestVars
<1>4. ASSUME NEW r \in RetryRequests, RetryMark(r)  PROVE OverrunOK'
  BY <1>4, WatchedOverrun DEF RetryMark, workerVars
<1>5. ASSUME NEW r \in RetryRequests, RetryEnqueue(r)  PROVE OverrunOK'
  BY <1>5, QuietOverrun DEF RetryEnqueue, storeVars, workerVars, requestVars
<1>6. ASSUME NEW q \in CancelRequests, CancelMark(q)  PROVE OverrunOK'
  BY <1>6, WatchedOverrun DEF CancelMark, workerVars
<1>7. ASSUME NEW q \in CancelRequests, CancelJobs(q)  PROVE OverrunOK'
  BY <1>7, QuietOverrun DEF CancelJobs, storeVars, workerVars, requestVars
<1>8. ASSUME NEW w \in Workers, Dequeue(w)  PROVE OverrunOK'
  BY <1>8, QuietOverrun DEF Dequeue, Typed, TypeOK, Goto, EndJob, storeVars, workerVars, requestVars
<1>9. ASSUME NEW w \in Workers, LoadExecution(w)  PROVE OverrunOK'
  BY <1>9, QuietOverrun DEF LoadExecution, Typed, TypeOK, Goto, EndJob, storeVars, workerVars, requestVars
<1>10. ASSUME NEW w \in Workers, AdvanceToCrawling(w)  PROVE OverrunOK'
  BY <1>10, QuietOverrun DEF AdvanceToCrawling, Typed, TypeOK, Goto, EndJob, storeVars, workerVars, requestVars
<1>11. ASSUME NEW w \in Workers, MarkRunning(w)  PROVE OverrunOK'
  BY <1>11, WatchedOverrun DEF MarkRunning, Typed, TypeOK, Goto
<1>12. ASSUME NEW w \in Workers, SaveTarget(w)  PROVE OverrunOK'
  BY <1>12, QuietOverrun DEF SaveTarget, Typed, TypeOK, Goto, EndJob, storeVars, workerVars, requestVars
<1>13. ASSUME NEW w \in Workers, SelectionDone(w)  PROVE OverrunOK'
  BY <1>13, QuietOverrun DEF SelectionDone, Typed, TypeOK, Goto, EndJob, storeVars, workerVars, requestVars
<1>14. ASSUME NEW w \in Workers, CheckCancellation(w)  PROVE OverrunOK'
  <2>1. CASE run.status = "cancelled"
    BY <1>14, <2>1, QuietOverrun DEF CheckCancellation, SeenCancelled, Typed, TypeOK, Goto, storeVars
  <2>2. CASE run.status # "cancelled"
    <3>1. overrun["execute"] = 0 /\ overrun' = overrun
      BY <1>14, <2>2 DEF CheckCancellation, OverrunOK
    <3> QED
      BY <3>1 DEF OverrunOK
  <2> QED
    BY <2>1, <2>2
<1>15. ASSUME NEW w \in Workers, SkipTarget(w)  PROVE OverrunOK'
  BY <1>15, QuietOverrun DEF SkipTarget, Typed, TypeOK, Goto, EndJob, storeVars, workerVars, requestVars
<1>16. ASSUME NEW w \in Workers, LoadRetry(w)  PROVE OverrunOK'
  BY <1>16, QuietOverrun DEF LoadRetry, Typed, TypeOK, Goto, EndJob, storeVars, workerVars, requestVars
<1>17. ASSUME NEW w \in Workers, ListRetryable(w)  PROVE OverrunOK'
  BY <1>17, QuietOverrun DEF ListRetryable, Typed, TypeOK, Goto, EndJob, storeVars, workerVars, requestVars
<1>18. ASSUME NEW w \in Workers, NextRetry(w)  PROVE OverrunOK'
  BY <1>18, QuietOverrun DEF NextRetry, Typed, TypeOK, Goto, EndJob, storeVars, workerVars, requestVars
<1>19. ASSUME NEW w \in Workers, BlockTarget(w)  PROVE OverrunOK'
  BY <1>19, QuietOverrun DEF BlockTarget, Typed, TypeOK, Goto, EndJob, storeVars, workerVars, requestVars
<1>20. ASSUME NEW w \in Workers, FetchTarget(w)  PROVE OverrunOK'
  <2>1. CASE overrun' = overrun
    BY <1>20, <2>1, QuietOverrun DEF FetchTarget, Typed, TypeOK, Goto, storeVars
  <2>2. CASE run.status = "cancelled" /\ overrun' = [overrun EXCEPT ![job[w]] = @ + 1]
    <3>1. CASE job[w] = "execute"
      <4>1. overrun["execute"] = 0
        BY <1>20, <3>1 DEF FetchTarget, OverrunOK
      <4>2. overrun'["execute"] = 1
        BY <2>2, <3>1, <4>1 DEF Typed, TypeOK, JobKinds
      <4>3. \A v \in Workers : job'[v] = "execute" => v = w
        BY <1>20, <3>1 DEF FetchTarget, OneExecution
      <4>4. pc'[w] = "page" /\ run' = run
        BY <1>20 DEF FetchTarget, Typed, TypeOK, Goto, storeVars
      <4> QED
        BY <2>2, <4>2, <4>3, <4>4 DEF OverrunOK
    <3>2. CASE job[w] # "execute"
      <4>1. overrun'["execute"] = overrun["execute"]
        BY <2>2, <3>2 DEF Typed, TypeOK, JobKinds
      <4>2. job' = job /\ run' = run /\ \A v \in Workers \ {w} : pc'[v] = pc[v]
        BY <1>20 DEF FetchTarget, Typed, TypeOK, Goto, storeVars
      <4> QED
        BY <3>2, <4>1, <4>2 DEF OverrunOK
    <3> QED
      BY <3>1, <3>2
  <2> QED
    BY <1>20, <2>1, <2>2 DEF FetchTarget
<1>21. ASSUME NEW w \in Workers, SavePage(w)  PROVE OverrunOK'
  BY <1>21, QuietOverrun DEF SavePage, Typed, TypeOK, Goto, EndJob, storeVars, workerVars, requestVars
<1>22. ASSUME NEW w \in Workers, SaveTargetUpdate(w)  PROVE OverrunOK'
  BY <1>22, QuietOverrun DEF SaveTargetUpdate, Typed, TypeOK, Goto, EndJob, storeVars, workerVars, requestVars
<1>23. ASSUME NEW w \in Workers, FinishRun(w)  PROVE OverrunOK'
  BY <1>23, WatchedOverrun DEF FinishRun, Typed, TypeOK, Goto, EndJob
<1>24. ASSUME NEW w \in Workers, FinishCompany(w)  PROVE OverrunOK'
  BY <1>24, QuietOverrun DEF FinishCompany, Typed, TypeOK, Goto, EndJob, storeVars, workerVars, requestVars
<1>25. ASSUME NEW w \in Workers, Crash(w)  PROVE OverrunOK'
  BY <1>25, QuietOverrun DEF Crash, Typed, TypeOK, Goto, EndJob, storeVars, workerVars, requestVars
<1>26. CASE UNCHANGED vars
  BY <1>26, QuietOverrun DEF vars, storeVars, workerVars, requestVars
<1> QED
  BY <1>1, <1>2, <1>3, <1>4, <1>5, <1>6, <1>7, <1>8, <1>9, <1>10, <1>11, <1>12, <1>13, <1>14, <1>15, <1>16, <1>17, <1>18, <1>19, <1>20, <1>21, <1>22, <1>23, <1>24, <1>25, <1>26 DEF Next, WorkerStep, RetryContinues

-----------------------------------------------------------------------------
(* Pages and targets.                                                      *)

\* A target whose outcome is about to be stored has its page already.
PagesOK ==
  /\ PagePrecedesTarget
  /\ \A w \in Workers :
       pc[w] = "target" /\ work[w].outcome \in PageStatuses =>
         pages[work[w].target] # "absent"

\* A step that touches neither targets nor pages.
LEMMA QuietPages ==
  ASSUME PagesOK, UNCHANGED <<targets, pages>>,
         \A w \in Workers : pc'[w] = "target" =>
           \/ pc[w] = "target" /\ work'[w] = work[w]
           \/ work'[w].outcome \notin PageStatuses
  PROVE  PagesOK'
BY DEF PagesOK, PagePrecedesTarget

\* update_target: the version matches, and the target is written, or nothing.
LEMMA UpdateTargetFacts ==
  ASSUME Typed, NEW t \in Targets, NEW v, NEW s, UpdateTarget(t, v, s)
  PROVE  /\ \A u \in Targets \ {t} : targets'[u] = targets[u]
         /\ \/ targets' = targets
            \/ /\ targets[t].version = v
               /\ targets'[t].status = s
               /\ targets'[t].version = v + 1
<1>1. targets \in [Targets -> TargetDocs]
  BY DEF Typed, TypeOK
<1>2. CASE targets[t].version = v
  <2>1. targets' = [targets EXCEPT ![t] = [status |-> s, version |-> v + 1]]
    BY <1>2 DEF UpdateTarget
  <2>2. targets'[t] = [status |-> s, version |-> v + 1]
    BY <1>1, <2>1
  <2> QED
    BY <1>1, <1>2, <2>1, <2>2
<1>3. CASE targets[t].version # v
  BY <1>3 DEF UpdateTarget
<1> QED
  BY <1>2, <1>3

\* update_target with the outcome in hand, or with "skipped".
LEMMA UpdatePages ==
  ASSUME Typed, PagesOK, UNCHANGED pages, NEW t \in Targets, NEW v, NEW s,
         UpdateTarget(t, v, s), s \in PageStatuses => pages[t] # "absent",
         \A w \in Workers : pc'[w] = "target" => pc[w] = "target" /\ work'[w] = work[w]
  PROVE  PagesOK'
<1>1. \A u \in Targets : targets'[u].status = targets[u].status \/ (u = t /\ targets'[u].status = s)
  <2>1. \A u \in Targets \ {t} : targets'[u] = targets[u]
    BY UpdateTargetFacts
  <2>2. targets' = targets \/ targets'[t].status = s
    BY UpdateTargetFacts
  <2> TAKE u \in Targets
  <2>3. CASE u = t
    BY <2>2, <2>3
  <2>4. CASE u # t
    <3>1. targets'[u] = targets[u]
      BY <2>1, <2>4
    <3> QED
      BY <3>1
  <2> QED
    BY <2>3, <2>4
<1> QED
  BY <1>1 DEF PagesOK, PagePrecedesTarget

LEMMA PagesStep == Typed /\ PagesOK /\ [Next]_vars => PagesOK'
<1> SUFFICES ASSUME Typed, PagesOK, [Next]_vars  PROVE PagesOK'
  OBVIOUS
<1>1. CASE EnqueueExecution
  BY <1>1, QuietPages DEF EnqueueExecution, storeVars, workerVars, requestVars
<1>2. CASE EnqueueExecutionFails
  BY <1>2, QuietPages DEF EnqueueExecutionFails, storeVars, workerVars, requestVars
<1>3. ASSUME NEW r \in RetryRequests, RetryLoad(r)  PROVE PagesOK'
  BY <1>3, QuietPages DEF RetryLoad, storeVars, workerVars, requestVars
<1>4. ASSUME NEW r \in RetryRequests, RetryMark(r)  PROVE PagesOK'
  BY <1>4, QuietPages DEF RetryMark, storeVars, workerVars, requestVars
<1>5. ASSUME NEW r \in RetryRequests, RetryEnqueue(r)  PROVE PagesOK'
  BY <1>5, QuietPages DEF RetryEnqueue, storeVars, workerVars, requestVars
<1>6. ASSUME NEW q \in CancelRequests, CancelMark(q)  PROVE PagesOK'
  BY <1>6, QuietPages DEF CancelMark, storeVars, workerVars, requestVars
<1>7. ASSUME NEW q \in CancelRequests, CancelJobs(q)  PROVE PagesOK'
  BY <1>7, QuietPages DEF CancelJobs, storeVars, workerVars, requestVars
<1>8. ASSUME NEW w \in Workers, Dequeue(w)  PROVE PagesOK'
  BY <1>8, QuietPages DEF Dequeue, Typed, TypeOK, Goto, EndJob, storeVars, workerVars, requestVars
<1>9. ASSUME NEW w \in Workers, LoadExecution(w)  PROVE PagesOK'
  BY <1>9, QuietPages DEF LoadExecution, Typed, TypeOK, Goto, EndJob, storeVars, workerVars, requestVars
<1>10. ASSUME NEW w \in Workers, AdvanceToCrawling(w)  PROVE PagesOK'
  BY <1>10, QuietPages DEF AdvanceToCrawling, Typed, TypeOK, Goto, EndJob, storeVars, workerVars, requestVars
<1>11. ASSUME NEW w \in Workers, MarkRunning(w)  PROVE PagesOK'
  BY <1>11, QuietPages DEF MarkRunning, Typed, TypeOK, Goto, EndJob, storeVars, workerVars, requestVars
<1>12. ASSUME NEW w \in Workers, SaveTarget(w)  PROVE PagesOK'
  <2>1. PICK t \in Targets : targets' = [targets EXCEPT ![t] = [status |-> "queued", version |-> 1]]
    BY <1>12 DEF SaveTarget
  <2>2. \A u \in Targets : targets'[u].status = targets[u].status \/ targets'[u].status = "queued"
    BY <2>1 DEF Typed, TypeOK
  <2>3. "queued" \notin PageStatuses
    BY DEF PageStatuses, FailedStatuses, FetchedStatuses
  <2>4. UNCHANGED <<pages, pc>> /\ pc[w] = "select" /\ \A v \in Workers \ {w} : work'[v] = work[v]
    BY <1>12 DEF SaveTarget, Typed, TypeOK
  <2> QED
    BY <2>2, <2>3, <2>4 DEF PagesOK, PagePrecedesTarget
<1>13. ASSUME NEW w \in Workers, SelectionDone(w)  PROVE PagesOK'
  BY <1>13, QuietPages DEF SelectionDone, Typed, TypeOK, Goto, EndJob, storeVars, workerVars, requestVars
<1>14. ASSUME NEW w \in Workers, CheckCancellation(w)  PROVE PagesOK'
  BY <1>14, QuietPages DEF CheckCancellation, Typed, TypeOK, Goto, EndJob, storeVars, workerVars, requestVars
<1>15. ASSUME NEW w \in Workers, SkipTarget(w)  PROVE PagesOK'
  <2>1. PICK t \in Targets : UpdateTarget(t, work[w].held[t], "skipped")
    BY <1>15 DEF SkipTarget, Typed, TypeOK, Works
  <2>2. "skipped" \notin PageStatuses
    BY DEF PageStatuses, FailedStatuses, FetchedStatuses
  <2>3. \A v \in Workers : pc'[v] = "target" => pc[v] = "target" /\ work'[v] = work[v]
    BY <1>15 DEF SkipTarget, Typed, TypeOK, Goto
  <2> QED
    BY <1>15, <2>1, <2>2, <2>3, UpdatePages DEF SkipTarget
<1>16. ASSUME NEW w \in Workers, LoadRetry(w)  PROVE PagesOK'
  BY <1>16, QuietPages DEF LoadRetry, Typed, TypeOK, Goto, EndJob, storeVars, workerVars, requestVars
<1>17. ASSUME NEW w \in Workers, ListRetryable(w)  PROVE PagesOK'
  BY <1>17, QuietPages DEF ListRetryable, Typed, TypeOK, Goto, EndJob, storeVars, workerVars, requestVars
<1>18. ASSUME NEW w \in Workers, NextRetry(w)  PROVE PagesOK'
  BY <1>18, QuietPages DEF NextRetry, Typed, TypeOK, Goto, EndJob, storeVars, workerVars, requestVars
<1>19. ASSUME NEW w \in Workers, BlockTarget(w)  PROVE PagesOK'
  <2>1. "blocked_by_robots" \notin PageStatuses
    BY DEF PageStatuses, FailedStatuses, FetchedStatuses
  <2>2. work'[w].outcome = "blocked_by_robots" /\ \A v \in Workers \ {w} : work'[v] = work[v] /\ pc'[v] = pc[v]
    BY <1>19 DEF BlockTarget, Typed, TypeOK, Works, Goto
  <2> QED
    BY <1>19, <2>1, <2>2, QuietPages DEF BlockTarget, storeVars
<1>20. ASSUME NEW w \in Workers, FetchTarget(w)  PROVE PagesOK'
  BY <1>20, QuietPages DEF FetchTarget, Typed, TypeOK, Goto, EndJob, storeVars, workerVars, requestVars
<1>21. ASSUME NEW w \in Workers, SavePage(w)  PROVE PagesOK'
  <2>1. work[w].target \in Targets /\ work[w].outcome \in PageStatuses
    BY <1>21 DEF SavePage, Typed, StepOK
  <2>2. "absent" \notin PageStatuses
    BY DEF PageStatuses, FailedStatuses, FetchedStatuses
  <2>3. pages' = [pages EXCEPT ![work[w].target] = work[w].outcome]
    BY <1>21 DEF SavePage, StorePage
  <2>4. pages \in [Targets -> PageStatuses \cup {"absent"}]
    BY DEF Typed, TypeOK
  <2>5. \A u \in Targets : pages[u] # "absent" => pages'[u] # "absent"
    BY <2>1, <2>2, <2>3, <2>4
  <2>6. pages'[work[w].target] # "absent"
    BY <2>1, <2>2, <2>3, <2>4
  <2>7. UNCHANGED <<targets, work>> /\ \A v \in Workers \ {w} : pc'[v] = pc[v]
    BY <1>21 DEF SavePage, Goto, Typed, TypeOK
  <2>8. \A v \in Workers : pc[v] = "target" => work[v].target \in Targets
    BY DEF Typed, StepOK
  <2> QED
    BY <2>5, <2>6, <2>7, <2>8 DEF PagesOK, PagePrecedesTarget
<1>22. ASSUME NEW w \in Workers, SaveTargetUpdate(w)  PROVE PagesOK'
  <2>1. work[w].target \in Targets
    BY <1>22 DEF SaveTargetUpdate, Typed, StepOK
  <2>2. UpdateTarget(work[w].target, work[w].held[work[w].target], work[w].outcome) /\ UNCHANGED pages
    BY <1>22 DEF SaveTargetUpdate
  <2>3. work[w].outcome \in PageStatuses => pages[work[w].target] # "absent"
    BY <1>22 DEF SaveTargetUpdate, PagesOK
  <2>4. \A v \in Workers : pc'[v] = "target" => pc[v] = "target" /\ work'[v] = work[v]
    BY <1>22 DEF SaveTargetUpdate, Typed, TypeOK, Goto
  <2> QED
    BY <2>1, <2>2, <2>3, <2>4, UpdatePages
<1>23. ASSUME NEW w \in Workers, FinishRun(w)  PROVE PagesOK'
  BY <1>23, QuietPages DEF FinishRun, Typed, TypeOK, Goto, EndJob, storeVars, workerVars, requestVars
<1>24. ASSUME NEW w \in Workers, FinishCompany(w)  PROVE PagesOK'
  BY <1>24, QuietPages DEF FinishCompany, Typed, TypeOK, Goto, EndJob, storeVars, workerVars, requestVars
<1>25. ASSUME NEW w \in Workers, Crash(w)  PROVE PagesOK'
  BY <1>25, QuietPages DEF Crash, Typed, TypeOK, Goto, EndJob, storeVars, workerVars, requestVars
<1>26. CASE UNCHANGED vars
  BY <1>26, QuietPages DEF vars, storeVars, workerVars, requestVars
<1> QED
  BY <1>1, <1>2, <1>3, <1>4, <1>5, <1>6, <1>7, <1>8, <1>9, <1>10, <1>11, <1>12, <1>13, <1>14, <1>15, <1>16, <1>17, <1>18, <1>19, <1>20, <1>21, <1>22, <1>23, <1>24, <1>25, <1>26 DEF Next, WorkerStep, RetryContinues

-----------------------------------------------------------------------------
(* Settled targets.                                                        *)

Settled == FetchedStatuses \cup {"unchanged", "skipped"}

\* The targets a worker may still write.
Mine(w) ==
  work[w].todo \cup
    (IF pc[w] \in {"process", "page", "target"} THEN {work[w].target} ELSE {})

\* The worker's copy of t is as old as the stored target or older, and a copy
\* of the stored version is of a target that is stored and open.
HeldOK(w, t) ==
  /\ work[w].held[t] <= targets[t].version
  /\ work[w].held[t] = targets[t].version => targets[t].status \notin Settled
  /\ targets[t].status # "absent"

\* Until the execution has selected a target, the target does not exist.
SelectionOK ==
  /\ creator = "push" \/ jobs.execute =>
       \A t \in Targets : targets[t].status = "absent"
  /\ \A w \in Workers :
       job[w] = "execute" /\ pc[w] \in {"load", "advance", "mark", "select"} =>
         \A t \in Targets \ work[w].todo : targets[t].status = "absent"

HoldsOK == \A w \in Workers : \A t \in Mine(w) : HeldOK(w, t)

TargetsInv == Typed /\ OneExecution /\ SelectionOK /\ HoldsOK

LEMMA MineAreTargets ==
  ASSUME Typed, NEW w \in Workers
  PROVE  Mine(w) \subseteq Targets
BY DEF Mine, Typed, TypeOK, StepOK, Works

\* A step that leaves the targets alone and gives no worker a new one.
LEMMA QuietHolds ==
  ASSUME HoldsOK, targets' = targets,
         \A w \in Workers : /\ Mine(w)' \subseteq Mine(w)
                            /\ work'[w].held = work[w].held \/ Mine(w)' = {}
  PROVE  HoldsOK'
BY DEF HoldsOK, HeldOK

\* update_target by the worker that holds t: any other copy of t is now old.
LEMMA UpdateHolds ==
  ASSUME Typed, HoldsOK, NEW w \in Workers, NEW t \in Mine(w), NEW s,
         s # "absent", UpdateTarget(t, work[w].held[t], s),
         \A v \in Workers : /\ Mine(v)' \subseteq Mine(v)
                            /\ work'[v].held = work[v].held
  PROVE  HoldsOK'
<1> SUFFICES ASSUME NEW v \in Workers, NEW u \in Mine(v)'
             PROVE  HeldOK(v, u)'
  BY DEF HoldsOK
<1>1. t \in Targets /\ u \in Targets /\ u \in Mine(v) /\ HeldOK(v, u)
  BY MineAreTargets DEF HoldsOK
<1>2. work'[v].held[u] = work[v].held[u]
  OBVIOUS
<1>3. CASE targets'[u] = targets[u]
  BY <1>1, <1>2, <1>3 DEF HeldOK
<1>4. CASE u = t /\ targets[t].version = work[w].held[t] /\ targets'[t].status = s
           /\ targets'[t].version = work[w].held[t] + 1
  <2>1. targets[t].version \in Nat /\ work[v].held[t] \in Nat
    BY <1>1 DEF Typed, TypeOK, TargetDocs, Works
  <2>2. work'[v].held[u] < targets'[u].version
    BY <1>1, <1>2, <1>4, <2>1 DEF HeldOK
  <2>3. work'[v].held[u] # targets'[u].version /\ work'[v].held[u] <= targets'[u].version
    BY <1>1, <1>2, <1>4, <2>1 DEF HeldOK
  <2> QED
    BY <1>4, <2>3 DEF HeldOK
<1> QED
  BY <1>1, <1>3, <1>4, UpdateTargetFacts

\* A target a worker holds exists, so nobody is about to select it, and
\* update_target only touches held targets: absent ones stay absent.
LEMMA QuietSelection ==
  ASSUME SelectionOK, UNCHANGED <<creator, jobs>>,
         \A t \in Targets : targets[t].status = "absent" => targets'[t].status = "absent",
         \A w \in Workers :
           job'[w] = "execute" /\ pc'[w] \in {"load", "advance", "mark", "select"} =>
             /\ job[w] = "execute" /\ pc[w] \in {"load", "advance", "mark", "select"}
             /\ work'[w].todo = work[w].todo
  PROVE  SelectionOK'
BY DEF SelectionOK

LEMMA UpdateKeepsAbsent ==
  ASSUME Typed, HoldsOK, NEW w \in Workers, NEW t \in Mine(w), NEW s,
         UpdateTarget(t, work[w].held[t], s)
  PROVE  \A u \in Targets : targets[u].status = "absent" => targets'[u].status = "absent"
<1>1. t \in Targets /\ targets[t].status # "absent"
  BY MineAreTargets DEF HoldsOK, HeldOK
<1>2. \A u \in Targets \ {t} : targets'[u] = targets[u]
  BY <1>1, UpdateTargetFacts
<1> QED
  BY <1>1, <1>2

LEMMA SelectionStep == TargetsInv /\ [Next]_vars => SelectionOK'
<1> SUFFICES ASSUME TargetsInv, [Next]_vars  PROVE SelectionOK'
  OBVIOUS
<1> USE DEF TargetsInv
<1>1. CASE EnqueueExecution
  BY <1>1 DEF EnqueueExecution, SelectionOK, OneExecution, Typed, TypeOK, storeVars, workerVars
<1>2. CASE EnqueueExecutionFails
  BY <1>2 DEF EnqueueExecutionFails, SelectionOK, storeVars, workerVars
<1>3. ASSUME NEW r \in RetryRequests, RetryLoad(r)  PROVE SelectionOK'
  BY <1>3, QuietSelection DEF RetryLoad, storeVars, workerVars, requestVars
<1>4. ASSUME NEW r \in RetryRequests, RetryMark(r)  PROVE SelectionOK'
  BY <1>4, QuietSelection DEF RetryMark, storeVars, workerVars, requestVars
<1>5. ASSUME NEW r \in RetryRequests, RetryEnqueue(r)  PROVE SelectionOK'
  BY <1>5 DEF RetryEnqueue, SelectionOK, Typed, TypeOK, storeVars, workerVars
<1>6. ASSUME NEW q \in CancelRequests, CancelMark(q)  PROVE SelectionOK'
  BY <1>6, QuietSelection DEF CancelMark, storeVars, workerVars, requestVars
<1>7. ASSUME NEW q \in CancelRequests, CancelJobs(q)  PROVE SelectionOK'
  BY <1>7 DEF CancelJobs, SelectionOK, Typed, TypeOK, storeVars, workerVars
<1>8. ASSUME NEW w \in Workers, Dequeue(w)  PROVE SelectionOK'
  <2>1. UNCHANGED <<targets, work, creator>> /\ \A v \in Workers \ {w} : pc'[v] = pc[v] /\ job'[v] = job[v]
    BY <1>8 DEF Dequeue, Typed, TypeOK, storeVars, requestVars
  <2>2. jobs'.execute => jobs.execute
    BY <1>8 DEF Dequeue, Typed, TypeOK
  <2>3. job'[w] = "execute" => jobs.execute
    BY <1>8 DEF Dequeue, Typed, TypeOK
  <2> QED
    BY <2>1, <2>2, <2>3 DEF SelectionOK
<1>9. ASSUME NEW w \in Workers, LoadExecution(w)  PROVE SelectionOK'
  BY <1>9, QuietSelection DEF LoadExecution, Typed, TypeOK, Goto, EndJob, storeVars, workerVars, requestVars
<1>10. ASSUME NEW w \in Workers, AdvanceToCrawling(w)  PROVE SelectionOK'
  BY <1>10, QuietSelection DEF AdvanceToCrawling, Typed, TypeOK, Goto, EndJob, storeVars, workerVars, requestVars
<1>11. ASSUME NEW w \in Workers, MarkRunning(w)  PROVE SelectionOK'
  BY <1>11, QuietSelection DEF MarkRunning, Typed, TypeOK, Goto, EndJob, storeVars, workerVars, requestVars
<1>12. ASSUME NEW w \in Workers, SaveTarget(w)  PROVE SelectionOK'
  <2>1. PICK t \in Targets \ work[w].todo :
          /\ targets' = [targets EXCEPT ![t] = [status |-> "queued", version |-> 1]]
          /\ work' = [work EXCEPT ![w].todo = @ \cup {t}, ![w].held[t] = 1]
    BY <1>12 DEF SaveTarget
  <2>2. job[w] = "execute" /\ UNCHANGED <<pc, job, jobs, creator>>
    BY <1>12 DEF SaveTarget, Typed, StepOK, requestVars
  <2>3. ~(creator = "push" \/ jobs.execute) /\ \A v \in Workers : job[v] = "execute" => v = w
    BY <2>2 DEF OneExecution
  <2>4. work'[w].todo = work[w].todo \cup {t}
    BY <2>1 DEF Typed, TypeOK, Works
  <2>5. \A u \in Targets \ {t} : targets'[u] = targets[u]
    BY <2>1 DEF Typed, TypeOK
  <2> QED
    BY <2>2, <2>3, <2>4, <2>5 DEF SelectionOK
<1>13. ASSUME NEW w \in Workers, SelectionDone(w)  PROVE SelectionOK'
  BY <1>13, QuietSelection DEF SelectionDone, Typed, TypeOK, Goto, EndJob, storeVars, workerVars, requestVars
<1>14. ASSUME NEW w \in Workers, CheckCancellation(w)  PROVE SelectionOK'
  <2>1. UNCHANGED <<creator, jobs, targets, job>> /\ pc[w] = "check"
    BY <1>14 DEF CheckCancellation, storeVars, requestVars
  <2>2. pc'[w] \in {"finish", "skip", "process"} /\ \A v \in Workers \ {w} : pc'[v] = pc[v]
    BY <1>14 DEF CheckCancellation, Typed, TypeOK, Goto
  <2>3. \A v \in Workers \ {w} : work'[v] = work[v]
    BY <1>14 DEF CheckCancellation, Typed, TypeOK
  <2>4. ASSUME NEW v \in Workers, job'[v] = "execute", pc'[v] \in {"load", "advance", "mark", "select"}
        PROVE  /\ job[v] = "execute" /\ pc[v] \in {"load", "advance", "mark", "select"}
               /\ work'[v].todo = work[v].todo
    <3>1. v # w
      BY <2>2, <2>4
    <3> QED
      BY <2>1, <2>2, <2>3, <2>4, <3>1
  <2> QED
    BY <2>1, <2>4, QuietSelection
<1>15. ASSUME NEW w \in Workers, SkipTarget(w)  PROVE SelectionOK'
  <2>1. PICK t \in work[w].todo : UpdateTarget(t, work[w].held[t], "skipped")
    BY <1>15 DEF SkipTarget
  <2>2. \A u \in Targets : targets[u].status = "absent" => targets'[u].status = "absent"
    BY <2>1, UpdateKeepsAbsent DEF Mine
  <2> QED
    BY <1>15, <2>2, QuietSelection DEF SkipTarget, Typed, TypeOK, Goto, requestVars
<1>16. ASSUME NEW w \in Workers, LoadRetry(w)  PROVE SelectionOK'
  BY <1>16, QuietSelection DEF LoadRetry, Typed, TypeOK, Goto, EndJob, storeVars, workerVars, requestVars
<1>17. ASSUME NEW w \in Workers, ListRetryable(w)  PROVE SelectionOK'
  BY <1>17, QuietSelection DEF ListRetryable, Typed, TypeOK, Goto, EndJob, storeVars, workerVars, requestVars
<1>18. ASSUME NEW w \in Workers, NextRetry(w)  PROVE SelectionOK'
  BY <1>18, QuietSelection DEF NextRetry, Typed, TypeOK, Goto, EndJob, storeVars, workerVars, requestVars
<1>19. ASSUME NEW w \in Workers, BlockTarget(w)  PROVE SelectionOK'
  BY <1>19, QuietSelection DEF BlockTarget, Typed, TypeOK, Goto, EndJob, storeVars, workerVars, requestVars
<1>20. ASSUME NEW w \in Workers, FetchTarget(w)  PROVE SelectionOK'
  BY <1>20, QuietSelection DEF FetchTarget, Typed, TypeOK, Goto, EndJob, storeVars, workerVars, requestVars
<1>21. ASSUME NEW w \in Workers, SavePage(w)  PROVE SelectionOK'
  BY <1>21, QuietSelection DEF SavePage, Typed, TypeOK, Goto, EndJob, storeVars, workerVars, requestVars
<1>22. ASSUME NEW w \in Workers, SaveTargetUpdate(w)  PROVE SelectionOK'
  <2>1. UpdateTarget(work[w].target, work[w].held[work[w].target], work[w].outcome)
    BY <1>22 DEF SaveTargetUpdate
  <2>2. work[w].target \in Mine(w)
    BY <1>22 DEF SaveTargetUpdate, Mine
  <2>3. \A u \in Targets : targets[u].status = "absent" => targets'[u].status = "absent"
    BY <2>1, <2>2, UpdateKeepsAbsent
  <2> QED
    BY <1>22, <2>3, QuietSelection DEF SaveTargetUpdate, Typed, TypeOK, Goto, requestVars
<1>23. ASSUME NEW w \in Workers, FinishRun(w)  PROVE SelectionOK'
  BY <1>23, QuietSelection DEF FinishRun, Typed, TypeOK, Goto, EndJob, storeVars, workerVars, requestVars
<1>24. ASSUME NEW w \in Workers, FinishCompany(w)  PROVE SelectionOK'
  BY <1>24, QuietSelection DEF FinishCompany, Typed, TypeOK, Goto, EndJob, storeVars, workerVars, requestVars
<1>25. ASSUME NEW w \in Workers, Crash(w)  PROVE SelectionOK'
  BY <1>25, QuietSelection DEF Crash, Typed, TypeOK, Goto, EndJob, storeVars, workerVars, requestVars
<1>26. CASE UNCHANGED vars
  BY <1>26, QuietSelection DEF vars, storeVars, workerVars, requestVars
<1> QED
  BY <1>1, <1>2, <1>3, <1>4, <1>5, <1>6, <1>7, <1>8, <1>9, <1>10, <1>11, <1>12, <1>13, <1>14, <1>15, <1>16, <1>17, <1>18, <1>19, <1>20, <1>21, <1>22, <1>23, <1>24, <1>25, <1>26 DEF Next, WorkerStep, RetryContinues

\* Taking the next target in hand, or none: the worker holds what it held.
LEMMA TakeHolds ==
  ASSUME Typed, HoldsOK, NEW w \in Workers, UNCHANGED targets, pc[w] = "check",
         \/ UNCHANGED work /\ pc'[w] \in {"finish", "skip"}
         \/ /\ work' = [work EXCEPT ![w].wasCancelled = TRUE]
            /\ pc'[w] \in {"finish", "skip"}
         \/ \E t \in work[w].todo :
              work' = [work EXCEPT ![w].todo = @ \ {t}, ![w].target = t],
         \A v \in Workers \ {w} : pc'[v] = pc[v]
  PROVE  HoldsOK'
<1>1. work \in [Workers -> Works]
  BY DEF Typed, TypeOK
<1>2. \A v \in Workers \ {w} : work'[v] = work[v]
  BY <1>1
<1>3. \A v \in Workers \ {w} : Mine(v)' = Mine(v)
  BY <1>2 DEF Mine
<1>4. work'[w].held = work[w].held
  BY <1>1 DEF Works
<1>5. Mine(w) = work[w].todo
  BY DEF Mine
<1>6. Mine(w)' \subseteq Mine(w)
  <2>1. CASE UNCHANGED work /\ pc'[w] \in {"finish", "skip"}
    BY <1>5, <2>1 DEF Mine
  <2>2. CASE work' = [work EXCEPT ![w].wasCancelled = TRUE] /\ pc'[w] \in {"finish", "skip"}
    <3>1. work'[w].todo = work[w].todo
      BY <1>1, <2>2 DEF Works
    <3> QED
      BY <1>5, <2>2, <3>1 DEF Mine
  <2>3. ASSUME NEW t \in work[w].todo,
               work' = [work EXCEPT ![w].todo = @ \ {t}, ![w].target = t]
        PROVE  Mine(w)' \subseteq Mine(w)
    <3>1. work[w] \in Works
      BY <1>1
    <3>2. work'[w] = [work[w] EXCEPT !.todo = @ \ {t}, !.target = t]
      BY <1>1, <2>3
    <3>3. work'[w].todo = work[w].todo \ {t}
      BY <3>1, <3>2 DEF Works
    <3>4. work'[w].target = t
      BY <3>1, <3>2 DEF Works
    <3> QED
      BY <1>5, <3>3, <3>4 DEF Mine
  <2> QED
    BY <2>1, <2>2, <2>3
<1>7. \A v \in Workers : Mine(v)' \subseteq Mine(v) /\ work'[v].held = work[v].held
  BY <1>2, <1>3, <1>4, <1>6
<1> QED
  BY <1>7, QuietHolds

LEMMA HoldsStep == TargetsInv /\ [Next]_vars => HoldsOK'
<1> SUFFICES ASSUME TargetsInv, [Next]_vars  PROVE HoldsOK'
  OBVIOUS
<1> USE DEF TargetsInv
<1>1. CASE EnqueueExecution
  BY <1>1, QuietHolds DEF EnqueueExecution, Mine, storeVars, workerVars, requestVars
<1>2. CASE EnqueueExecutionFails
  BY <1>2, QuietHolds DEF EnqueueExecutionFails, Mine, storeVars, workerVars, requestVars
<1>3. ASSUME NEW r \in RetryRequests, RetryLoad(r)  PROVE HoldsOK'
  BY <1>3, QuietHolds DEF RetryLoad, Mine, storeVars, workerVars, requestVars
<1>4. ASSUME NEW r \in RetryRequests, RetryMark(r)  PROVE HoldsOK'
  BY <1>4, QuietHolds DEF RetryMark, Mine, storeVars, workerVars, requestVars
<1>5. ASSUME NEW r \in RetryRequests, RetryEnqueue(r)  PROVE HoldsOK'
  BY <1>5, QuietHolds DEF RetryEnqueue, Mine, storeVars, workerVars, requestVars
<1>6. ASSUME NEW q \in CancelRequests, CancelMark(q)  PROVE HoldsOK'
  BY <1>6, QuietHolds DEF CancelMark, Mine, storeVars, workerVars, requestVars
<1>7. ASSUME NEW q \in CancelRequests, CancelJobs(q)  PROVE HoldsOK'
  BY <1>7, QuietHolds DEF CancelJobs, Mine, storeVars, workerVars, requestVars
<1>8. ASSUME NEW w \in Workers, Dequeue(w)  PROVE HoldsOK'
  BY <1>8, QuietHolds DEF Dequeue, Mine, Typed, TypeOK, Goto, storeVars, workerVars, requestVars
<1>9. ASSUME NEW w \in Workers, LoadExecution(w)  PROVE HoldsOK'
  <2>1. targets' = targets
    BY <1>9 DEF LoadExecution, storeVars
  <2>2. CASE EndJob(w)
    <3>1. \A v \in Workers \ {w} : Mine(v)' = Mine(v) /\ work'[v] = work[v]
      BY <2>2 DEF EndJob, Mine, Typed, TypeOK
    <3>2. Mine(w)' = {}
      BY <2>2 DEF EndJob, Mine, Typed, TypeOK, NoWork
    <3> QED
      BY <2>1, <3>1, <3>2, QuietHolds
  <2>3. CASE Goto(w, "advance") /\ UNCHANGED work
    BY <2>1, <2>3, QuietHolds DEF Goto, Mine, Typed, TypeOK
  <2> QED
    BY <1>9, <2>2, <2>3 DEF LoadExecution
<1>10. ASSUME NEW w \in Workers, AdvanceToCrawling(w)  PROVE HoldsOK'
  BY <1>10, QuietHolds DEF AdvanceToCrawling, Mine, Typed, TypeOK, Goto, storeVars, workerVars, requestVars
<1>11. ASSUME NEW w \in Workers, MarkRunning(w)  PROVE HoldsOK'
  BY <1>11, QuietHolds DEF MarkRunning, Mine, Typed, TypeOK, Goto, storeVars, workerVars, requestVars
<1>12. ASSUME NEW w \in Workers, SaveTarget(w)  PROVE HoldsOK'
  <2>1. PICK t \in Targets \ work[w].todo :
          /\ targets' = [targets EXCEPT ![t] = [status |-> "queued", version |-> 1]]
          /\ work' = [work EXCEPT ![w].todo = @ \cup {t}, ![w].held[t] = 1]
    BY <1>12 DEF SaveTarget
  <2>2. pc[w] = "select" /\ job[w] = "execute" /\ UNCHANGED pc
    BY <1>12 DEF SaveTarget, Typed, StepOK
  <2>3. targets[t].status = "absent"
    BY <2>2 DEF SelectionOK
  <2>4. targets'[t].status = "queued" /\ targets'[t].version = 1
    BY <2>1 DEF Typed, TypeOK
  <2>5. \A u \in Targets \ {t} : targets'[u] = targets[u]
    BY <2>1 DEF Typed, TypeOK
  <2>6. work'[w].held[t] = 1 /\ \A u \in Targets \ {t} : work'[w].held[u] = work[w].held[u]
    BY <2>1 DEF Typed, TypeOK, Works
  <2>7. work'[w].todo = work[w].todo \cup {t} /\ \A v \in Workers \ {w} : work'[v] = work[v]
    BY <2>1 DEF Typed, TypeOK, Works
  <2>8. "queued" \notin Settled
    BY DEF Settled, FetchedStatuses
  <2> SUFFICES ASSUME NEW v \in Workers, NEW u \in Mine(v)'
               PROVE  HeldOK(v, u)'
    BY DEF HoldsOK
  <2>9. u \in Mine(v) \/ (v = w /\ u = t)
    <3>1. CASE v = w
      <4>1. Mine(w)' = work'[w].todo /\ Mine(w) = work[w].todo
        BY <2>2 DEF Mine
      <4> QED
        BY <2>7, <3>1, <4>1
    <3>2. CASE v # w
      <4>1. Mine(v)' = Mine(v)
        BY <2>2, <2>7, <3>2 DEF Mine
      <4> QED
        BY <4>1
    <3> QED
      BY <3>1, <3>2
  <2>10. CASE v = w /\ u = t
    BY <2>4, <2>6, <2>8, <2>10 DEF HeldOK
  <2>11. CASE u \in Mine(v) /\ ~(v = w /\ u = t)
    <3>1. HeldOK(v, u) /\ u \in Targets
      BY <2>11, MineAreTargets DEF HoldsOK
    <3>2. u # t
      BY <2>3, <3>1 DEF HeldOK
    <3>3. targets'[u] = targets[u] /\ work'[v].held[u] = work[v].held[u]
      BY <2>5, <2>6, <2>7, <3>1, <3>2
    <3> QED
      BY <3>1, <3>3 DEF HeldOK
  <2> QED
    BY <2>9, <2>10, <2>11
<1>13. ASSUME NEW w \in Workers, SelectionDone(w)  PROVE HoldsOK'
  BY <1>13, QuietHolds DEF SelectionDone, Mine, Typed, TypeOK, Goto, storeVars, workerVars, requestVars
<1>14. ASSUME NEW w \in Workers, CheckCancellation(w)  PROVE HoldsOK'
  <2>1. UNCHANGED targets /\ pc[w] = "check" /\ \A v \in Workers \ {w} : pc'[v] = pc[v]
    BY <1>14 DEF CheckCancellation, Typed, TypeOK, Goto, storeVars
  <2>2. \/ UNCHANGED work /\ pc'[w] \in {"finish", "skip"}
        \/ /\ work' = [work EXCEPT ![w].wasCancelled = TRUE]
           /\ pc'[w] \in {"finish", "skip"}
        \/ \E t \in work[w].todo : work' = [work EXCEPT ![w].todo = @ \ {t}, ![w].target = t]
    BY <1>14 DEF CheckCancellation, Typed, TypeOK, Goto
  <2> QED
    BY <2>1, <2>2, TakeHolds
<1>15. ASSUME NEW w \in Workers, SkipTarget(w)  PROVE HoldsOK'
  <2>1. PICK t \in work[w].todo :
          /\ UpdateTarget(t, work[w].held[t], "skipped")
          /\ work' = [work EXCEPT ![w].todo = @ \ {t}]
    BY <1>15 DEF SkipTarget
  <2>2. pc[w] = "skip" /\ pc'[w] \in {"finish", "skip"} /\ \A v \in Workers \ {w} : pc'[v] = pc[v]
    BY <1>15 DEF SkipTarget, Typed, TypeOK, Goto
  <2>3. /\ \A v \in Workers \ {w} : work'[v] = work[v]
        /\ work'[w].todo = work[w].todo \ {t}
        /\ work'[w].held = work[w].held
    BY <2>1 DEF Typed, TypeOK, Works
  <2>4. t \in Mine(w) /\ Mine(w)' = work[w].todo \ {t} /\ Mine(w) = work[w].todo
    BY <2>2, <2>3 DEF Mine
  <2>5. \A v \in Workers : Mine(v)' \subseteq Mine(v) /\ work'[v].held = work[v].held
    BY <2>2, <2>3, <2>4 DEF Mine
  <2> QED
    BY <2>1, <2>4, <2>5, UpdateHolds
<1>16. ASSUME NEW w \in Workers, LoadRetry(w)  PROVE HoldsOK'
  BY <1>16, QuietHolds DEF LoadRetry, Mine, Typed, TypeOK, Goto, storeVars, workerVars, requestVars
<1>17. ASSUME NEW w \in Workers, ListRetryable(w)  PROVE HoldsOK'
  <2>1. targets' = targets /\ pc[w] = "list" /\ pc' = [pc EXCEPT ![w] = "check"]
    BY <1>17 DEF ListRetryable, storeVars, Goto
  <2>2. /\ \A v \in Workers \ {w} : work'[v] = work[v]
        /\ work'[w].todo = WithStatus(RetryableStatuses)
        /\ work'[w].held = [t \in Targets |-> targets[t].version]
    BY <1>17 DEF ListRetryable, Typed, TypeOK, Works
  <2>3. \A v \in Workers \ {w} : Mine(v)' = Mine(v)
    BY <2>1, <2>2 DEF Mine, Typed, TypeOK
  <2>4. Mine(w)' = WithStatus(RetryableStatuses)
    BY <2>1, <2>2 DEF Mine, Typed, TypeOK
  <2>5. \A s \in RetryableStatuses : s \notin Settled /\ s # "absent"
    BY DEF RetryableStatuses, FailedStatuses, Settled, FetchedStatuses
  <2>6. \A u \in Mine(w)' : HeldOK(w, u)'
    <3> SUFFICES ASSUME NEW u \in Mine(w)'  PROVE HeldOK(w, u)'
      OBVIOUS
    <3>1. u \in Targets /\ targets[u].status \in RetryableStatuses
      BY <2>4 DEF WithStatus
    <3>2. work'[w].held[u] = targets'[u].version /\ targets[u].version \in Nat
      BY <2>1, <2>2, <3>1 DEF Typed, TypeOK, TargetDocs
    <3> QED
      BY <2>1, <2>5, <3>1, <3>2 DEF HeldOK
  <2> QED
    BY <2>1, <2>2, <2>3, <2>6 DEF HoldsOK, HeldOK
<1>18. ASSUME NEW w \in Workers, NextRetry(w)  PROVE HoldsOK'
  <2>1. UNCHANGED targets /\ pc[w] = "check" /\ \A v \in Workers \ {w} : pc'[v] = pc[v]
    BY <1>18 DEF NextRetry, Typed, TypeOK, Goto, storeVars
  <2>2. \/ UNCHANGED work /\ pc'[w] \in {"finish", "skip"}
        \/ \E t \in work[w].todo : work' = [work EXCEPT ![w].todo = @ \ {t}, ![w].target = t]
    BY <1>18 DEF NextRetry, Typed, TypeOK, Goto
  <2> QED
    BY <2>1, <2>2, TakeHolds
<1>19. ASSUME NEW w \in Workers, BlockTarget(w)  PROVE HoldsOK'
  BY <1>19, QuietHolds DEF BlockTarget, Mine, Typed, TypeOK, Goto, storeVars, workerVars, requestVars
<1>20. ASSUME NEW w \in Workers, FetchTarget(w)  PROVE HoldsOK'
  BY <1>20, QuietHolds DEF FetchTarget, Mine, Typed, TypeOK, Goto, storeVars, workerVars, requestVars
<1>21. ASSUME NEW w \in Workers, SavePage(w)  PROVE HoldsOK'
  BY <1>21, QuietHolds DEF SavePage, Mine, Typed, TypeOK, Goto, storeVars, workerVars, requestVars
<1>22. ASSUME NEW w \in Workers, SaveTargetUpdate(w)  PROVE HoldsOK'
  <2> DEFINE t == work[w].target
  <2>1. UpdateTarget(t, work[w].held[t], work[w].outcome)
    BY <1>22 DEF SaveTargetUpdate
  <2>2. pc[w] = "target" /\ pc'[w] = "check" /\ \A v \in Workers \ {w} : pc'[v] = pc[v]
    BY <1>22 DEF SaveTargetUpdate, Typed, TypeOK, Goto
  <2>3. /\ \A v \in Workers \ {w} : work'[v] = work[v]
        /\ work'[w].todo = work[w].todo
        /\ work'[w].held = work[w].held
    BY <1>22 DEF SaveTargetUpdate, Typed, TypeOK, Works
  <2>4. t \in Mine(w) /\ Mine(w)' = work[w].todo
    BY <2>2, <2>3 DEF Mine
  <2>5. \A v \in Workers : Mine(v)' \subseteq Mine(v) /\ work'[v].held = work[v].held
    BY <2>2, <2>3, <2>4 DEF Mine
  <2>6. work[w].outcome # "absent"
    BY <2>2 DEF Typed, StepOK, PageStatuses, FailedStatuses, FetchedStatuses
  <2> QED
    BY <2>1, <2>4, <2>5, <2>6, UpdateHolds
<1>23. ASSUME NEW w \in Workers, FinishRun(w)  PROVE HoldsOK'
  <2>1. targets' = targets
    BY <1>23 DEF FinishRun
  <2>2. CASE EndJob(w)
    <3>1. \A v \in Workers \ {w} : Mine(v)' = Mine(v) /\ work'[v] = work[v]
      BY <2>2 DEF EndJob, Mine, Typed, TypeOK
    <3>2. Mine(w)' = {}
      BY <2>2 DEF EndJob, Mine, Typed, TypeOK, NoWork
    <3> QED
      BY <2>1, <3>1, <3>2, QuietHolds
  <2>3. CASE Goto(w, "company") /\ UNCHANGED work
    BY <2>1, <2>3, QuietHolds DEF Goto, Mine, Typed, TypeOK
  <2> QED
    BY <1>23, <2>2, <2>3 DEF FinishRun
<1>24. ASSUME NEW w \in Workers, FinishCompany(w)  PROVE HoldsOK'
  <2>1. \A v \in Workers \ {w} : Mine(v)' = Mine(v) /\ work'[v] = work[v]
    BY <1>24 DEF FinishCompany, EndJob, Mine, Typed, TypeOK
  <2>2. Mine(w)' = {}
    BY <1>24 DEF FinishCompany, EndJob, Mine, Typed, TypeOK, NoWork
  <2> QED
    BY <1>24, <2>1, <2>2, QuietHolds DEF FinishCompany, storeVars
<1>25. ASSUME NEW w \in Workers, Crash(w)  PROVE HoldsOK'
  <2>1. \A v \in Workers \ {w} : Mine(v)' = Mine(v) /\ work'[v] = work[v]
    BY <1>25 DEF Crash, EndJob, Mine, Typed, TypeOK
  <2>2. Mine(w)' = {}
    BY <1>25 DEF Crash, EndJob, Mine, Typed, TypeOK, NoWork
  <2> QED
    BY <1>25, <2>1, <2>2, QuietHolds DEF Crash, storeVars
<1>26. CASE UNCHANGED vars
  BY <1>26, QuietHolds DEF vars, Mine, storeVars, workerVars, requestVars
<1> QED
  BY <1>1, <1>2, <1>3, <1>4, <1>5, <1>6, <1>7, <1>8, <1>9, <1>10, <1>11, <1>12, <1>13, <1>14, <1>15, <1>16, <1>17, <1>18, <1>19, <1>20, <1>21, <1>22, <1>23, <1>24, <1>25, <1>26 DEF Next, WorkerStep, RetryContinues

LEMMA TargetsInvariant == Spec => []TargetsInv
<1>1. Init => TargetsInv
  <2> SUFFICES ASSUME Init  PROVE TargetsInv
    OBVIOUS
  <2>1. OneExecution /\ SelectionOK
    BY DEF Init, OneExecution, SelectionOK
  <2>2. HoldsOK
    BY DEF Init, HoldsOK, Mine, NoWork
  <2> QED
    BY <2>1, <2>2, InitTyped DEF TargetsInv
<1>2. TargetsInv /\ [Next]_vars => TargetsInv'
  BY TypedStep, OneExecutionStep, SelectionStep, HoldsStep DEF TargetsInv
<1> QED
  BY <1>1, <1>2, PTL DEF Spec

-----------------------------------------------------------------------------
(* The theorems.                                                           *)

\* From the moment a run is cancelled its execution starts at most the one
\* request it was about to start.
THEOREM ExecutionStops == Spec => []ExecutionStopsAfterCancel
<1>1. Init => OverrunOK
  BY DEF Init, OverrunOK, JobKinds
<1>2. Typed /\ OneExecution /\ OverrunOK /\ [Next]_vars => OverrunOK'
  BY OverrunStep
<1>3. TargetsInv => Typed /\ OneExecution
  BY DEF TargetsInv
<1>4. OverrunOK => ExecutionStopsAfterCancel
  BY DEF OverrunOK, ExecutionStopsAfterCancel
<1> QED
  BY <1>1, <1>2, <1>3, <1>4, TargetsInvariant, PTL DEF Spec

\* Whatever dies and wherever, no target shows the outcome of a request
\* whose page was not stored.
THEOREM PageFirst == Spec => []PagePrecedesTarget
<1>1. Init => PagesOK
  BY DEF Init, PagesOK, PagePrecedesTarget, PageStatuses, FailedStatuses, FetchedStatuses
<1>2. Typed /\ PagesOK /\ [Next]_vars => PagesOK'
  BY PagesStep
<1>3. TargetsInv => Typed
  BY DEF TargetsInv
<1>4. PagesOK => PagePrecedesTarget
  BY DEF PagesOK
<1> QED
  BY <1>1, <1>2, <1>3, <1>4, TargetsInvariant, PTL DEF Spec

LEMMA UpdateKeepsSettled ==
  ASSUME TargetsInv, NEW w \in Workers, NEW t \in Mine(w), NEW s,
         UpdateTarget(t, work[w].held[t], s),
         NEW u \in Targets, targets[u].status \in Settled
  PROVE  targets'[u] = targets[u]
<1>1. t \in Targets /\ HeldOK(w, t)
  BY MineAreTargets DEF TargetsInv, HoldsOK
<1>2. CASE u = t
  <2>1. targets[t].version # work[w].held[t]
    BY <1>1, <1>2 DEF HeldOK
  <2> QED
    BY <2>1 DEF UpdateTarget
<1>3. CASE u # t
  BY <1>1, <1>3, UpdateTargetFacts DEF TargetsInv
<1> QED
  BY <1>2, <1>3

LEMMA SettledStep ==
  ASSUME TargetsInv, [Next]_vars, NEW u \in Targets, targets[u].status \in Settled
  PROVE  targets'[u] = targets[u]
<1>1. ASSUME NEW w \in Workers, SaveTarget(w)  PROVE targets'[u] = targets[u]
  <2>1. PICK t \in Targets \ work[w].todo :
          targets' = [targets EXCEPT ![t] = [status |-> "queued", version |-> 1]]
    BY <1>1 DEF SaveTarget
  <2>2. targets[t].status = "absent"
    BY <1>1 DEF SaveTarget, TargetsInv, Typed, StepOK, SelectionOK
  <2>3. "absent" \notin Settled
    BY DEF Settled, FetchedStatuses
  <2> QED
    BY <2>1, <2>2, <2>3 DEF TargetsInv, Typed, TypeOK
<1>2. ASSUME NEW w \in Workers, SkipTarget(w)  PROVE targets'[u] = targets[u]
  <2>1. PICK t \in work[w].todo : UpdateTarget(t, work[w].held[t], "skipped")
    BY <1>2 DEF SkipTarget
  <2> QED
    BY <2>1, UpdateKeepsSettled DEF Mine
<1>3. ASSUME NEW w \in Workers, SaveTargetUpdate(w)  PROVE targets'[u] = targets[u]
  <2>1. UpdateTarget(work[w].target, work[w].held[work[w].target], work[w].outcome)
    BY <1>3 DEF SaveTargetUpdate
  <2>2. work[w].target \in Mine(w)
    BY <1>3 DEF SaveTargetUpdate, Mine
  <2> QED
    BY <2>1, <2>2, UpdateKeepsSettled
<1>4. \/ targets' = targets
      \/ \E w \in Workers : SaveTarget(w) \/ SkipTarget(w) \/ SaveTargetUpdate(w)
  BY DEF Next, WorkerStep, RetryContinues, vars, storeVars,
    EnqueueExecution, EnqueueExecutionFails, RetryLoad, RetryMark, RetryEnqueue,
    CancelMark, CancelJobs, Dequeue, LoadExecution, AdvanceToCrawling, MarkRunning,
    SelectionDone, CheckCancellation, LoadRetry, ListRetryable, NextRetry,
    BlockTarget, FetchTarget, SavePage, FinishRun, FinishCompany, Crash
<1> QED
  BY <1>1, <1>2, <1>3, <1>4

\* A target that was fetched, found unchanged or skipped keeps that result:
\* a copy that would replace it is of an older version.
THEOREM SettledStay == Spec => SettledTargetsStay
<1>1. TargetsInv /\ [Next]_vars =>
        [\A t \in Targets :
           targets[t].status \in FetchedStatuses \cup {"unchanged", "skipped"} =>
             targets'[t] = targets[t]]_vars
  BY SettledStep DEF Settled
<1> QED
  BY <1>1, TargetsInvariant, PTL DEF SettledTargetsStay, Spec

\* When no job dies, a company is "crawling" only while its run executes.
THEOREM NotStranded ==
  ASSUME MaxCrashes = 0, "crawling" \notin InitialCompany
  PROVE  Spec => []CompanyNotStranded
<1>1. Init => CompanyNotStranded
  BY DEF Init, CompanyNotStranded
<1>2. Typed /\ CompanyNotStranded /\ [Next]_vars => CompanyNotStranded'
  <2> SUFFICES ASSUME Typed, CompanyNotStranded, [Next]_vars  PROVE CompanyNotStranded'
    OBVIOUS
  <2> DEFINE At(v) == job[v] = "execute" /\ pc[v] \notin {"idle", "load", "advance"}
  <2>1. ASSUME NEW w \in Workers, AdvanceToCrawling(w)  PROVE CompanyNotStranded'
    BY <2>1 DEF AdvanceToCrawling, CompanyNotStranded, Typed, TypeOK, StepOK, Goto
  <2>2. ASSUME NEW w \in Workers, FinishCompany(w)  PROVE CompanyNotStranded'
    <3>1. CompanyVerdict(copy[w].status) \in {"crawled", "failed"}
      BY DEF CompanyVerdict
    <3>2. \A a \in {"crawled", "failed"} : a # "crawling" /\ ProcessingTransitionAllowed("crawling", a)
      BY DEF ProcessingTransitionAllowed, AllowedProcessing, ProcessingStatuses
    <3>3. company' # "crawling"
      BY <2>2, <3>1, <3>2 DEF FinishCompany, AdvancedProcessing
    <3> QED
      BY <3>3 DEF CompanyNotStranded
  <2>3. ASSUME company' = company, \A v \in Workers : At(v) => At(v)'
        PROVE  CompanyNotStranded'
    BY <2>3 DEF CompanyNotStranded
  <2>4. ASSUME NEW w \in Workers, WorkerStep(w), ~AdvanceToCrawling(w), ~FinishCompany(w)
        PROVE  CompanyNotStranded'
    <3>1. company' = company
      BY <2>4 DEF WorkerStep, storeVars, Dequeue, LoadExecution, MarkRunning, SaveTarget,
        SelectionDone, CheckCancellation, SkipTarget, LoadRetry, ListRetryable, NextRetry,
        BlockTarget, FetchTarget, SavePage, SaveTargetUpdate, FinishRun
    <3>2. \A v \in Workers \ {w} : pc'[v] = pc[v] /\ job'[v] = job[v]
      BY <2>4 DEF WorkerStep, Dequeue, LoadExecution, MarkRunning, SaveTarget,
        SelectionDone, CheckCancellation, SkipTarget, LoadRetry, ListRetryable, NextRetry,
        BlockTarget, FetchTarget, SavePage, SaveTargetUpdate, FinishRun,
        Goto, EndJob, Typed, TypeOK
    <3>3. At(w) => At(w)'
      BY <2>4 DEF WorkerStep, Dequeue, LoadExecution, MarkRunning, SaveTarget,
        SelectionDone, CheckCancellation, SkipTarget, LoadRetry, ListRetryable, NextRetry,
        BlockTarget, FetchTarget, SavePage, SaveTargetUpdate, FinishRun,
        Goto, EndJob, Typed, TypeOK
    <3> QED
      BY <2>3, <3>1, <3>2, <3>3
  <2>5. ASSUME NEW w \in Workers, Crash(w)  PROVE FALSE
    BY <2>5 DEF Crash, Typed, TypeOK
  <2>6. CASE UNCHANGED <<company, pc, job>>
    BY <2>6 DEF CompanyNotStranded
  <2>7. \/ UNCHANGED <<company, pc, job>>
        \/ \E w \in Workers : WorkerStep(w) \/ Crash(w)
    BY DEF Next, RetryContinues, vars, storeVars, workerVars, EnqueueExecution,
      EnqueueExecutionFails, RetryLoad, RetryMark, RetryEnqueue, CancelMark, CancelJobs
  <2> QED
    BY <2>1, <2>2, <2>4, <2>5, <2>6, <2>7
<1>3. TargetsInv => Typed
  BY DEF TargetsInv
<1> QED
  BY <1>1, <1>2, <1>3, TargetsInvariant, PTL DEF Spec

-----------------------------------------------------------------------------
(***************************************************************************)
(* What a finished run says of its targets: the summary's counters, the    *)
(* status and the stored pages agree with them, over any number of         *)
(* retries, when nothing is cancelled, nothing dies and the retries do not *)
(* disturb the jobs of others.                                             *)
(***************************************************************************)


Busy(w) == pc[w] \notin {"idle", "company"}

\* No job of the run waits or is at work, and no request is about to change
\* the run or to enqueue a job for a run that it knows in an older version.
RunRests ==
  /\ creator = "done"
  /\ ~jobs.execute /\ jobs.retry = 0
  /\ \A r \in RetryRequests :
       retryPc[r] # "marked" /\ (retryPc[r] = "loaded" => retryCopy[r] = run)
  /\ \A w \in Workers : ~Busy(w)

\* Clients ask for a retry while the run rests, several of them at once if
\* they like. A retry that is marked while the job of another works makes
\* that job's last write stale, and its counters are lost.
RetriesWait ==
  \A r \in RetryRequests : retryPc[r] = "new" /\ retryPc'[r] # "new" => RunRests

\* One job of the run is at work at a time: there is one worker, or no
\* more than one job.
OneAtWork == \A v, w \in Workers : Busy(v) /\ Busy(w) => v = w

\* Nothing is cancelled and nothing dies.
Undisturbed == CancelRequests = {} /\ MaxCrashes = 0

\* The steps that are left then.
LEMMA UndisturbedCases ==
  ASSUME Undisturbed, Typed, [Next]_vars
  PROVE  \/ EnqueueExecution \/ EnqueueExecutionFails
         \/ \E r \in RetryRequests : RetryLoad(r) \/ RetryMark(r) \/ RetryEnqueue(r)
         \/ \E w \in Workers : WorkerStep(w)
         \/ UNCHANGED vars
<1>1. \A w \in Workers : ~Crash(w)
  BY DEF Crash, Undisturbed, Typed, TypeOK
<1> QED
  BY <1>1 DEF Next, RetryContinues, Undisturbed

-----------------------------------------------------------------------------
(* The execution comes before every retry.                                 *)

\* While the execution is to come, waits or works nobody retries.
ExecutionFirst ==
  creator = "push" \/ jobs.execute
      \/ (\E w \in Workers : job[w] = "execute" /\ pc[w] # "company") =>
    /\ jobs.retry = 0
    /\ \A r \in RetryRequests : retryPc[r] = "new"
    /\ \A w \in Workers : job[w] # "retry"

LEMMA ExecutionFirstStep ==
  ASSUME Undisturbed, Typed, OneExecution, ExecutionFirst, [Next]_vars, RetriesWait
  PROVE  ExecutionFirst'
<1>1. CASE EnqueueExecution \/ EnqueueExecutionFails
  BY <1>1 DEF EnqueueExecution, EnqueueExecutionFails, Typed, TypeOK, ExecutionFirst, storeVars, workerVars, requestVars
<1>2. ASSUME NEW r \in RetryRequests, RetryLoad(r)  PROVE ExecutionFirst'
  <2>1. RunRests
    BY <1>2 DEF RetryLoad, RetriesWait, Typed, TypeOK
  <2> QED
    BY <1>2, <2>1 DEF RetryLoad, RunRests, Busy, Typed, TypeOK, StepOK, ExecutionFirst, storeVars, workerVars, requestVars
<1>3. ASSUME NEW r \in RetryRequests, RetryMark(r)  PROVE ExecutionFirst'
  BY <1>3 DEF RetryMark, Typed, TypeOK, StepOK, ExecutionFirst, storeVars, workerVars, requestVars
<1>4. ASSUME NEW r \in RetryRequests, RetryEnqueue(r)  PROVE ExecutionFirst'
  BY <1>4 DEF RetryEnqueue, Typed, TypeOK, StepOK, ExecutionFirst, storeVars, workerVars, requestVars
<1>5. ASSUME NEW w \in Workers, Dequeue(w)  PROVE ExecutionFirst'
  BY <1>5 DEF Dequeue, Goto, EndJob, Typed, TypeOK, StepOK, ExecutionFirst, OneExecution, storeVars, workerVars, requestVars
<1>6. ASSUME NEW w \in Workers, LoadExecution(w)  PROVE ExecutionFirst'
  BY <1>6 DEF LoadExecution, Goto, EndJob, Typed, TypeOK, StepOK, ExecutionFirst, OneExecution, storeVars, workerVars, requestVars
<1>7. ASSUME NEW w \in Workers, AdvanceToCrawling(w)  PROVE ExecutionFirst'
  BY <1>7 DEF AdvanceToCrawling, Goto, EndJob, Typed, TypeOK, StepOK, ExecutionFirst, OneExecution, storeVars, workerVars, requestVars
<1>8. ASSUME NEW w \in Workers, MarkRunning(w)  PROVE ExecutionFirst'
  BY <1>8 DEF MarkRunning, Goto, EndJob, Typed, TypeOK, StepOK, ExecutionFirst, OneExecution, storeVars, workerVars, requestVars
<1>9. ASSUME NEW w \in Workers, SaveTarget(w)  PROVE ExecutionFirst'
  BY <1>9 DEF SaveTarget, Goto, EndJob, Typed, TypeOK, StepOK, ExecutionFirst, OneExecution, storeVars, workerVars, requestVars
<1>10. ASSUME NEW w \in Workers, SelectionDone(w)  PROVE ExecutionFirst'
  BY <1>10 DEF SelectionDone, Goto, EndJob, Typed, TypeOK, StepOK, ExecutionFirst, OneExecution, storeVars, workerVars, requestVars
<1>11. ASSUME NEW w \in Workers, CheckCancellation(w)  PROVE ExecutionFirst'
  BY <1>11 DEF CheckCancellation, Goto, EndJob, Typed, TypeOK, StepOK, ExecutionFirst, OneExecution, storeVars, workerVars, requestVars
<1>12. ASSUME NEW w \in Workers, SkipTarget(w)  PROVE ExecutionFirst'
  BY <1>12 DEF SkipTarget, Goto, EndJob, Typed, TypeOK, StepOK, ExecutionFirst, OneExecution, storeVars, workerVars, requestVars
<1>13. ASSUME NEW w \in Workers, LoadRetry(w)  PROVE ExecutionFirst'
  BY <1>13 DEF LoadRetry, Goto, EndJob, Typed, TypeOK, StepOK, ExecutionFirst, OneExecution, storeVars, workerVars, requestVars
<1>14. ASSUME NEW w \in Workers, ListRetryable(w)  PROVE ExecutionFirst'
  BY <1>14 DEF ListRetryable, Goto, EndJob, Typed, TypeOK, StepOK, ExecutionFirst, OneExecution, storeVars, workerVars, requestVars
<1>15. ASSUME NEW w \in Workers, NextRetry(w)  PROVE ExecutionFirst'
  BY <1>15 DEF NextRetry, Goto, EndJob, Typed, TypeOK, StepOK, ExecutionFirst, OneExecution, storeVars, workerVars, requestVars
<1>16. ASSUME NEW w \in Workers, BlockTarget(w)  PROVE ExecutionFirst'
  BY <1>16 DEF BlockTarget, Goto, EndJob, Typed, TypeOK, StepOK, ExecutionFirst, OneExecution, storeVars, workerVars, requestVars
<1>17. ASSUME NEW w \in Workers, FetchTarget(w)  PROVE ExecutionFirst'
  BY <1>17 DEF FetchTarget, Goto, EndJob, Typed, TypeOK, StepOK, ExecutionFirst, OneExecution, storeVars, workerVars, requestVars
<1>18. ASSUME NEW w \in Workers, SavePage(w)  PROVE ExecutionFirst'
  BY <1>18 DEF SavePage, Goto, EndJob, Typed, TypeOK, StepOK, ExecutionFirst, OneExecution, storeVars, workerVars, requestVars
<1>19. ASSUME NEW w \in Workers, SaveTargetUpdate(w)  PROVE ExecutionFirst'
  BY <1>19 DEF SaveTargetUpdate, Goto, EndJob, Typed, TypeOK, StepOK, ExecutionFirst, OneExecution, storeVars, workerVars, requestVars
<1>20. ASSUME NEW w \in Workers, FinishRun(w)  PROVE ExecutionFirst'
  BY <1>20 DEF FinishRun, Goto, EndJob, Typed, TypeOK, StepOK, ExecutionFirst, OneExecution, storeVars, workerVars, requestVars
<1>21. ASSUME NEW w \in Workers, FinishCompany(w)  PROVE ExecutionFirst'
  BY <1>21 DEF FinishCompany, Goto, EndJob, Typed, TypeOK, StepOK, ExecutionFirst, OneExecution, storeVars, workerVars, requestVars
<1>22. CASE UNCHANGED vars
  BY <1>22 DEF vars, ExecutionFirst, storeVars, workerVars, requestVars
<1> QED
  BY <1>1, <1>2, <1>3, <1>4, <1>5, <1>6, <1>7, <1>8, <1>9, <1>10, <1>11, <1>12, <1>13, <1>14, <1>15, <1>16, <1>17, <1>18, <1>19, <1>20, <1>21, <1>22, UndisturbedCases DEF WorkerStep

-----------------------------------------------------------------------------
(* The copies of the run.                                                  *)

Counting == {"select", "check", "process", "page", "target", "finish"}
Working == {"advance", "mark", "list"} \cup Counting

\* The job at work has the newest version of the run, and so has a request
\* whose write will be accepted: then the run rests.
CopiesCurrent ==
  /\ run.status # "cancelled"
  /\ \A w \in Workers : ~work[w].wasCancelled /\ pc[w] # "skip"
  /\ \A r \in RetryRequests : retryPc[r] = "loaded" =>
       \/ retryCopy[r].version < run.version
       \/ retryCopy[r] = run /\ RunRests
  /\ \A w \in Workers : pc[w] \in Working => copy[w].version = run.version

\* While a job waits or works the requests' copies are old.
LEMMA CopiesAreOld ==
  ASSUME CopiesCurrent, ~RunRests, NEW r \in RetryRequests, retryPc[r] = "loaded"
  PROVE  retryCopy[r].version < run.version
BY DEF CopiesCurrent

\* A step of a job that leaves the run as it is.
LEMMA QuietCopies ==
  ASSUME CopiesCurrent, ~RunRests, UNCHANGED <<run, retryPc, retryCopy>>, NEW w \in Workers,
         \A v \in Workers \ {w} : UNCHANGED <<pc[v], work[v], copy[v]>>,
         ~work'[w].wasCancelled, pc'[w] # "skip",
         pc'[w] \in Working => copy'[w].version = run.version
  PROVE  CopiesCurrent'
BY CopiesAreOld DEF CopiesCurrent

\* update_run by the job at work is accepted: the others' copies are old.
LEMMA WrittenRun ==
  ASSUME Typed, CopiesCurrent, NEW w \in Workers, pc[w] \in {"mark", "finish"},
         NEW s \in RunStatuses
  PROVE  LET c == [copy[w] EXCEPT !.status = s] IN
         /\ StoredRun(c) = [c EXCEPT !.version = run.version + 1]
         /\ ReturnedRun(c) = StoredRun(c)
         /\ StoredRun(c).version = run.version + 1
         /\ StoredRun(c).status = s
         /\ StoredRun(c).summary = copy[w].summary
BY DEF Typed, TypeOK, CopiesCurrent, Working, Counting, StoredRun, ReturnedRun, Fresh, Runs

\* A target taken in hand, and the targets a retry lists.
LEMMA Taken ==
  ASSUME Typed, NEW w \in Workers, NEW t,
         work' = [work EXCEPT ![w].todo = @ \ {t}, ![w].target = t]
  PROVE  /\ work'[w].todo = work[w].todo \ {t} /\ work'[w].target = t
         /\ work'[w].held = work[w].held
         /\ work'[w].homepageFailed = work[w].homepageFailed
         /\ work'[w].wasCancelled = work[w].wasCancelled
         /\ \A v \in Workers \ {w} : work'[v] = work[v]
<1>1. work \in [Workers -> Works] /\ work[w] \in Works
  BY DEF Typed, TypeOK
<1>2. /\ work'[w] = [work[w] EXCEPT !.todo = @ \ {t}, !.target = t]
      /\ \A v \in Workers \ {w} : work'[v] = work[v]
  BY <1>1
<1> QED
  BY <1>1, <1>2 DEF Works

LEMMA Listed ==
  ASSUME Typed, NEW w \in Workers, NEW S, NEW h,
         work' = [work EXCEPT ![w].todo = S, ![w].held = h]
  PROVE  /\ work'[w].todo = S /\ work'[w].held = h
         /\ work'[w].target = work[w].target
         /\ work'[w].homepageFailed = work[w].homepageFailed
         /\ work'[w].wasCancelled = work[w].wasCancelled
         /\ \A v \in Workers \ {w} : work'[v] = work[v]
<1>1. work \in [Workers -> Works] /\ work[w] \in Works
  BY DEF Typed, TypeOK
<1>2. /\ work'[w] = [work[w] EXCEPT !.todo = S, !.held = h]
      /\ \A v \in Workers \ {w} : work'[v] = work[v]
  BY <1>1
<1> QED
  BY <1>1, <1>2 DEF Works

\* The loop over the targets takes the next one or ends.
LEMMA TakenCopies ==
  ASSUME Typed, CopiesCurrent, NEW w \in Workers, pc[w] = "check", Busy(w) => ~RunRests,
         UNCHANGED <<run, retryPc, retryCopy, copy>>,
         \/ pc' = [pc EXCEPT ![w] = "finish"] /\ work' = work
         \/ /\ pc' = [pc EXCEPT ![w] = "process"]
            /\ \E t \in work[w].todo : work' = [work EXCEPT ![w].todo = @ \ {t}, ![w].target = t]
  PROVE  CopiesCurrent'
<1>1. pc'[w] \in {"finish", "process"} /\ \A v \in Workers \ {w} : pc'[v] = pc[v]
  BY DEF Typed, TypeOK
<1>2. work'[w].wasCancelled = work[w].wasCancelled /\ \A v \in Workers \ {w} : work'[v] = work[v]
  BY Taken
<1>3. copy[w].version = run.version /\ ~work[w].wasCancelled /\ ~RunRests
  BY DEF CopiesCurrent, Working, Counting, Busy
<1> QED
  BY <1>1, <1>2, <1>3, QuietCopies

\* ... and are old after it, too.
LEMMA WrittenCopies ==
  ASSUME Typed, CopiesCurrent, ~RunRests, UNCHANGED <<retryPc, retryCopy>>, NEW w \in Workers,
         OneAtWork, Busy(w), run'.version = run.version + 1, run'.status # "cancelled",
         \A v \in Workers \ {w} : UNCHANGED <<pc[v], work[v], copy[v]>>,
         ~work'[w].wasCancelled, pc'[w] # "skip",
         pc'[w] \in Working => copy'[w].version = run'.version
  PROVE  CopiesCurrent'
<1>1. \A v \in Workers \ {w} : pc[v] \notin Working
  BY DEF OneAtWork, Busy, Working, Counting
<1>2. \A r \in RetryRequests : retryPc[r] = "loaded" => retryCopy[r].version < run'.version
  BY CopiesAreOld DEF Typed, TypeOK, Runs
<1> QED
  BY <1>1, <1>2 DEF CopiesCurrent

LEMMA CopiesStep ==
  ASSUME Undisturbed, Typed, Typed', ExecutionFirst, CopiesCurrent, OneAtWork,
         [Next]_vars, RetriesWait
  PROVE  CopiesCurrent'
<1>0. \A w \in Workers : Busy(w) => ~RunRests
  BY DEF RunRests
<1>1. CASE EnqueueExecution \/ EnqueueExecutionFails
  <2>1. \A r \in RetryRequests : retryPc[r] = "new"
    BY <1>1 DEF EnqueueExecution, EnqueueExecutionFails, ExecutionFirst
  <2> QED
    BY <1>1, <2>1 DEF EnqueueExecution, EnqueueExecutionFails, CopiesCurrent, storeVars, workerVars, requestVars
<1>2. ASSUME NEW r \in RetryRequests, RetryLoad(r)  PROVE CopiesCurrent'
  <2>1. RunRests
    BY <1>2 DEF RetryLoad, RetriesWait, Typed, TypeOK
  <2>2. retryPc' = [retryPc EXCEPT ![r] = "loaded"] /\ retryCopy' = [retryCopy EXCEPT ![r] = run]
    BY <1>2 DEF RetryLoad
  <2>3. RunRests'
    BY <1>2, <2>1, <2>2 DEF RetryLoad, RunRests, Busy, Typed, TypeOK, storeVars, workerVars, requestVars
  <2> QED
    BY <1>2, <2>1, <2>2, <2>3 DEF RetryLoad, RunRests, CopiesCurrent, Typed, TypeOK, storeVars, workerVars, requestVars
<1>3. ASSUME NEW r \in RetryRequests, RetryMark(r)  PROVE CopiesCurrent'
  <2> DEFINE c == [retryCopy[r] EXCEPT !.status = "queued"]
  <2>1. /\ retryPc[r] = "loaded" /\ retryPc' = [retryPc EXCEPT ![r] = "marked"]
        /\ run' = StoredRun(c)
        /\ UNCHANGED <<retryCopy, pc, work, copy>>
    BY <1>3 DEF RetryMark, workerVars
  <2>2. CASE RunRests
    <3>1. retryCopy[r] = run
      BY <2>1, <2>2 DEF RunRests
    <3>2. run'.version = run.version + 1 /\ run'.status = "queued"
      BY <2>1, <3>1 DEF StoredRun, Fresh, Typed, TypeOK, Runs
    <3>3. \A v \in Workers : pc[v] \notin Working
      BY <2>2 DEF RunRests, Busy, Working, Counting
    <3>4. \A u \in RetryRequests : retryPc'[u] = "loaded" => retryCopy'[u].version < run'.version
      BY <2>1, <2>2, <3>2 DEF RunRests, Typed, TypeOK, Runs
    <3> QED
      BY <2>1, <3>2, <3>3, <3>4 DEF CopiesCurrent
  <2>3. CASE ~RunRests
    <3>1. retryCopy[r].version < run.version
      BY <2>1, <2>3, CopiesAreOld
    <3>2. run' = run
      BY <2>1, <3>1 DEF StoredRun, Fresh, Typed, TypeOK, Runs
    <3>3. \A u \in RetryRequests : retryPc'[u] = "loaded" => retryPc[u] = "loaded"
      BY <2>1 DEF Typed, TypeOK
    <3> QED
      BY <2>1, <2>3, <3>2, <3>3, CopiesAreOld DEF CopiesCurrent
  <2> QED
    BY <2>2, <2>3
<1>4. ASSUME NEW r \in RetryRequests, RetryEnqueue(r)  PROVE CopiesCurrent'
  <2>1. ~RunRests
    BY <1>4 DEF RetryEnqueue, RunRests
  <2>2. \A u \in RetryRequests : retryPc'[u] = "loaded" => retryPc[u] = "loaded"
    BY <1>4 DEF RetryEnqueue, Typed, TypeOK
  <2> QED
    BY <1>4, <2>1, <2>2, CopiesAreOld DEF RetryEnqueue, CopiesCurrent, storeVars, workerVars, requestVars
<1>5. ASSUME NEW w \in Workers, Dequeue(w)  PROVE CopiesCurrent'
  <2>1. ~RunRests
    BY <1>5 DEF Dequeue, RunRests, Typed, TypeOK
  <2> QED
    BY <1>5, <2>1, CopiesAreOld DEF Dequeue, CopiesCurrent, Working, Counting, Typed, TypeOK, storeVars, workerVars, requestVars
<1>6. ASSUME NEW w \in Workers, LoadExecution(w)  PROVE CopiesCurrent'
  <2>1. pc[w] = "load" /\ UNCHANGED <<run, retryPc, retryCopy, work>>
        /\ copy' = [copy EXCEPT ![w] = run] /\ pc' = [pc EXCEPT ![w] = "advance"]
    BY <1>6 DEF LoadExecution, CopiesCurrent, Goto, storeVars, workerVars, requestVars
  <2>2. ~RunRests
    BY <1>0, <2>1 DEF Busy
  <2>3. ~work[w].wasCancelled
    BY DEF CopiesCurrent
  <2> QED
    BY <2>1, <2>2, <2>3, QuietCopies DEF Typed, TypeOK
<1>7. ASSUME NEW w \in Workers, AdvanceToCrawling(w)  PROVE CopiesCurrent'
  <2>1. ~RunRests
    BY <1>0, <1>7 DEF AdvanceToCrawling, Busy
  <2> QED
    BY <1>7, <2>1, QuietCopies DEF AdvanceToCrawling, CopiesCurrent, Goto, Working, Counting, Typed, TypeOK, Works, Runs, storeVars, workerVars, requestVars
<1>8. ASSUME NEW w \in Workers, MarkRunning(w)  PROVE CopiesCurrent'
  <2> DEFINE c == [copy[w] EXCEPT !.status = "running"]
  <2>1. /\ pc[w] = "mark" /\ run' = StoredRun(c) /\ copy' = [copy EXCEPT ![w] = ReturnedRun(c)]
        /\ pc' = [pc EXCEPT ![w] = "select"] /\ UNCHANGED <<work, retryPc, retryCopy>>
    BY <1>8 DEF MarkRunning, Goto, requestVars
  <2>2. "running" \in RunStatuses
    BY DEF RunStatuses
  <2>3. run'.version = run.version + 1 /\ run'.status = "running" /\ ReturnedRun(c) = run'
    BY <2>1, <2>2, WrittenRun
  <2>4. copy'[w] = run' /\ pc'[w] = "select" /\ ~work'[w].wasCancelled
    BY <2>1, <2>3 DEF Typed, TypeOK, CopiesCurrent
  <2>5. \A v \in Workers \ {w} : UNCHANGED <<pc[v], work[v], copy[v]>>
    BY <2>1 DEF Typed, TypeOK
  <2>6. run'.status # "cancelled" /\ copy'[w].version = run'.version /\ pc'[w] # "skip"
    BY <2>3, <2>4
  <2>7. Busy(w) /\ ~RunRests /\ UNCHANGED <<retryPc, retryCopy>>
    BY <1>0, <2>1 DEF Busy
  <2> HIDE DEF c
  <2> QED
    BY <2>3, <2>4, <2>5, <2>6, <2>7, WrittenCopies
<1>9. ASSUME NEW w \in Workers, SaveTarget(w)  PROVE CopiesCurrent'
  <2>1. ~RunRests
    BY <1>0, <1>9 DEF SaveTarget, Busy
  <2> QED
    BY <1>9, <2>1, QuietCopies DEF SaveTarget, CopiesCurrent, Goto, Working, Counting, Typed, TypeOK, Works, Runs, storeVars, workerVars, requestVars
<1>10. ASSUME NEW w \in Workers, SelectionDone(w)  PROVE CopiesCurrent'
  <2>1. ~RunRests
    BY <1>0, <1>10 DEF SelectionDone, Busy
  <2> QED
    BY <1>10, <2>1, QuietCopies DEF SelectionDone, CopiesCurrent, Goto, Working, Counting, Typed, TypeOK, Works, Runs, storeVars, workerVars, requestVars
<1>11. ASSUME NEW w \in Workers, CheckCancellation(w)  PROVE CopiesCurrent'
  <2>1. pc[w] = "check" /\ UNCHANGED <<run, retryPc, retryCopy, copy>> /\ run.status # "cancelled"
    BY <1>11 DEF CheckCancellation, CopiesCurrent, storeVars, workerVars, requestVars
  <2>2. \/ pc' = [pc EXCEPT ![w] = "finish"] /\ work' = work
        \/ /\ pc' = [pc EXCEPT ![w] = "process"]
           /\ \E t \in work[w].todo : work' = [work EXCEPT ![w].todo = @ \ {t}, ![w].target = t]
    BY <1>11, <2>1 DEF CheckCancellation, SeenCancelled, Goto
  <2> QED
    BY <1>0, <2>1, <2>2, TakenCopies
<1>12. ASSUME NEW w \in Workers, SkipTarget(w)  PROVE CopiesCurrent'
  BY <1>12 DEF SkipTarget, CopiesCurrent
<1>13. ASSUME NEW w \in Workers, LoadRetry(w)  PROVE CopiesCurrent'
  <2>1. ~RunRests
    BY <1>0, <1>13 DEF LoadRetry, Busy
  <2> QED
    BY <1>13, <2>1, QuietCopies DEF LoadRetry, CopiesCurrent, Goto, Working, Counting, Typed, TypeOK, Works, Runs, storeVars, workerVars, requestVars
<1>14. ASSUME NEW w \in Workers, ListRetryable(w)  PROVE CopiesCurrent'
  <2>1. pc[w] = "list" /\ UNCHANGED <<run, retryPc, retryCopy>> /\ pc' = [pc EXCEPT ![w] = "check"]
    BY <1>14 DEF ListRetryable, Goto, storeVars, workerVars, requestVars
  <2>2. copy'[w].version = copy[w].version /\ \A v \in Workers \ {w} : copy'[v] = copy[v]
    BY <1>14 DEF ListRetryable, Typed, TypeOK, Runs
  <2>3. work'[w].wasCancelled = work[w].wasCancelled /\ \A v \in Workers \ {w} : work'[v] = work[v]
    BY <1>14, Listed DEF ListRetryable
  <2>4. copy[w].version = run.version /\ ~work[w].wasCancelled /\ ~RunRests
    BY <1>0, <2>1 DEF CopiesCurrent, Working, Busy
  <2> QED
    BY <2>1, <2>2, <2>3, <2>4, QuietCopies DEF Typed, TypeOK
<1>15. ASSUME NEW w \in Workers, NextRetry(w)  PROVE CopiesCurrent'
  <2>1. pc[w] = "check" /\ UNCHANGED <<run, retryPc, retryCopy, copy>>
    BY <1>15 DEF NextRetry, storeVars, workerVars, requestVars
  <2>2. \/ pc' = [pc EXCEPT ![w] = "finish"] /\ work' = work
        \/ /\ pc' = [pc EXCEPT ![w] = "process"]
           /\ \E t \in work[w].todo : work' = [work EXCEPT ![w].todo = @ \ {t}, ![w].target = t]
    BY <1>15 DEF NextRetry, Goto
  <2> QED
    BY <1>0, <2>1, <2>2, TakenCopies
<1>16. ASSUME NEW w \in Workers, BlockTarget(w)  PROVE CopiesCurrent'
  <2>1. ~RunRests
    BY <1>0, <1>16 DEF BlockTarget, Busy
  <2> QED
    BY <1>16, <2>1, QuietCopies DEF BlockTarget, CopiesCurrent, Goto, Working, Counting, Typed, TypeOK, Works, Runs, storeVars, workerVars, requestVars
<1>17. ASSUME NEW w \in Workers, FetchTarget(w)  PROVE CopiesCurrent'
  <2>1. ~RunRests
    BY <1>0, <1>17 DEF FetchTarget, Busy
  <2> QED
    BY <1>17, <2>1, QuietCopies DEF FetchTarget, CopiesCurrent, Goto, Working, Counting, Typed, TypeOK, Works, Runs, storeVars, workerVars, requestVars
<1>18. ASSUME NEW w \in Workers, SavePage(w)  PROVE CopiesCurrent'
  <2>1. ~RunRests
    BY <1>0, <1>18 DEF SavePage, Busy
  <2> QED
    BY <1>18, <2>1, QuietCopies DEF SavePage, CopiesCurrent, Goto, Working, Counting, Typed, TypeOK, Works, Runs, storeVars, workerVars, requestVars
<1>19. ASSUME NEW w \in Workers, SaveTargetUpdate(w)  PROVE CopiesCurrent'
  <2>1. ~RunRests
    BY <1>0, <1>19 DEF SaveTargetUpdate, Busy
  <2> QED
    BY <1>19, <2>1, QuietCopies DEF SaveTargetUpdate, CopiesCurrent, Goto, Working, Counting, Typed, TypeOK, Works, Runs, storeVars, workerVars, requestVars
<1>20. ASSUME NEW w \in Workers, FinishRun(w)  PROVE CopiesCurrent'
  <2> DEFINE s == FinalStatus(copy[w].summary, work[w].homepageFailed, work[w].wasCancelled)
             c == [copy[w] EXCEPT !.status = s]
  <2>1. /\ pc[w] = "finish" /\ run' = StoredRun(c) /\ UNCHANGED <<retryPc, retryCopy>>
        /\ \A v \in Workers \ {w} : UNCHANGED <<pc[v], work[v], copy[v]>>
        /\ pc'[w] \in {"company", "idle"}
        /\ work'[w] = work[w] \/ work'[w] = NoWork
    BY <1>20 DEF FinishRun, Goto, EndJob, Typed, TypeOK, requestVars
  <2>2. s \in RunStatuses /\ s # "cancelled"
    BY CrawlRunAssumption DEF FinalStatus, RunStatuses, FinishedStatuses, CopiesCurrent
  <2>3. run'.version = run.version + 1 /\ run'.status = s
    BY <2>1, <2>2, WrittenRun
  <2>4. ~work'[w].wasCancelled
    BY <2>1 DEF CopiesCurrent, NoWork
  <2> QED
    BY <1>0, <2>1, <2>2, <2>3, <2>4, WrittenCopies DEF Busy, Working, Counting
<1>21. ASSUME NEW w \in Workers, FinishCompany(w)  PROVE CopiesCurrent'
  <2>1. /\ UNCHANGED <<run, retryPc, retryCopy, creator, jobs>>
        /\ pc[w] = "company" /\ pc'[w] = "idle" /\ work'[w] = NoWork
        /\ \A v \in Workers \ {w} : UNCHANGED <<pc[v], work[v], copy[v]>>
    BY <1>21 DEF FinishCompany, EndJob, Typed, TypeOK, storeVars, workerVars, requestVars
  <2>2. RunRests => RunRests'
    BY <2>1 DEF RunRests, Busy
  <2>3. ~work'[w].wasCancelled /\ pc'[w] \notin Working
    BY <2>1 DEF NoWork, Working, Counting
  <2> QED
    BY <2>1, <2>2, <2>3 DEF CopiesCurrent
<1>22. CASE UNCHANGED vars
  BY <1>22 DEF vars, CopiesCurrent, RunRests, Busy, storeVars, workerVars, requestVars
<1> QED
  BY <1>1, <1>2, <1>3, <1>4, <1>5, <1>6, <1>7, <1>8, <1>9, <1>10, <1>11, <1>12, <1>13, <1>14, <1>15, <1>16, <1>17, <1>18, <1>19, <1>20, <1>21, <1>22, UndisturbedCases DEF WorkerStep

-----------------------------------------------------------------------------
(* The targets of the job at work.                                         *)

\* A job starts without targets, holds the stored version of each it has not
\* processed, has at most one of them in hand, and ends without any.
HeldAt(w) ==
  /\ pc[w] \in {"idle", "load", "advance", "mark", "list"} => work[w] = NoWork
  /\ \A t \in Mine(w) : work[w].held[t] = targets[t].version
  /\ pc[w] \in {"process", "page", "target"} => work[w].target \notin work[w].todo
  /\ pc[w] \in {"finish", "company"} => work[w].todo = {}

HeldNow == \A w \in Workers : HeldAt(w)

\* Who is not at work holds nothing.
LEMMA IdleHolds ==
  ASSUME HeldNow, NEW v \in Workers, ~Busy(v)
  PROVE  Mine(v) = {} /\ work[v].todo = {}
BY DEF HeldNow, HeldAt, Busy, Mine, NoWork

LEMMA QuietHeld ==
  ASSUME HeldNow, UNCHANGED targets, NEW w \in Workers,
         \A v \in Workers \ {w} : UNCHANGED <<pc[v], work[v]>>, HeldAt(w)'
  PROVE  HeldNow'
BY DEF HeldNow, HeldAt, Mine

\* A step of the job at work only concerns its own targets.
LEMMA OwnHeld ==
  ASSUME HeldNow, OneAtWork, NEW w \in Workers, Busy(w),
         \A v \in Workers \ {w} : UNCHANGED <<pc[v], work[v]>>, HeldAt(w)'
  PROVE  HeldNow'
<1> SUFFICES ASSUME NEW v \in Workers, v # w  PROVE HeldAt(v)'
  BY DEF HeldNow
<1>1. ~Busy(v) /\ HeldAt(v) /\ Mine(v) = {}
  BY IdleHolds DEF OneAtWork, HeldNow
<1>2. Mine(v)' = Mine(v)
  BY DEF Mine
<1> QED
  BY <1>1, <1>2 DEF HeldAt

\* The loop over the targets takes the next one or ends.
LEMMA TakenHeld ==
  ASSUME Typed, HeldNow, OneAtWork, NEW w \in Workers, pc[w] = "check", UNCHANGED targets,
         \/ pc' = [pc EXCEPT ![w] = "finish"] /\ work' = work /\ work[w].todo = {}
         \/ /\ pc' = [pc EXCEPT ![w] = "process"]
            /\ \E t \in work[w].todo : work' = [work EXCEPT ![w].todo = @ \ {t}, ![w].target = t]
  PROVE  HeldNow'
<1>1. HeldAt(w) /\ Busy(w) /\ Mine(w) = work[w].todo
  BY DEF HeldNow, Busy, Mine
<1>2. \A v \in Workers \ {w} : pc'[v] = pc[v]
  BY DEF Typed, TypeOK
<1>3. CASE pc' = [pc EXCEPT ![w] = "finish"] /\ work' = work /\ work[w].todo = {}
  <2>1. HeldAt(w)'
    BY <1>1, <1>3 DEF HeldAt, Mine, Typed, TypeOK
  <2> QED
    BY <1>1, <1>2, <1>3, <2>1, OwnHeld
<1>4. ASSUME pc' = [pc EXCEPT ![w] = "process"], NEW t \in work[w].todo,
             work' = [work EXCEPT ![w].todo = @ \ {t}, ![w].target = t]
      PROVE  HeldNow'
  <2>1. /\ work'[w].todo = work[w].todo \ {t} /\ work'[w].target = t
        /\ work'[w].held = work[w].held
        /\ \A v \in Workers \ {w} : work'[v] = work[v]
    BY <1>4, Taken
  <2>2. pc'[w] = "process"
    BY <1>4 DEF Typed, TypeOK
  <2>3. Mine(w)' = Mine(w)
    BY <1>1, <2>1, <2>2 DEF Mine
  <2>4. HeldAt(w)'
    BY <1>1, <2>1, <2>2, <2>3 DEF HeldAt
  <2> QED
    BY <1>1, <1>2, <2>1, <2>4, OwnHeld
<1> QED
  BY <1>3, <1>4

LEMMA HeldStep ==
  ASSUME Undisturbed, Typed, Typed', CopiesCurrent, HeldNow, OneAtWork, [Next]_vars
  PROVE  HeldNow'
<1>0. \A v \in Workers : HeldAt(v)
  BY DEF HeldNow
<1>1. CASE EnqueueExecution \/ EnqueueExecutionFails
  BY <1>1 DEF EnqueueExecution, EnqueueExecutionFails, HeldNow, HeldAt, Mine, storeVars, workerVars, requestVars
<1>2. ASSUME NEW r \in RetryRequests, RetryLoad(r)  PROVE HeldNow'
  BY <1>2 DEF RetryLoad, HeldNow, HeldAt, Mine, storeVars, workerVars, requestVars
<1>3. ASSUME NEW r \in RetryRequests, RetryMark(r)  PROVE HeldNow'
  BY <1>3 DEF RetryMark, HeldNow, HeldAt, Mine, storeVars, workerVars, requestVars
<1>4. ASSUME NEW r \in RetryRequests, RetryEnqueue(r)  PROVE HeldNow'
  BY <1>4 DEF RetryEnqueue, HeldNow, HeldAt, Mine, storeVars, workerVars, requestVars
<1>5. ASSUME NEW w \in Workers, Dequeue(w)  PROVE HeldNow'
  <2>1. HeldAt(w)'
    BY <1>0, <1>5 DEF Dequeue, HeldAt, Mine, NoWork, Typed, TypeOK, storeVars, workerVars, requestVars
  <2> QED
    BY <1>5, <2>1, QuietHeld DEF Dequeue, Typed, TypeOK, storeVars, workerVars, requestVars
<1>6. ASSUME NEW w \in Workers, LoadExecution(w)  PROVE HeldNow'
  <2>1. HeldAt(w)'
    BY <1>0, <1>6 DEF LoadExecution, Goto, EndJob, HeldAt, Mine, NoWork, Typed, TypeOK, Works, storeVars, workerVars, requestVars
  <2> QED
    BY <1>6, <2>1, OwnHeld DEF LoadExecution, Busy, Goto, EndJob, Typed, TypeOK, storeVars, workerVars, requestVars
<1>7. ASSUME NEW w \in Workers, AdvanceToCrawling(w)  PROVE HeldNow'
  <2>1. HeldAt(w)'
    BY <1>0, <1>7 DEF AdvanceToCrawling, Goto, EndJob, HeldAt, Mine, NoWork, Typed, TypeOK, Works, storeVars, workerVars, requestVars
  <2> QED
    BY <1>7, <2>1, OwnHeld DEF AdvanceToCrawling, Busy, Goto, EndJob, Typed, TypeOK, storeVars, workerVars, requestVars
<1>8. ASSUME NEW w \in Workers, MarkRunning(w)  PROVE HeldNow'
  <2>1. HeldAt(w)'
    BY <1>0, <1>8 DEF MarkRunning, Goto, EndJob, HeldAt, Mine, NoWork, Typed, TypeOK, Works, storeVars, workerVars, requestVars
  <2> QED
    BY <1>8, <2>1, OwnHeld DEF MarkRunning, Busy, Goto, EndJob, Typed, TypeOK, storeVars, workerVars, requestVars
<1>9. ASSUME NEW w \in Workers, SaveTarget(w)  PROVE HeldNow'
  <2>1. PICK t \in Targets \ work[w].todo :
          /\ targets' = [targets EXCEPT ![t] = [status |-> "queued", version |-> 1]]
          /\ work' = [work EXCEPT ![w].todo = @ \cup {t}, ![w].held[t] = 1]
    BY <1>9 DEF SaveTarget
  <2>2. pc[w] = "select" /\ UNCHANGED pc
    BY <1>9 DEF SaveTarget
  <2>3. targets'[t].version = 1 /\ \A u \in Targets \ {t} : targets'[u] = targets[u]
    BY <2>1 DEF Typed, TypeOK
  <2>4. work'[w].held[t] = 1 /\ \A u \in Targets \ {t} : work'[w].held[u] = work[w].held[u]
    BY <2>1 DEF Typed, TypeOK, Works
  <2>5. work'[w].todo = work[w].todo \cup {t} /\ \A v \in Workers \ {w} : work'[v] = work[v]
    BY <2>1 DEF Typed, TypeOK, Works
  <2>6. Mine(w)' = Mine(w) \cup {t} /\ Mine(w) \subseteq Targets
    BY <2>2, <2>5, MineAreTargets DEF Mine
  <2>7. HeldAt(w)'
    BY <1>0, <2>2, <2>3, <2>4, <2>6 DEF HeldAt
  <2> QED
    BY <2>2, <2>5, <2>7, OwnHeld DEF Busy
<1>10. ASSUME NEW w \in Workers, SelectionDone(w)  PROVE HeldNow'
  <2>1. HeldAt(w)'
    BY <1>0, <1>10 DEF SelectionDone, Goto, EndJob, HeldAt, Mine, NoWork, Typed, TypeOK, Works, storeVars, workerVars, requestVars
  <2> QED
    BY <1>10, <2>1, OwnHeld DEF SelectionDone, Busy, Goto, EndJob, Typed, TypeOK, storeVars, workerVars, requestVars
<1>11. ASSUME NEW w \in Workers, CheckCancellation(w)  PROVE HeldNow'
  <2>1. pc[w] = "check" /\ UNCHANGED targets
    BY <1>11 DEF CheckCancellation, storeVars
  <2>2. \/ pc' = [pc EXCEPT ![w] = "finish"] /\ work' = work /\ work[w].todo = {}
        \/ /\ pc' = [pc EXCEPT ![w] = "process"]
           /\ \E t \in work[w].todo : work' = [work EXCEPT ![w].todo = @ \ {t}, ![w].target = t]
    BY <1>11 DEF CheckCancellation, SeenCancelled, CopiesCurrent, Goto
  <2> QED
    BY <2>1, <2>2, TakenHeld
<1>12. ASSUME NEW w \in Workers, SkipTarget(w)  PROVE HeldNow'
  BY <1>12 DEF SkipTarget, CopiesCurrent
<1>13. ASSUME NEW w \in Workers, LoadRetry(w)  PROVE HeldNow'
  <2>1. HeldAt(w)'
    BY <1>0, <1>13 DEF LoadRetry, Goto, EndJob, HeldAt, Mine, NoWork, Typed, TypeOK, Works, storeVars, workerVars, requestVars
  <2> QED
    BY <1>13, <2>1, OwnHeld DEF LoadRetry, Busy, Goto, EndJob, Typed, TypeOK, storeVars, workerVars, requestVars
<1>14. ASSUME NEW w \in Workers, ListRetryable(w)  PROVE HeldNow'
  <2>1. pc[w] = "list" /\ UNCHANGED targets /\ pc' = [pc EXCEPT ![w] = "check"]
    BY <1>14 DEF ListRetryable, Goto, storeVars, workerVars, requestVars
  <2> PICK h : h = [t \in Targets |-> targets[t].version]
    OBVIOUS
  <2> PICK S : S = WithStatus(RetryableStatuses)
    OBVIOUS
  <2>2. work' = [work EXCEPT ![w].todo = S, ![w].held = h]
    BY <1>14 DEF ListRetryable
  <2>3. work'[w].held = h /\ work'[w].todo = S /\ \A v \in Workers \ {w} : work'[v] = work[v]
    <3>1. work \in [Workers -> Works] /\ work[w] \in Works
      BY DEF Typed, TypeOK
    <3>2. /\ work'[w] = [work[w] EXCEPT !.todo = S, !.held = h]
          /\ \A v \in Workers \ {w} : work'[v] = work[v]
      BY <2>2, <3>1
    <3>3. [work[w] EXCEPT !.todo = S, !.held = h].held = h /\ [work[w] EXCEPT !.todo = S, !.held = h].todo = S
      BY <3>1 DEF Works
    <3> QED
      BY <3>2, <3>3
  <2>4. S \subseteq Targets /\ \A t \in Targets : h[t] = targets[t].version
    BY DEF WithStatus
  <2>5. pc'[w] = "check"
    BY <2>1 DEF Typed, TypeOK
  <2>6. HeldAt(w)'
    BY <2>1, <2>3, <2>4, <2>5 DEF HeldAt, Mine
  <2> QED
    BY <2>1, <2>3, <2>6, OwnHeld DEF Busy, Typed, TypeOK
<1>15. ASSUME NEW w \in Workers, NextRetry(w)  PROVE HeldNow'
  <2>1. pc[w] = "check" /\ UNCHANGED targets
    BY <1>15 DEF NextRetry, storeVars
  <2>2. \/ pc' = [pc EXCEPT ![w] = "finish"] /\ work' = work /\ work[w].todo = {}
        \/ /\ pc' = [pc EXCEPT ![w] = "process"]
           /\ \E t \in work[w].todo : work' = [work EXCEPT ![w].todo = @ \ {t}, ![w].target = t]
    BY <1>15 DEF NextRetry, SeenCancelled, CopiesCurrent, Goto
  <2> QED
    BY <2>1, <2>2, TakenHeld
<1>16. ASSUME NEW w \in Workers, BlockTarget(w)  PROVE HeldNow'
  <2>1. HeldAt(w)'
    BY <1>0, <1>16 DEF BlockTarget, Goto, EndJob, HeldAt, Mine, NoWork, Typed, TypeOK, Works, storeVars, workerVars, requestVars
  <2> QED
    BY <1>16, <2>1, OwnHeld DEF BlockTarget, Busy, Goto, EndJob, Typed, TypeOK, storeVars, workerVars, requestVars
<1>17. ASSUME NEW w \in Workers, FetchTarget(w)  PROVE HeldNow'
  <2>1. HeldAt(w)'
    BY <1>0, <1>17 DEF FetchTarget, Goto, EndJob, HeldAt, Mine, NoWork, Typed, TypeOK, Works, storeVars, workerVars, requestVars
  <2> QED
    BY <1>17, <2>1, OwnHeld DEF FetchTarget, Busy, Goto, EndJob, Typed, TypeOK, storeVars, workerVars, requestVars
<1>18. ASSUME NEW w \in Workers, SavePage(w)  PROVE HeldNow'
  <2>1. HeldAt(w)'
    BY <1>0, <1>18 DEF SavePage, Goto, EndJob, HeldAt, Mine, NoWork, Typed, TypeOK, Works, storeVars, workerVars, requestVars
  <2> QED
    BY <1>18, <2>1, OwnHeld DEF SavePage, Busy, Goto, EndJob, Typed, TypeOK, storeVars, workerVars, requestVars
<1>19. ASSUME NEW w \in Workers, SaveTargetUpdate(w)  PROVE HeldNow'
  <2> DEFINE t == work[w].target
  <2>1. /\ pc[w] = "target" /\ pc' = [pc EXCEPT ![w] = "check"] /\ t \in Targets
        /\ UpdateTarget(t, work[w].held[t], work[w].outcome)
    BY <1>19 DEF SaveTargetUpdate, Goto, Typed, StepOK
  <2>2. /\ \A v \in Workers \ {w} : work'[v] = work[v]
        /\ work'[w].todo = work[w].todo
        /\ work'[w].held = work[w].held
    BY <1>19 DEF SaveTargetUpdate, Typed, TypeOK, Works
  <2>3. \A u \in Targets \ {t} : targets'[u] = targets[u]
    BY <2>1, UpdateTargetFacts
  <2>4. pc'[w] = "check" /\ Mine(w)' = work[w].todo /\ t \notin work[w].todo /\ work[w].todo \subseteq Targets
    BY <1>0, <2>1, <2>2 DEF Mine, HeldAt, Typed, TypeOK, Works
  <2>5. \A u \in work[w].todo : work[w].held[u] = targets[u].version /\ targets'[u] = targets[u]
    BY <1>0, <2>3, <2>4 DEF HeldAt, Mine
  <2>6. HeldAt(w)'
    BY <2>2, <2>4, <2>5 DEF HeldAt
  <2> QED
    BY <2>1, <2>2, <2>6, OwnHeld DEF Busy, Typed, TypeOK
<1>20. ASSUME NEW w \in Workers, FinishRun(w)  PROVE HeldNow'
  <2>1. HeldAt(w)'
    BY <1>0, <1>20 DEF FinishRun, Goto, EndJob, HeldAt, Mine, NoWork, Typed, TypeOK, Works, storeVars, workerVars, requestVars
  <2> QED
    BY <1>20, <2>1, OwnHeld DEF FinishRun, Busy, Goto, EndJob, Typed, TypeOK, storeVars, workerVars, requestVars
<1>21. ASSUME NEW w \in Workers, FinishCompany(w)  PROVE HeldNow'
  <2>1. HeldAt(w)'
    BY <1>21 DEF FinishCompany, EndJob, HeldAt, Mine, NoWork, Typed, TypeOK, storeVars, workerVars, requestVars
  <2> QED
    BY <1>21, <2>1, QuietHeld DEF FinishCompany, EndJob, Typed, TypeOK, storeVars, workerVars, requestVars
<1>22. CASE UNCHANGED vars
  BY <1>22 DEF vars, HeldNow, HeldAt, Mine, storeVars, workerVars, requestVars
<1> QED
  BY <1>1, <1>2, <1>3, <1>4, <1>5, <1>6, <1>7, <1>8, <1>9, <1>10, <1>11, <1>12, <1>13, <1>14, <1>15, <1>16, <1>17, <1>18, <1>19, <1>20, <1>21, <1>22, UndisturbedCases DEF WorkerStep

-----------------------------------------------------------------------------
(* Counting targets.                                                       *)

\* The targets of S whose status, in the documents T, is in C.
In(T, S, C) == {t \in S : T[t].status \in C}

\* A summary counts the targets of S that were processed.
Tallied(T, s, S) ==
  /\ s.failed = Cardinality(In(T, S, FailedStatuses))
  /\ s.fetched = Cardinality(In(T, S, FetchedStatuses))
  /\ s.unchanged = Cardinality(In(T, S, {"unchanged"}))
  /\ s.blocked = Cardinality(In(T, S, {"blocked_by_robots"}))
  /\ s.skipped = 0

\* ... and the targets that were selected.
Selected(T, s) == s.selected = Cardinality(In(T, Targets, TargetStatuses \ {"absent"}))

Open == {"absent", "queued"}

\* Targets that were not processed yet may come and go.
LEMMA SameIn ==
  ASSUME NEW T, NEW T2, NEW S, NEW S2, NEW C,
         \A t \in S \cap S2 : T2[t].status = T[t].status,
         \A t \in S \ S2 : T[t].status \notin C,
         \A t \in S2 \ S : T2[t].status \notin C
  PROVE  In(T2, S2, C) = In(T, S, C)
BY DEF In

LEMMA SameTally ==
  ASSUME NEW T, NEW T2, NEW S, NEW S2, NEW s, NEW s2,
         Tallied(T, s, S),
         s2.failed = s.failed, s2.fetched = s.fetched, s2.unchanged = s.unchanged,
         s2.blocked = s.blocked, s2.skipped = s.skipped,
         \A t \in S \cap S2 : T2[t].status = T[t].status,
         \A t \in S \ S2 : T[t].status \in Open,
         \A t \in S2 \ S : T2[t].status \in Open
  PROVE  Tallied(T2, s2, S2)
<1>1. \A C \in {FailedStatuses, FetchedStatuses, {"unchanged"}, {"blocked_by_robots"}} :
        C \cap Open = {}
  BY DEF FailedStatuses, FetchedStatuses, Open
<1>2. \A C \in {FailedStatuses, FetchedStatuses, {"unchanged"}, {"blocked_by_robots"}} :
        In(T2, S2, C) = In(T, S, C)
  BY <1>1, SameIn
<1> QED
  BY <1>2 DEF Tallied

\* One more target is processed.
LEMMA OneMoreIn ==
  ASSUME NEW T, NEW T2, NEW S \in SUBSET Targets, NEW t \in Targets \ S,
         \A u \in S : T2[u] = T[u]
  PROVE  \A C :
           /\ T2[t].status \in C =>
                Cardinality(In(T2, S \cup {t}, C)) = Cardinality(In(T, S, C)) + 1
           /\ T2[t].status \notin C =>
                Cardinality(In(T2, S \cup {t}, C)) = Cardinality(In(T, S, C))
<1> TAKE C
<1>1. IsFiniteSet(In(T, S, C)) /\ t \notin In(T, S, C)
  BY CrawlRunAssumption, FS_Subset DEF In
<1>2. CASE T2[t].status \in C
  <2>1. In(T2, S \cup {t}, C) = In(T, S, C) \cup {t}
    BY <1>2 DEF In
  <2> QED
    BY <1>1, <1>2, <2>1, FS_AddElement
<1>3. CASE T2[t].status \notin C
  <2>1. In(T2, S \cup {t}, C) = In(T, S, C)
    BY <1>3 DEF In
  <2> QED
    BY <1>3, <2>1
<1> QED
  BY <1>2, <1>3

\* What counting an outcome changes.
One(o, C) == IF o \in C THEN 1 ELSE 0

Counted(s, o, c) == c = [s EXCEPT ![CounterOf(o)] = @ + 1]

Grown(s, o, c) ==
  /\ c.failed = s.failed + One(o, FailedStatuses)
  /\ c.fetched = s.fetched + One(o, FetchedStatuses)
  /\ c.unchanged = s.unchanged + One(o, {"unchanged"})
  /\ c.blocked = s.blocked + One(o, {"blocked_by_robots"})
  /\ c.skipped = s.skipped /\ c.selected = s.selected

LEMMA CountedFields ==
  ASSUME NEW s \in Summaries, NEW o \in PageStatuses \cup {"blocked_by_robots"},
         NEW c, Counted(s, o, c)
  PROVE  Grown(s, o, c)
<1> USE DEF Counted, Grown
<1>1. CASE o \in FailedStatuses
  <2>1. o \notin FetchedStatuses /\ o # "unchanged" /\ o # "blocked_by_robots"
    BY <1>1 DEF FailedStatuses, FetchedStatuses
  <2>2. CounterOf(o) = "failed"
    BY <1>1, <2>1 DEF CounterOf
  <2> QED
    BY <1>1, <2>1, <2>2 DEF Summaries, One
<1>2. CASE o \in FetchedStatuses
  <2>1. o \notin FailedStatuses /\ o # "unchanged" /\ o # "blocked_by_robots"
    BY <1>2 DEF FailedStatuses, FetchedStatuses
  <2>2. CounterOf(o) = "fetched"
    BY <1>2, <2>1 DEF CounterOf
  <2> QED
    BY <1>2, <2>1, <2>2 DEF Summaries, One
<1>3. CASE o = "unchanged"
  <2>1. o \notin FailedStatuses /\ o \notin FetchedStatuses /\ o # "blocked_by_robots"
    BY <1>3 DEF FailedStatuses, FetchedStatuses
  <2>2. CounterOf(o) = "unchanged"
    BY <1>3, <2>1 DEF CounterOf
  <2> QED
    BY <1>3, <2>1, <2>2 DEF Summaries, One
<1>4. CASE o = "blocked_by_robots"
  <2>1. o \notin FailedStatuses /\ o \notin FetchedStatuses /\ o # "unchanged"
    BY <1>4 DEF FailedStatuses, FetchedStatuses
  <2>2. CounterOf(o) = "blocked"
    BY <1>4, <2>1 DEF CounterOf
  <2> QED
    BY <1>4, <2>1, <2>2 DEF Summaries, One
<1> QED
  BY <1>1, <1>2, <1>3, <1>4 DEF PageStatuses

LEMMA OneMoreTallied ==
  ASSUME NEW T, NEW T2, NEW S \in SUBSET Targets, NEW t \in Targets \ S,
         \A u \in S : T2[u] = T[u], NEW o, T2[t].status = o,
         NEW s, NEW c, Tallied(T, s, S), Grown(s, o, c)
  PROVE  Tallied(T2, c, S \cup {t})
<1> SUFFICES ASSUME NEW C
             PROVE  Cardinality(In(T2, S \cup {t}, C)) = Cardinality(In(T, S, C)) + One(o, C)
  BY DEF Tallied, Grown
<1>1. Cardinality(In(T, S, C)) \in Nat
  BY CrawlRunAssumption, FS_Subset, FS_CardinalityType DEF In
<1>2. /\ T2[t].status \in C =>
           Cardinality(In(T2, S \cup {t}, C)) = Cardinality(In(T, S, C)) + 1
      /\ T2[t].status \notin C =>
           Cardinality(In(T2, S \cup {t}, C)) = Cardinality(In(T, S, C))
  BY OneMoreIn
<1> QED
  BY <1>1, <1>2 DEF One

-----------------------------------------------------------------------------
(* The counters and the verdict.                                           *)

HomepageFailed(T, S) == Homepage \in In(T, S, FailedStatuses)

\* The status StatusAccurate wants, for the documents T.
Verdict(T, warned) ==
  IF HomepageFailed(T, Targets) THEN HomepageFailureStatus
  ELSE IF Cardinality(In(T, Targets, FailedStatuses)) = 0 THEN
    IF warned THEN "completed_with_warnings" ELSE "completed"
  ELSE IF Cardinality(In(T, Targets, FetchedStatuses \cup {"unchanged"})) = 0 THEN "failed"
  ELSE "completed_with_warnings"

\* The copy of the job at work counts the targets that the job does not
\* hold any more; the homepage's failure is known to the job that saw it.
CopyAt(w) ==
  pc[w] \in Working =>
    /\ Tallied(targets, copy[w].summary, Targets \ Mine(w))
    /\ pc[w] # "select" => Selected(targets, copy[w].summary)
    /\ pc[w] # "list" => (work[w].homepageFailed <=> HomepageFailed(targets, Targets \ Mine(w)))

\* The stored run counts all targets, but while a job is changing them.
RunTallied ==
  /\ Tallied(targets, run.summary, Targets)
  /\ Selected(targets, run.summary)
  /\ run.status \in FinishedStatuses => run.status = Verdict(targets, run.summary.warned)

CountsOK ==
  /\ \A t \in Targets : targets[t].status # "skipped"
  /\ (\A w \in Workers : pc[w] \notin Counting) => RunTallied
  /\ \A w \in Workers : CopyAt(w)

\* _determine_final_status gives the verdict.
LEMMA FinalVerdict ==
  ASSUME NEW T, NEW s, Tallied(T, s, Targets), NEW b, b <=> HomepageFailed(T, Targets),
         NEW c, ~c
  PROVE  FinalStatus(s, b, c) = Verdict(T, s.warned)
<1>1. \A C : IsFiniteSet(In(T, Targets, C)) /\ Cardinality(In(T, Targets, C)) \in Nat
  BY CrawlRunAssumption, FS_Subset, FS_CardinalityType DEF In
<1>2. \A C : Cardinality(In(T, Targets, C)) = 0 <=> In(T, Targets, C) = {}
  BY <1>1, FS_EmptySet
<1>3. In(T, Targets, FetchedStatuses \cup {"unchanged"}) = {} <=>
        In(T, Targets, FetchedStatuses) = {} /\ In(T, Targets, {"unchanged"}) = {}
  BY DEF In
<1>4. Cardinality(In(T, Targets, FetchedStatuses \cup {"unchanged"})) = 0 <=>
        s.fetched = 0 /\ s.unchanged = 0
  BY <1>2, <1>3 DEF Tallied
<1>5. s.failed = Cardinality(In(T, Targets, FailedStatuses)) /\ s.failed \in Nat
  BY <1>1 DEF Tallied
<1>6. CASE HomepageFailed(T, Targets)
  BY <1>6 DEF FinalStatus, Verdict
<1>7. CASE ~HomepageFailed(T, Targets)
  BY <1>4, <1>5, <1>7 DEF FinalStatus, Verdict
<1> QED
  BY <1>6, <1>7

\* Taking the counters of the listed targets back leaves those of the others.
LEMMA ListedTallied ==
  ASSUME Typed, NEW s, NEW c, Tallied(targets, s, Targets),
         c.failed = Less(s.failed, Cardinality(WithStatus(FailedStatuses))),
         c.blocked = Less(s.blocked, Cardinality(WithStatus(RetryableStatuses \ FailedStatuses))),
         c.fetched = s.fetched, c.unchanged = s.unchanged, c.skipped = s.skipped
  PROVE  Tallied(targets, c, Targets \ WithStatus(RetryableStatuses))
<1> DEFINE S == Targets \ WithStatus(RetryableStatuses)
           N(C) == Cardinality(In(targets, Targets, C))
<1>1. \A C : In(targets, Targets, C) = WithStatus(C)
  BY DEF In, WithStatus
<1>2. \A C : N(C) \in Nat
  BY CrawlRunAssumption, FS_Subset, FS_CardinalityType DEF In
<1>3. c.failed = 0 /\ In(targets, S, FailedStatuses) = {}
  <2>1. s.failed = N(FailedStatuses) /\ Cardinality(WithStatus(FailedStatuses)) = N(FailedStatuses)
    BY <1>1 DEF Tallied
  <2>2. c.failed = 0
    BY <1>2, <2>1 DEF Less
  <2>3. In(targets, S, FailedStatuses) = {}
    BY DEF In, WithStatus, RetryableStatuses
  <2> QED
    BY <2>2, <2>3
<1>4. c.blocked = Cardinality(In(targets, S, {"blocked_by_robots"}))
  <2>1. CASE RetryIncludesBlocked
    <3>1. RetryableStatuses \ FailedStatuses = {"blocked_by_robots"}
      BY <2>1 DEF RetryableStatuses, FailedStatuses
    <3>2. s.blocked = N({"blocked_by_robots"})
          /\ Cardinality(WithStatus({"blocked_by_robots"})) = N({"blocked_by_robots"})
      BY <1>1 DEF Tallied
    <3>3. c.blocked = 0
      BY <1>2, <3>1, <3>2 DEF Less
    <3>4. In(targets, S, {"blocked_by_robots"}) = {}
      BY <2>1 DEF In, WithStatus, RetryableStatuses
    <3> QED
      BY <3>3, <3>4, FS_EmptySet
  <2>2. CASE ~RetryIncludesBlocked
    <3>1. RetryableStatuses \ FailedStatuses = {}
      BY <2>2 DEF RetryableStatuses
    <3>2. Cardinality(WithStatus({})) = 0
      <4>1. WithStatus({}) = {}
        BY DEF WithStatus
      <4> QED
        BY <4>1, FS_EmptySet
    <3>3. In(targets, S, {"blocked_by_robots"}) = In(targets, Targets, {"blocked_by_robots"})
      BY <2>2 DEF In, WithStatus, RetryableStatuses, FailedStatuses
    <3>4. s.blocked = N({"blocked_by_robots"}) /\ s.blocked \in Nat
      BY <1>2 DEF Tallied
    <3>5. c.blocked = s.blocked
      BY <3>1, <3>2, <3>4 DEF Less
    <3> QED
      BY <3>3, <3>4, <3>5
  <2> QED
    BY <2>1, <2>2
<1>5. /\ In(targets, S, FetchedStatuses) = In(targets, Targets, FetchedStatuses)
      /\ In(targets, S, {"unchanged"}) = In(targets, Targets, {"unchanged"})
  BY DEF In, WithStatus, RetryableStatuses, FailedStatuses, FetchedStatuses
<1>6. s.fetched = N(FetchedStatuses) /\ s.unchanged = N({"unchanged"}) /\ s.skipped = 0
  BY DEF Tallied
<1>7. Cardinality(In(targets, S, FailedStatuses)) = 0
  BY <1>3, FS_EmptySet
<1> QED
  BY <1>3, <1>4, <1>5, <1>6, <1>7 DEF Tallied

\* A step of the job at work while it changes targets.
LEMMA OwnCounts ==
  ASSUME CountsOK, OneAtWork, NEW w \in Workers, Busy(w), pc'[w] \in Counting,
         \A v \in Workers \ {w} : UNCHANGED pc[v],
         \A t \in Targets : targets'[t].status # "skipped", CopyAt(w)'
  PROVE  CountsOK'
<1>1. \A v \in Workers \ {w} : pc'[v] \notin Working
  BY DEF OneAtWork, Busy, Working, Counting
<1>2. \A v \in Workers : CopyAt(v)'
  BY <1>1 DEF CopyAt
<1> QED
  BY <1>2 DEF CountsOK

\* A step of a job before that, or after it.
LEMMA OtherCounts ==
  ASSUME CountsOK, NEW w \in Workers, UNCHANGED <<run, targets>>,
         pc[w] \notin Counting, pc'[w] \notin Counting,
         \A v \in Workers \ {w} : UNCHANGED <<pc[v], work[v], copy[v]>>, CopyAt(w)'
  PROVE  CountsOK'
<1>1. \A v \in Workers \ {w} : CopyAt(v)'
  BY DEF CountsOK, CopyAt, Mine
<1>2. (\A v \in Workers : pc'[v] \notin Counting) => \A v \in Workers : pc[v] \notin Counting
  OBVIOUS
<1>3. RunTallied => RunTallied'
  BY DEF RunTallied
<1> QED
  BY <1>1, <1>2, <1>3 DEF CountsOK

\* The job at work finds the run tallied.
LEMMA FoundTallied ==
  ASSUME CountsOK, OneAtWork, NEW w \in Workers, Busy(w), pc[w] \notin Counting
  PROVE  RunTallied
<1>1. \A v \in Workers : pc[v] \notin Counting
  BY DEF OneAtWork, Busy, Counting
<1> QED
  BY <1>1 DEF CountsOK

\* A step that neither counts nor takes or gives away a target.
LEMMA SameCopy ==
  ASSUME CountsOK, NEW w \in Workers, pc[w] \in Working, UNCHANGED targets,
         pc[w] # "list", pc[w] # "select" \/ pc'[w] = "select",
         Mine(w)' = Mine(w), work'[w].homepageFailed = work[w].homepageFailed,
         \A f \in {"selected", "fetched", "unchanged", "failed", "blocked", "skipped"} :
           copy'[w].summary[f] = copy[w].summary[f]
  PROVE  CopyAt(w)'
<1>1. CopyAt(w)
  BY DEF CountsOK
<1>2. PICK S : S = Targets \ Mine(w)
  OBVIOUS
<1>3. Tallied(targets, copy'[w].summary, S)
  BY <1>1, <1>2 DEF CopyAt, Tallied
<1>4. pc'[w] # "select" => Selected(targets, copy'[w].summary)
  BY <1>1 DEF CopyAt, Selected
<1>5. work'[w].homepageFailed <=> HomepageFailed(targets, S)
  BY <1>1, <1>2 DEF CopyAt
<1>6. (Targets \ Mine(w))' = S
  BY <1>2
<1> QED
  BY <1>2, <1>3, <1>4, <1>5, <1>6 DEF CopyAt

LEMMA StillCounts ==
  ASSUME CountsOK, UNCHANGED <<pc, targets, work, copy, run>>
  PROVE  CountsOK'
BY DEF CountsOK, CopyAt, RunTallied, Mine

\* What a retry's listing does to the copy and to the worker's variables.
LEMMA ListedSummary ==
  ASSUME Typed, NEW w \in Workers, ListRetryable(w)
  PROVE  /\ copy'[w].summary.failed =
              Less(copy[w].summary.failed, Cardinality(WithStatus(FailedStatuses)))
         /\ copy'[w].summary.blocked =
              Less(copy[w].summary.blocked, Cardinality(WithStatus(RetryableStatuses \ FailedStatuses)))
         /\ \A f \in {"selected", "fetched", "unchanged", "skipped"} :
              copy'[w].summary[f] = copy[w].summary[f]
<1> PICK s, c : s = copy[w].summary /\ c = copy'[w].summary
  OBVIOUS
<1> PICK m : m = Less(s.failed, Cardinality(WithStatus(FailedStatuses)))
  OBVIOUS
<1> PICK n : n = Less(s.blocked, Cardinality(WithStatus(RetryableStatuses \ FailedStatuses)))
  OBVIOUS
<1>1. copy \in [Workers -> Runs] /\ copy[w] \in Runs /\ s \in Summaries
  BY DEF Typed, TypeOK, Runs
<1>2. copy' = [copy EXCEPT ![w].summary.failed = m, ![w].summary.blocked = n]
  BY DEF ListRetryable
<1>3. c = [s EXCEPT !.failed = m, !.blocked = n]
  BY <1>1, <1>2 DEF Runs
<1> QED
  BY <1>1, <1>3 DEF Summaries

LEMMA ListedWork ==
  ASSUME Typed, NEW w \in Workers, ListRetryable(w)
  PROVE  /\ work'[w].todo = WithStatus(RetryableStatuses)
         /\ work'[w].homepageFailed = work[w].homepageFailed
<1> PICK h : h = [t \in Targets |-> targets[t].version]
  OBVIOUS
<1> PICK S : S = WithStatus(RetryableStatuses)
  OBVIOUS
<1>1. work \in [Workers -> Works] /\ work[w] \in Works
  BY DEF Typed, TypeOK
<1>2. work' = [work EXCEPT ![w].todo = S, ![w].held = h]
  BY DEF ListRetryable
<1>3. work'[w] = [work[w] EXCEPT !.todo = S, !.held = h]
  BY <1>1, <1>2
<1>4. /\ [work[w] EXCEPT !.todo = S, !.held = h].homepageFailed = work[w].homepageFailed
      /\ [work[w] EXCEPT !.todo = S, !.held = h].todo = S
  BY <1>1 DEF Works
<1> QED
  BY <1>3, <1>4

\* What counting an outcome does to the copy.
LEMMA CountedCopy ==
  ASSUME Typed, NEW w \in Workers, NEW o \in PageStatuses \cup {"blocked_by_robots"},
         copy' = [copy EXCEPT ![w].summary[CounterOf(o)] = @ + 1]
  PROVE  Grown(copy[w].summary, o, copy'[w].summary)
<1>1. copy \in [Workers -> Runs] /\ copy[w] \in Runs /\ copy[w].summary \in Summaries
  BY DEF Typed, TypeOK, Runs
<1>2. Counted(copy[w].summary, o, copy'[w].summary)
  BY <1>1 DEF Runs, Counted
<1> QED
  BY <1>1, <1>2, CountedFields

\* An update of a target that is held in its stored version.
LEMMA UpdatedTarget ==
  ASSUME Typed, NEW t \in Targets, NEW v, NEW o, UpdateTarget(t, v, o), targets[t].version = v
  PROVE  targets'[t].status = o /\ \A u \in Targets \ {t} : targets'[u] = targets[u]
<1>1. targets' = [targets EXCEPT ![t] = [status |-> o, version |-> v + 1]]
  BY DEF UpdateTarget
<1> QED
  BY <1>1 DEF Typed, TypeOK

LEMMA CountsStep ==
  ASSUME Undisturbed, TargetsInv, TargetsInv', CopiesCurrent, HeldNow, HeldNow', CountsOK,
         OneAtWork, [Next]_vars
  PROVE  CountsOK'
<1> USE DEF TargetsInv
<1>0. \A v \in Workers : HeldAt(v) /\ HeldAt(v)' /\ CopyAt(v)
  BY DEF HeldNow, CountsOK
<1>1. CASE EnqueueExecution \/ EnqueueExecutionFails
  <2>1. UNCHANGED <<pc, targets, work, copy, run>>
    BY <1>1 DEF EnqueueExecution, EnqueueExecutionFails, storeVars, workerVars, requestVars
  <2> QED
    BY <2>1, StillCounts
<1>2. ASSUME NEW r \in RetryRequests, RetryLoad(r)  PROVE CountsOK'
  <2>1. UNCHANGED <<pc, targets, work, copy, run>>
    BY <1>2 DEF RetryLoad, storeVars, workerVars, requestVars
  <2> QED
    BY <2>1, StillCounts
<1>3. ASSUME NEW r \in RetryRequests, RetryMark(r)  PROVE CountsOK'
  <2> DEFINE c == [retryCopy[r] EXCEPT !.status = "queued"]
  <2>1. /\ retryPc[r] = "loaded" /\ run' = StoredRun(c)
        /\ UNCHANGED <<pc, targets, work, copy>>
    BY <1>3 DEF RetryMark, workerVars
  <2>2. CASE RunRests
    <3>1. retryCopy[r] = run
      BY <2>1, <2>2 DEF RunRests
    <3>2. run'.summary = run.summary /\ run'.status = "queued"
      BY <2>1, <3>1 DEF StoredRun, Fresh, Typed, TypeOK, Runs
    <3>3. "queued" \notin FinishedStatuses
      BY DEF FinishedStatuses
    <3>4. RunTallied => RunTallied'
      BY <2>1, <3>2, <3>3 DEF RunTallied, Tallied, Selected
    <3>5. \A v \in Workers : CopyAt(v)'
      BY <1>0, <2>1 DEF CopyAt, Mine
    <3> QED
      BY <2>1, <3>4, <3>5 DEF CountsOK
  <2>3. CASE ~RunRests
    <3>1. retryCopy[r].version < run.version
      BY <2>1, <2>3, CopiesAreOld
    <3>2. run' = run
      BY <2>1, <3>1 DEF StoredRun, Fresh, Typed, TypeOK, Runs
    <3> QED
      BY <2>1, <3>2, StillCounts
  <2> QED
    BY <2>2, <2>3
<1>4. ASSUME NEW r \in RetryRequests, RetryEnqueue(r)  PROVE CountsOK'
  <2>1. UNCHANGED <<pc, targets, work, copy, run>>
    BY <1>4 DEF RetryEnqueue, storeVars, workerVars, requestVars
  <2> QED
    BY <2>1, StillCounts
<1>5. ASSUME NEW w \in Workers, Dequeue(w)  PROVE CountsOK'
  <2>1. /\ UNCHANGED <<run, targets>> /\ pc[w] = "idle" /\ pc'[w] = "load"
        /\ \A v \in Workers \ {w} : UNCHANGED <<pc[v], work[v], copy[v]>>
    BY <1>5 DEF Dequeue, Typed, TypeOK, storeVars, workerVars, requestVars
  <2>2. CopyAt(w)'
    BY <2>1 DEF CopyAt, Working, Counting
  <2> QED
    BY <2>1, <2>2, OtherCounts DEF Counting
<1>6. ASSUME NEW w \in Workers, LoadExecution(w)  PROVE CountsOK'
  <2>1. /\ UNCHANGED <<run, targets>> /\ pc[w] = "load" /\ job[w] = "execute"
        /\ copy' = [copy EXCEPT ![w] = run] /\ pc' = [pc EXCEPT ![w] = "advance"] /\ UNCHANGED work
    BY <1>6 DEF LoadExecution, CopiesCurrent, Goto, storeVars, workerVars, requestVars
  <2>2. /\ \A v \in Workers \ {w} : UNCHANGED <<pc[v], work[v], copy[v]>>
        /\ pc'[w] = "advance" /\ copy'[w] = run
    BY <2>1 DEF Typed, TypeOK
  <2>3. RunTallied
    BY <2>1, FoundTallied DEF Busy, Counting
  <2>4. /\ work[w] = NoWork /\ work'[w] = work[w] /\ (Targets \ Mine(w))' = Targets
    <3>1. work[w] = NoWork /\ work'[w] = work[w]
      BY <1>0, <2>1 DEF HeldAt
    <3>2. NoWork.todo = {}
      BY DEF NoWork
    <3> QED
      BY <2>2, <3>1, <3>2 DEF Mine
  <2>5. ~HomepageFailed(targets, Targets)
    <3>1. \A t \in Targets : targets[t].status = "absent"
      BY <1>0, <2>1 DEF SelectionOK, HeldAt, NoWork
    <3>2. "absent" \notin FailedStatuses
      BY DEF FailedStatuses
    <3> QED
      BY <3>1, <3>2 DEF HomepageFailed, In
  <2>6. work'[w].homepageFailed <=> HomepageFailed(targets, Targets)
    <3>1. NoWork.homepageFailed = FALSE
      BY DEF NoWork
    <3> QED
      BY <2>4, <2>5, <3>1 DEF HomepageFailed
  <2>7. CopyAt(w)'
    BY <2>1, <2>2, <2>3, <2>4, <2>6 DEF CopyAt, RunTallied
  <2> QED
    BY <2>1, <2>2, <2>7, OtherCounts DEF Counting
<1>7. ASSUME NEW w \in Workers, AdvanceToCrawling(w)  PROVE CountsOK'
  <2>1. /\ UNCHANGED <<run, targets>> /\ pc[w] = "advance" /\ pc'[w] = "mark"
        /\ \A v \in Workers \ {w} : UNCHANGED <<pc[v], work[v], copy[v]>>
        /\ UNCHANGED <<work[w], copy[w]>>
    BY <1>7 DEF AdvanceToCrawling, Goto, Typed, TypeOK, storeVars, workerVars, requestVars
  <2>2. Mine(w)' = Mine(w)
    BY <2>1 DEF Mine
  <2>3. CopyAt(w)'
    BY <2>1, <2>2, SameCopy DEF Working
  <2> QED
    BY <2>1, <2>3, OtherCounts DEF Counting
<1>8. ASSUME NEW w \in Workers, MarkRunning(w)  PROVE CountsOK'
  <2>1. Busy(w) /\ pc'[w] \in Counting /\ UNCHANGED targets
        /\ \A v \in Workers \ {w} : UNCHANGED pc[v]
    BY <1>8 DEF MarkRunning, SeenCancelled, CopiesCurrent, Goto, Busy, Counting, Typed, TypeOK, storeVars, workerVars, requestVars
  <2>2. CopyAt(w)'
    <3>1. pc[w] \in Working /\ pc[w] # "list" /\ (pc[w] # "select" \/ pc'[w] = "select")
      BY <1>8 DEF MarkRunning, Goto, Working, Counting, Typed, TypeOK
    <3>2. copy'[w].summary = copy[w].summary
      BY <1>8 DEF MarkRunning, ReturnedRun, Fresh, Typed, TypeOK, Runs
    <3>3. Mine(w)' = Mine(w) /\ work'[w].homepageFailed = work[w].homepageFailed
      BY <1>8 DEF MarkRunning, Goto, Mine, Typed, TypeOK
    <3> QED
      BY <2>1, <3>1, <3>2, <3>3, SameCopy
  <2> QED
    BY <2>1, <2>2, OwnCounts DEF CountsOK
<1>9. ASSUME NEW w \in Workers, SaveTarget(w)  PROVE CountsOK'
  <2>1. PICK t \in Targets \ work[w].todo :
          /\ targets' = [targets EXCEPT ![t] = [status |-> "queued", version |-> 1]]
          /\ work' = [work EXCEPT ![w].todo = @ \cup {t}, ![w].held[t] = 1]
    BY <1>9 DEF SaveTarget
  <2>2. pc[w] = "select" /\ UNCHANGED <<pc, copy>> /\ job[w] = "execute"
    BY <1>9 DEF SaveTarget, Typed, StepOK
  <2>3. targets[t].status = "absent" /\ targets'[t].status = "queued"
        /\ \A u \in Targets \ {t} : targets'[u] = targets[u]
    BY <2>1, <2>2 DEF SelectionOK, Typed, TypeOK
  <2>4. work'[w].todo = work[w].todo \cup {t} /\ work'[w].homepageFailed = work[w].homepageFailed
    BY <2>1 DEF Typed, TypeOK, Works
  <2>5. Mine(w)' = Mine(w) \cup {t}
    BY <2>2, <2>4 DEF Mine
  <2> PICK S : S = Targets \ Mine(w)
    OBVIOUS
  <2> PICK S2 : S2 = Targets \ (Mine(w) \cup {t})
    OBVIOUS
  <2>6. /\ \A u \in S \cap S2 : targets'[u].status = targets[u].status
        /\ \A u \in S \ S2 : targets[u].status \in Open
        /\ \A u \in S2 \ S : targets'[u].status \in Open
    BY <2>3 DEF Open
  <2>7. Tallied(targets, copy[w].summary, S) /\ (work[w].homepageFailed <=> HomepageFailed(targets, S))
    BY <1>0, <2>2 DEF CopyAt, Working, Counting
  <2>8. Tallied(targets', copy[w].summary, S2)
    BY <2>6, <2>7, SameTally
  <2>9. HomepageFailed(targets', S2) = HomepageFailed(targets, S)
    <3>1. FailedStatuses \cap Open = {}
      BY DEF FailedStatuses, Open
    <3>2. In(targets', S2, FailedStatuses) = In(targets, S, FailedStatuses)
      BY <2>6, <3>1, SameIn
    <3> QED
      BY <3>2 DEF HomepageFailed
  <2>10. CopyAt(w)'
    BY <2>2, <2>4, <2>5, <2>7, <2>8, <2>9 DEF CopyAt
  <2>11. \A u \in Targets : targets'[u].status # "skipped"
    BY <2>3 DEF CountsOK
  <2> QED
    BY <2>2, <2>10, <2>11, OwnCounts DEF Busy, Counting
<1>10. ASSUME NEW w \in Workers, SelectionDone(w)  PROVE CountsOK'
  <2>1. /\ pc[w] = "select" /\ job[w] = "execute" /\ UNCHANGED <<targets, work>>
        /\ copy' = [copy EXCEPT ![w].summary.selected = Cardinality(work[w].todo)]
        /\ pc' = [pc EXCEPT ![w] = "check"]
    BY <1>10 DEF SelectionDone, Goto, Typed, StepOK, storeVars
  <2>2. pc'[w] = "check" /\ \A v \in Workers \ {w} : UNCHANGED pc[v]
    BY <2>1 DEF Typed, TypeOK
  <2>3. /\ copy'[w].summary.selected = Cardinality(work[w].todo)
        /\ \A f \in {"fetched", "unchanged", "failed", "blocked", "skipped"} :
              copy'[w].summary[f] = copy[w].summary[f]
    BY <2>1 DEF Typed, TypeOK, Runs, Summaries
  <2>4. Mine(w)' = Mine(w) /\ Mine(w) = work[w].todo /\ work[w].todo \subseteq Targets
    BY <2>1, <2>2, MineAreTargets DEF Mine
  <2>5. In(targets, Targets, TargetStatuses \ {"absent"}) = work[w].todo
    <3>1. \A t \in Targets : targets[t].status \in TargetStatuses
      BY DEF Typed, TypeOK, TargetDocs
    <3>2. \A t \in Targets : targets[t].status # "absent" <=> t \in work[w].todo
      BY <2>1, <2>4 DEF SelectionOK, HoldsOK, HeldOK
    <3> QED
      BY <2>4, <3>1, <3>2 DEF In
  <2>6. CopyAt(w)'
    <3>1. PICK S : S = Targets \ Mine(w)
      OBVIOUS
    <3>2. Tallied(targets, copy[w].summary, S) /\ (work[w].homepageFailed <=> HomepageFailed(targets, S))
      BY <1>0, <2>1, <3>1 DEF CopyAt, Working, Counting
    <3>3. Tallied(targets, copy'[w].summary, S)
      BY <2>3, <3>2 DEF Tallied
    <3>4. Selected(targets, copy'[w].summary)
      BY <2>3, <2>5 DEF Selected
    <3> QED
      BY <2>1, <2>4, <3>1, <3>2, <3>3, <3>4 DEF CopyAt
  <2> QED
    BY <2>1, <2>2, <2>6, OwnCounts DEF Busy, Counting, CountsOK
<1>11. ASSUME NEW w \in Workers, CheckCancellation(w)  PROVE CountsOK'
  <2>0. pc' = [pc EXCEPT ![w] = "finish"] \/ pc' = [pc EXCEPT ![w] = "process"]
    BY <1>11 DEF CheckCancellation, SeenCancelled, CopiesCurrent, Goto
  <2>1. Busy(w) /\ pc'[w] \in Counting /\ UNCHANGED targets
        /\ \A v \in Workers \ {w} : UNCHANGED pc[v]
    BY <1>11, <2>0 DEF CheckCancellation, SeenCancelled, CopiesCurrent, Goto, Busy, Counting, Typed, TypeOK, storeVars, workerVars, requestVars
  <2>2. CopyAt(w)'
    <3>1. pc[w] \in Working /\ pc[w] # "list" /\ (pc[w] # "select" \/ pc'[w] = "select")
      BY <1>11 DEF CheckCancellation, Goto, Working, Counting, Typed, TypeOK
    <3>2. copy'[w].summary = copy[w].summary
      BY <1>11 DEF CheckCancellation, Typed, TypeOK
    <3>3. Mine(w)' = Mine(w) /\ work'[w].homepageFailed = work[w].homepageFailed
      <4>1. \/ pc' = [pc EXCEPT ![w] = "finish"] /\ work' = work
            \/ /\ pc' = [pc EXCEPT ![w] = "process"]
               /\ \E t \in work[w].todo : work' = [work EXCEPT ![w].todo = @ \ {t}, ![w].target = t]
        BY <1>11 DEF CheckCancellation, SeenCancelled, CopiesCurrent, Goto
      <4>2. pc[w] = "check" /\ Mine(w) = work[w].todo
        BY <1>11 DEF CheckCancellation, Mine
      <4>3. CASE pc' = [pc EXCEPT ![w] = "finish"] /\ work' = work
        BY <4>2, <4>3 DEF Mine, Typed, TypeOK
      <4>4. ASSUME pc' = [pc EXCEPT ![w] = "process"], NEW t \in work[w].todo,
                   work' = [work EXCEPT ![w].todo = @ \ {t}, ![w].target = t]
            PROVE  Mine(w)' = Mine(w) /\ work'[w].homepageFailed = work[w].homepageFailed
        <5>1. /\ work'[w].todo = work[w].todo \ {t} /\ work'[w].target = t
              /\ work'[w].homepageFailed = work[w].homepageFailed
          BY <4>4, Taken
        <5>2. pc'[w] = "process"
          BY <4>4 DEF Typed, TypeOK
        <5> QED
          BY <4>2, <5>1, <5>2 DEF Mine
      <4> QED
        BY <4>1, <4>3, <4>4
    <3> QED
      BY <2>1, <3>1, <3>2, <3>3, SameCopy
  <2> QED
    BY <2>1, <2>2, OwnCounts DEF CountsOK
<1>12. ASSUME NEW w \in Workers, SkipTarget(w)  PROVE CountsOK'
  BY <1>12 DEF SkipTarget, CopiesCurrent
<1>13. ASSUME NEW w \in Workers, LoadRetry(w)  PROVE CountsOK'
  <2>1. /\ UNCHANGED <<run, targets>> /\ pc[w] = "load"
        /\ copy' = [copy EXCEPT ![w] = run] /\ pc' = [pc EXCEPT ![w] = "list"] /\ UNCHANGED work
    BY <1>13 DEF LoadRetry, Goto, storeVars, workerVars, requestVars
  <2>2. /\ \A v \in Workers \ {w} : UNCHANGED <<pc[v], work[v], copy[v]>>
        /\ pc'[w] = "list" /\ copy'[w] = run
    BY <2>1 DEF Typed, TypeOK
  <2>3. RunTallied
    BY <2>1, FoundTallied DEF Busy, Counting
  <2>4. (Targets \ Mine(w))' = Targets
    BY <1>0, <2>1, <2>2 DEF HeldAt, Mine, NoWork
  <2>5. CopyAt(w)'
    BY <2>1, <2>2, <2>3, <2>4 DEF CopyAt, RunTallied
  <2> QED
    BY <2>1, <2>2, <2>5, OtherCounts DEF Counting
<1>14. ASSUME NEW w \in Workers, ListRetryable(w)  PROVE CountsOK'
  <2>1. pc[w] = "list" /\ UNCHANGED targets /\ pc' = [pc EXCEPT ![w] = "check"]
    BY <1>14 DEF ListRetryable, Goto, storeVars
  <2>2. pc'[w] = "check" /\ \A v \in Workers \ {w} : UNCHANGED pc[v]
    BY <2>1 DEF Typed, TypeOK
  <2> PICK s, c : s = copy[w].summary /\ c = copy'[w].summary
    OBVIOUS
  <2>3. /\ c.failed = Less(s.failed, Cardinality(WithStatus(FailedStatuses)))
        /\ c.blocked = Less(s.blocked, Cardinality(WithStatus(RetryableStatuses \ FailedStatuses)))
        /\ c.fetched = s.fetched /\ c.unchanged = s.unchanged /\ c.skipped = s.skipped
        /\ c.selected = s.selected
    BY <1>14, ListedSummary
  <2>4. /\ work'[w].todo = WithStatus(RetryableStatuses)
        /\ work'[w].homepageFailed = work[w].homepageFailed
    BY <1>14, ListedWork
  <2>5. Mine(w)' = WithStatus(RetryableStatuses)
    BY <2>2, <2>4 DEF Mine
  <2>6. Tallied(targets, s, Targets) /\ Selected(targets, s)
    <3>1. Targets \ Mine(w) = Targets
      BY <1>0, <2>1 DEF HeldAt, Mine, NoWork
    <3> QED
      BY <1>0, <2>1, <3>1 DEF CopyAt, Working
  <2> PICK S : S = Targets \ WithStatus(RetryableStatuses)
    OBVIOUS
  <2>7. Tallied(targets, c, S)
    BY <2>3, <2>6, ListedTallied
  <2>8. ~HomepageFailed(targets, S) /\ ~work[w].homepageFailed
    BY <1>0, <2>1 DEF HomepageFailed, In, WithStatus, RetryableStatuses, HeldAt, NoWork
  <2>9. (Targets \ Mine(w))' = S
    BY <2>5
  <2>10. work'[w].homepageFailed <=> HomepageFailed(targets, S)
    BY <2>4, <2>8 DEF HomepageFailed, HeldAt, Typed, TypeOK, Works
  <2>11. Selected(targets, c)
    BY <2>3, <2>6 DEF Selected
  <2>12. CopyAt(w)'
    BY <2>1, <2>7, <2>9, <2>10, <2>11 DEF CopyAt
  <2> QED
    BY <2>1, <2>2, <2>12, OwnCounts DEF Busy, Counting, CountsOK
<1>15. ASSUME NEW w \in Workers, NextRetry(w)  PROVE CountsOK'
  <2>0. pc' = [pc EXCEPT ![w] = "finish"] \/ pc' = [pc EXCEPT ![w] = "process"]
    BY <1>15 DEF NextRetry, SeenCancelled, CopiesCurrent, Goto
  <2>1. Busy(w) /\ pc'[w] \in Counting /\ UNCHANGED targets
        /\ \A v \in Workers \ {w} : UNCHANGED pc[v]
    BY <1>15, <2>0 DEF NextRetry, SeenCancelled, CopiesCurrent, Goto, Busy, Counting, Typed, TypeOK, storeVars, workerVars, requestVars
  <2>2. CopyAt(w)'
    <3>1. pc[w] \in Working /\ pc[w] # "list" /\ (pc[w] # "select" \/ pc'[w] = "select")
      BY <1>15 DEF NextRetry, Goto, Working, Counting, Typed, TypeOK
    <3>2. copy'[w].summary = copy[w].summary
      BY <1>15 DEF NextRetry, Typed, TypeOK
    <3>3. Mine(w)' = Mine(w) /\ work'[w].homepageFailed = work[w].homepageFailed
      <4>1. \/ pc' = [pc EXCEPT ![w] = "finish"] /\ work' = work
            \/ /\ pc' = [pc EXCEPT ![w] = "process"]
               /\ \E t \in work[w].todo : work' = [work EXCEPT ![w].todo = @ \ {t}, ![w].target = t]
        BY <1>15 DEF NextRetry, SeenCancelled, CopiesCurrent, Goto
      <4>2. pc[w] = "check" /\ Mine(w) = work[w].todo
        BY <1>15 DEF NextRetry, Mine
      <4>3. CASE pc' = [pc EXCEPT ![w] = "finish"] /\ work' = work
        BY <4>2, <4>3 DEF Mine, Typed, TypeOK
      <4>4. ASSUME pc' = [pc EXCEPT ![w] = "process"], NEW t \in work[w].todo,
                   work' = [work EXCEPT ![w].todo = @ \ {t}, ![w].target = t]
            PROVE  Mine(w)' = Mine(w) /\ work'[w].homepageFailed = work[w].homepageFailed
        <5>1. /\ work'[w].todo = work[w].todo \ {t} /\ work'[w].target = t
              /\ work'[w].homepageFailed = work[w].homepageFailed
          BY <4>4, Taken
        <5>2. pc'[w] = "process"
          BY <4>4 DEF Typed, TypeOK
        <5> QED
          BY <4>2, <5>1, <5>2 DEF Mine
      <4> QED
        BY <4>1, <4>3, <4>4
    <3> QED
      BY <2>1, <3>1, <3>2, <3>3, SameCopy
  <2> QED
    BY <2>1, <2>2, OwnCounts DEF CountsOK
<1>16. ASSUME NEW w \in Workers, BlockTarget(w)  PROVE CountsOK'
  <2>1. Busy(w) /\ pc'[w] \in Counting /\ UNCHANGED targets
        /\ \A v \in Workers \ {w} : UNCHANGED pc[v]
    BY <1>16 DEF BlockTarget, SeenCancelled, CopiesCurrent, Goto, Busy, Counting, Typed, TypeOK, storeVars, workerVars, requestVars
  <2>2. CopyAt(w)'
    <3>1. pc[w] \in Working /\ pc[w] # "list" /\ (pc[w] # "select" \/ pc'[w] = "select")
      BY <1>16 DEF BlockTarget, Goto, Working, Counting, Typed, TypeOK
    <3>2. copy'[w].summary = copy[w].summary
      BY <1>16 DEF BlockTarget, Typed, TypeOK
    <3>3. Mine(w)' = Mine(w) /\ work'[w].homepageFailed = work[w].homepageFailed
      BY <1>16 DEF BlockTarget, Goto, Mine, Typed, TypeOK, Works
    <3> QED
      BY <2>1, <3>1, <3>2, <3>3, SameCopy
  <2> QED
    BY <2>1, <2>2, OwnCounts DEF CountsOK
<1>17. ASSUME NEW w \in Workers, FetchTarget(w)  PROVE CountsOK'
  <2>1. Busy(w) /\ pc'[w] \in Counting /\ UNCHANGED targets
        /\ \A v \in Workers \ {w} : UNCHANGED pc[v]
    BY <1>17 DEF FetchTarget, SeenCancelled, CopiesCurrent, Goto, Busy, Counting, Typed, TypeOK, storeVars, workerVars, requestVars
  <2>2. CopyAt(w)'
    <3>1. pc[w] \in Working /\ pc[w] # "list" /\ (pc[w] # "select" \/ pc'[w] = "select")
      BY <1>17 DEF FetchTarget, Goto, Working, Counting, Typed, TypeOK
    <3>2. \A f \in {"selected", "fetched", "unchanged", "failed", "blocked", "skipped"} :
            copy'[w].summary[f] = copy[w].summary[f]
      <4>1. PICK warned \in BOOLEAN : copy' = [copy EXCEPT ![w].summary.warned = @ \/ warned]
        BY <1>17 DEF FetchTarget
      <4>2. copy \in [Workers -> Runs] /\ copy[w] \in Runs /\ copy[w].summary \in Summaries
        BY DEF Typed, TypeOK, Runs
      <4>3. copy'[w].summary = [copy[w].summary EXCEPT !.warned = @ \/ warned]
        BY <4>1, <4>2 DEF Runs
      <4> QED
        BY <4>2, <4>3 DEF Summaries
    <3>3. Mine(w)' = Mine(w) /\ work'[w].homepageFailed = work[w].homepageFailed
      BY <1>17 DEF FetchTarget, Goto, Mine, Typed, TypeOK, Works
    <3> QED
      BY <2>1, <3>1, <3>2, <3>3, SameCopy
  <2> QED
    BY <2>1, <2>2, OwnCounts DEF CountsOK
<1>18. ASSUME NEW w \in Workers, SavePage(w)  PROVE CountsOK'
  <2>1. Busy(w) /\ pc'[w] \in Counting /\ UNCHANGED targets
        /\ \A v \in Workers \ {w} : UNCHANGED pc[v]
    BY <1>18 DEF SavePage, SeenCancelled, CopiesCurrent, Goto, Busy, Counting, Typed, TypeOK, storeVars, workerVars, requestVars
  <2>2. CopyAt(w)'
    <3>1. pc[w] \in Working /\ pc[w] # "list" /\ (pc[w] # "select" \/ pc'[w] = "select")
      BY <1>18 DEF SavePage, Goto, Working, Counting, Typed, TypeOK
    <3>2. copy'[w].summary = copy[w].summary
      BY <1>18 DEF SavePage, Typed, TypeOK
    <3>3. Mine(w)' = Mine(w) /\ work'[w].homepageFailed = work[w].homepageFailed
      BY <1>18 DEF SavePage, Goto, Mine, Typed, TypeOK, Works
    <3> QED
      BY <2>1, <3>1, <3>2, <3>3, SameCopy
  <2> QED
    BY <2>1, <2>2, OwnCounts DEF CountsOK
<1>19. ASSUME NEW w \in Workers, SaveTargetUpdate(w)  PROVE CountsOK'
  <2> PICK t, o : t = work[w].target /\ o = work[w].outcome
    OBVIOUS
  <2>1. /\ pc[w] = "target" /\ pc' = [pc EXCEPT ![w] = "check"] /\ t \in Targets
        /\ UpdateTarget(t, work[w].held[t], o)
        /\ o \in PageStatuses \cup {"blocked_by_robots"}
        /\ copy' = [copy EXCEPT ![w].summary[CounterOf(o)] = @ + 1]
    BY <1>19 DEF SaveTargetUpdate, Goto, Typed, StepOK
  <2>2. pc'[w] = "check" /\ \A v \in Workers \ {w} : UNCHANGED pc[v]
    BY <2>1 DEF Typed, TypeOK
  <2>3. /\ work'[w].todo = work[w].todo
        /\ work'[w].homepageFailed <=>
             work[w].homepageFailed \/ (t = Homepage /\ o \in FailedStatuses)
    BY <1>19 DEF SaveTargetUpdate, Typed, TypeOK, Works
  <2>4. /\ Mine(w)' = work[w].todo /\ Mine(w) = work[w].todo \cup {t}
        /\ t \notin work[w].todo /\ work[w].todo \subseteq Targets
    BY <1>0, <2>1, <2>2, <2>3, MineAreTargets DEF Mine, HeldAt
  <2>5. targets[t].version = work[w].held[t]
    BY <1>0, <2>4 DEF HeldAt
  <2>6. targets'[t].status = o /\ \A u \in Targets \ {t} : targets'[u] = targets[u]
    BY <2>1, <2>5, UpdatedTarget
  <2>7. targets[t].status # "absent"
    BY <2>4 DEF HoldsOK, HeldOK
  <2> PICK S : S = Targets \ Mine(w)
    OBVIOUS
  <2>8. S \in SUBSET Targets /\ t \in Targets \ S /\ (Targets \ Mine(w))' = S \cup {t}
        /\ \A u \in S : targets'[u] = targets[u]
    BY <2>1, <2>4, <2>6
  <2> PICK s, c : s = copy[w].summary /\ c = copy'[w].summary
    OBVIOUS
  <2>9. /\ Tallied(targets, s, S) /\ Selected(targets, s)
        /\ work[w].homepageFailed <=> HomepageFailed(targets, S)
    BY <1>0, <2>1 DEF CopyAt, Working, Counting
  <2>10. Grown(s, o, c)
    BY <2>1, CountedCopy
  <2>11. Tallied(targets', c, S \cup {t})
    BY <2>6, <2>8, <2>9, <2>10, OneMoreTallied
  <2>12. Selected(targets', c)
    <3>1. In(targets', Targets, TargetStatuses \ {"absent"}) = In(targets, Targets, TargetStatuses \ {"absent"})
      <4>1. o \in TargetStatuses /\ o # "absent"
        BY <2>1 DEF TargetStatuses, PageStatuses, FailedStatuses, FetchedStatuses
      <4>2. \A u \in Targets : targets[u].status \in TargetStatuses
        BY DEF Typed, TypeOK, TargetDocs
      <4> QED
        BY <2>6, <2>7, <4>1, <4>2 DEF In
    <3> QED
      BY <2>9, <2>10, <3>1 DEF Selected, Grown
  <2>13. work'[w].homepageFailed <=> HomepageFailed(targets', S \cup {t})
    <3>1. HomepageFailed(targets', S \cup {t}) <=>
            HomepageFailed(targets, S) \/ (t = Homepage /\ o \in FailedStatuses)
      BY <2>6, <2>8 DEF HomepageFailed, In
    <3> QED
      BY <2>3, <2>9, <3>1 DEF HomepageFailed
  <2>14. CopyAt(w)'
    BY <2>8, <2>11, <2>12, <2>13 DEF CopyAt
  <2>15. \A u \in Targets : targets'[u].status # "skipped"
    BY <2>1, <2>6 DEF CountsOK, PageStatuses, FailedStatuses, FetchedStatuses
  <2> QED
    BY <2>1, <2>2, <2>14, <2>15, OwnCounts DEF Busy, Counting
<1>20. ASSUME NEW w \in Workers, FinishRun(w)  PROVE CountsOK'
  <2>1. /\ pc[w] = "finish" /\ UNCHANGED targets /\ pc'[w] \in {"company", "idle"}
        /\ \A v \in Workers \ {w} : UNCHANGED <<pc[v], work[v], copy[v]>>
    BY <1>20 DEF FinishRun, Goto, EndJob, Typed, TypeOK
  <2> PICK s, h : s = copy[w].summary /\ h = FinalStatus(s, work[w].homepageFailed, work[w].wasCancelled)
    OBVIOUS
  <2>2. h \in RunStatuses
    BY FinalStatusType DEF Typed, TypeOK, Runs, Works
  <2>3. run'.summary = s /\ run'.status = h
    BY <1>20, <2>1, <2>2, WrittenRun DEF FinishRun
  <2>4. (Targets \ Mine(w)) = Targets
    BY <1>0, <2>1 DEF HeldAt, Mine
  <2>5. /\ Tallied(targets, s, Targets) /\ Selected(targets, s)
        /\ work[w].homepageFailed <=> HomepageFailed(targets, Targets)
    BY <1>0, <2>1, <2>4 DEF CopyAt, Working, Counting
  <2>6. work[w].wasCancelled = FALSE
    BY DEF CopiesCurrent, Typed, TypeOK, Works
  <2>7. h = Verdict(targets, s.warned)
    BY <2>5, <2>6, FinalVerdict
  <2>8. RunTallied'
    BY <2>1, <2>3, <2>5, <2>7 DEF RunTallied
  <2>9. \A v \in Workers : pc'[v] \notin Working
    BY <2>1 DEF OneAtWork, Busy, Working, Counting
  <2>10. \A v \in Workers : CopyAt(v)'
    BY <2>9 DEF CopyAt
  <2> QED
    BY <2>1, <2>8, <2>10 DEF CountsOK
<1>21. ASSUME NEW w \in Workers, FinishCompany(w)  PROVE CountsOK'
  <2>1. /\ UNCHANGED <<run, targets>> /\ pc[w] = "company" /\ pc'[w] = "idle"
        /\ \A v \in Workers \ {w} : UNCHANGED <<pc[v], work[v], copy[v]>>
    BY <1>21 DEF FinishCompany, EndJob, Typed, TypeOK, storeVars, workerVars, requestVars
  <2>2. CopyAt(w)'
    BY <2>1 DEF CopyAt, Working, Counting
  <2> QED
    BY <2>1, <2>2, OtherCounts DEF Counting
<1>22. CASE UNCHANGED vars
  <2>1. UNCHANGED <<pc, targets, work, copy, run>>
    BY <1>22 DEF vars, storeVars, workerVars, requestVars
  <2> QED
    BY <2>1, StillCounts
<1> QED
  BY <1>1, <1>2, <1>3, <1>4, <1>5, <1>6, <1>7, <1>8, <1>9, <1>10, <1>11, <1>12, <1>13, <1>14, <1>15, <1>16, <1>17, <1>18, <1>19, <1>20, <1>21, <1>22, UndisturbedCases DEF WorkerStep

-----------------------------------------------------------------------------
(* Pages.                                                                  *)

\* The worker has stored the page of t, and is about to write t.
InHand(w, t) ==
  pc[w] = "target" /\ work[w].target = t /\ work[w].outcome \in PageStatuses

Matches(t) ==
  CASE targets[t].status \in PageStatuses -> pages[t] = targets[t].status
    [] targets[t].status = "blocked_by_robots" -> pages[t] \in FailedStatuses \cup {"absent"}
    [] OTHER -> pages[t] = "absent"

\* The page of a target matches it, but while the target is to follow.
PagesNow ==
  \A t \in Targets :
    /\ \A w \in Workers : InHand(w, t) => pages[t] = work[w].outcome
    /\ (\A w \in Workers : ~InHand(w, t)) => Matches(t)

\* A target that is not settled shows no result but a failure.
LEMMA OpenStatus ==
  ASSUME Typed, NEW t \in Targets, targets[t].status \notin Settled,
         targets[t].status # "absent"
  PROVE  targets[t].status \in FailedStatuses \cup {"queued", "blocked_by_robots"}
BY DEF Typed, TypeOK, TargetDocs, TargetStatuses, PageStatuses, Settled

\* A step that stores nothing and puts nothing else in hand.
LEMMA QuietPagesNow ==
  ASSUME PagesNow, UNCHANGED <<targets, pages>>,
         \A v \in Workers : \/ UNCHANGED <<pc[v], work[v]>>
                            \/ pc[v] # "target" /\ (pc'[v] = "target" => work'[v].outcome \notin PageStatuses)
  PROVE  PagesNow'
<1>1. \A v \in Workers, t \in Targets : InHand(v, t)' <=> InHand(v, t)
  BY DEF InHand
<1>2. \A v \in Workers, t \in Targets : InHand(v, t) => work'[v].outcome = work[v].outcome
  BY DEF InHand
<1>3. \A t \in Targets : Matches(t)' <=> Matches(t)
  BY DEF Matches
<1> QED
  BY <1>1, <1>2, <1>3 DEF PagesNow

LEMMA PagesNowStep ==
  ASSUME Undisturbed, TargetsInv, CopiesCurrent, HeldNow, OneAtWork, PagesNow, [Next]_vars
  PROVE  PagesNow'
<1> USE DEF TargetsInv
<1>0. \A v, w \in Workers : pc[v] = "target" /\ pc[w] \in Counting => v = w
  BY DEF OneAtWork, Busy, Counting
<1>1. CASE EnqueueExecution \/ EnqueueExecutionFails
  BY <1>1, QuietPagesNow DEF EnqueueExecution, EnqueueExecutionFails, storeVars, workerVars
<1>2. ASSUME NEW r \in RetryRequests, RetryLoad(r)  PROVE PagesNow'
  BY <1>2, QuietPagesNow DEF RetryLoad, storeVars, workerVars
<1>3. ASSUME NEW r \in RetryRequests, RetryMark(r)  PROVE PagesNow'
  BY <1>3, QuietPagesNow DEF RetryMark, storeVars, workerVars
<1>4. ASSUME NEW r \in RetryRequests, RetryEnqueue(r)  PROVE PagesNow'
  BY <1>4, QuietPagesNow DEF RetryEnqueue, storeVars, workerVars
<1>5. ASSUME NEW w \in Workers, Dequeue(w)  PROVE PagesNow'
  BY <1>5, QuietPagesNow DEF Dequeue, Goto, CopiesCurrent, Typed, TypeOK, storeVars, workerVars
<1>6. ASSUME NEW w \in Workers, LoadExecution(w)  PROVE PagesNow'
  BY <1>6, QuietPagesNow DEF LoadExecution, Goto, EndJob, CopiesCurrent, Typed, TypeOK, storeVars, workerVars
<1>7. ASSUME NEW w \in Workers, AdvanceToCrawling(w)  PROVE PagesNow'
  BY <1>7, QuietPagesNow DEF AdvanceToCrawling, Goto, CopiesCurrent, Typed, TypeOK, storeVars, workerVars
<1>8. ASSUME NEW w \in Workers, MarkRunning(w)  PROVE PagesNow'
  BY <1>8, QuietPagesNow DEF MarkRunning, Goto, CopiesCurrent, Typed, TypeOK, storeVars, workerVars
<1>9. ASSUME NEW w \in Workers, SaveTarget(w)  PROVE PagesNow'
  <2>1. PICK t \in Targets \ work[w].todo :
          targets' = [targets EXCEPT ![t] = [status |-> "queued", version |-> 1]]
    BY <1>9 DEF SaveTarget
  <2>2. pc[w] = "select" /\ UNCHANGED <<pc, pages>> /\ job[w] = "execute"
    BY <1>9 DEF SaveTarget, Typed, StepOK
  <2>3. targets[t].status = "absent" /\ targets'[t].status = "queued"
        /\ \A u \in Targets \ {t} : targets'[u] = targets[u]
    BY <2>1, <2>2 DEF SelectionOK, Typed, TypeOK
  <2>4. \A v \in Workers : pc[v] # "target"
    BY <1>0, <2>2 DEF Counting
  <2>5. \A u \in Targets : Matches(u)
    BY <2>4 DEF PagesNow, InHand
  <2>6. Matches(t)'
    <3>1. {"absent", "queued"} \cap (PageStatuses \cup {"blocked_by_robots"}) = {}
      BY DEF PageStatuses, FailedStatuses, FetchedStatuses
    <3>2. pages[t] = "absent"
      BY <2>3, <2>5, <3>1 DEF Matches
    <3> QED
      BY <2>2, <2>3, <3>1, <3>2 DEF Matches
  <2>7. \A u \in Targets : Matches(u)'
    BY <2>2, <2>3, <2>5, <2>6 DEF Matches
  <2> QED
    BY <2>2, <2>4, <2>7 DEF PagesNow, InHand
<1>10. ASSUME NEW w \in Workers, SelectionDone(w)  PROVE PagesNow'
  BY <1>10, QuietPagesNow DEF SelectionDone, Goto, CopiesCurrent, Typed, TypeOK, storeVars, workerVars
<1>11. ASSUME NEW w \in Workers, CheckCancellation(w)  PROVE PagesNow'
  BY <1>11, QuietPagesNow DEF CheckCancellation, Goto, SeenCancelled, CopiesCurrent, Typed, TypeOK, storeVars, workerVars
<1>12. ASSUME NEW w \in Workers, SkipTarget(w)  PROVE PagesNow'
  BY <1>12 DEF SkipTarget, CopiesCurrent
<1>13. ASSUME NEW w \in Workers, LoadRetry(w)  PROVE PagesNow'
  BY <1>13, QuietPagesNow DEF LoadRetry, Goto, CopiesCurrent, Typed, TypeOK, storeVars, workerVars
<1>14. ASSUME NEW w \in Workers, ListRetryable(w)  PROVE PagesNow'
  BY <1>14, QuietPagesNow DEF ListRetryable, Goto, CopiesCurrent, Typed, TypeOK, storeVars, workerVars
<1>15. ASSUME NEW w \in Workers, NextRetry(w)  PROVE PagesNow'
  BY <1>15, QuietPagesNow DEF NextRetry, Goto, CopiesCurrent, Typed, TypeOK, storeVars, workerVars
<1>16. ASSUME NEW w \in Workers, BlockTarget(w)  PROVE PagesNow'
  <2>1. "blocked_by_robots" \notin PageStatuses
    BY DEF PageStatuses, FailedStatuses, FetchedStatuses
  <2> QED
    BY <1>16, <2>1, QuietPagesNow DEF BlockTarget, Goto, Typed, TypeOK, Works, storeVars
<1>17. ASSUME NEW w \in Workers, FetchTarget(w)  PROVE PagesNow'
  BY <1>17, QuietPagesNow DEF FetchTarget, Goto, CopiesCurrent, Typed, TypeOK, storeVars, workerVars
<1>18. ASSUME NEW w \in Workers, SavePage(w)  PROVE PagesNow'
  <2> PICK t, o : t = work[w].target /\ o = work[w].outcome
    OBVIOUS
  <2>1. /\ pc[w] = "page" /\ pages' = [pages EXCEPT ![t] = o] /\ UNCHANGED <<targets, work>>
        /\ t \in Targets /\ o \in PageStatuses /\ pc' = [pc EXCEPT ![w] = "target"]
    BY <1>18 DEF SavePage, StorePage, Goto, Typed, StepOK
  <2>2. /\ pages'[t] = o /\ \A u \in Targets \ {t} : pages'[u] = pages[u]
        /\ pc'[w] = "target" /\ \A v \in Workers \ {w} : pc'[v] = pc[v] /\ pc[v] # "target"
    BY <1>0, <2>1 DEF Counting, Typed, TypeOK
  <2>3. InHand(w, t)' /\ \A v \in Workers, u \in Targets : InHand(v, u)' => v = w /\ u = t
    BY <2>1, <2>2 DEF InHand
  <2>4. \A u \in Targets \ {t} : Matches(u)'
    <3>1. \A v \in Workers : pc[v] # "target"
      BY <2>1, <2>2
    <3> QED
      BY <2>1, <2>2, <3>1 DEF PagesNow, InHand, Matches
  <2> QED
    BY <2>1, <2>2, <2>3, <2>4 DEF PagesNow
<1>19. ASSUME NEW w \in Workers, SaveTargetUpdate(w)  PROVE PagesNow'
  <2> PICK t, o : t = work[w].target /\ o = work[w].outcome
    OBVIOUS
  <2>1. /\ pc[w] = "target" /\ pc' = [pc EXCEPT ![w] = "check"] /\ t \in Targets /\ UNCHANGED pages
        /\ UpdateTarget(t, work[w].held[t], o)
        /\ o \in PageStatuses \cup {"blocked_by_robots"}
    BY <1>19 DEF SaveTargetUpdate, Goto, Typed, StepOK
  <2>2. \A v \in Workers : pc'[v] # "target" /\ (pc[v] = "target" => v = w)
    BY <1>0, <2>1 DEF Counting, Typed, TypeOK
  <2>3. t \in Mine(w) /\ targets[t].version = work[w].held[t]
    BY <2>1 DEF Mine, HeldNow, HeldAt
  <2>4. targets'[t].status = o /\ \A u \in Targets \ {t} : targets'[u] = targets[u]
    BY <2>1, <2>3, UpdatedTarget
  <2>5. \A u \in Targets \ {t} : Matches(u)'
    BY <2>1, <2>2, <2>4 DEF PagesNow, InHand, Matches
  <2>6. CASE o \in PageStatuses
    <3>1. pages[t] = o
      BY <2>1, <2>6 DEF PagesNow, InHand
    <3>2. Matches(t)'
      BY <2>1, <2>4, <2>6, <3>1 DEF Matches, PageStatuses, FailedStatuses, FetchedStatuses
    <3> QED
      BY <2>2, <2>5, <3>2 DEF PagesNow, InHand
  <2>7. CASE o \notin PageStatuses
    <3>1. Matches(t)
      BY <2>1, <2>2, <2>7 DEF PagesNow, InHand
    <3>2. targets[t].status \in FailedStatuses \cup {"queued", "blocked_by_robots"}
      BY <2>1, <2>3, OpenStatus DEF HoldsOK, HeldOK
    <3>3. pages[t] \in FailedStatuses \cup {"absent"}
      BY <3>1, <3>2 DEF Matches, PageStatuses, FailedStatuses, FetchedStatuses
    <3>4. Matches(t)'
      BY <2>1, <2>4, <2>7, <3>3 DEF Matches
    <3> QED
      BY <2>2, <2>5, <3>4 DEF PagesNow, InHand
  <2> QED
    BY <2>6, <2>7
<1>20. ASSUME NEW w \in Workers, FinishRun(w)  PROVE PagesNow'
  BY <1>20, QuietPagesNow DEF FinishRun, Goto, EndJob, CopiesCurrent, Typed, TypeOK, storeVars, workerVars
<1>21. ASSUME NEW w \in Workers, FinishCompany(w)  PROVE PagesNow'
  BY <1>21, QuietPagesNow DEF FinishCompany, Goto, EndJob, CopiesCurrent, Typed, TypeOK, storeVars, workerVars
<1>22. CASE UNCHANGED vars
  BY <1>22, QuietPagesNow DEF vars, storeVars, workerVars
<1> QED
  BY <1>1, <1>2, <1>3, <1>4, <1>5, <1>6, <1>7, <1>8, <1>9, <1>10, <1>11, <1>12, <1>13, <1>14, <1>15, <1>16, <1>17, <1>18, <1>19, <1>20, <1>21, <1>22, UndisturbedCases DEF WorkerStep

-----------------------------------------------------------------------------
(* The theorems.                                                           *)

CalmInv ==
  TargetsInv /\ ExecutionFirst /\ CopiesCurrent /\ HeldNow /\ CountsOK /\ PagesNow

LEMMA InitCalm == Init => CalmInv
<1> SUFFICES ASSUME Init  PROVE CalmInv
  OBVIOUS
<1>1. TargetsInv
  <2>1. OneExecution /\ SelectionOK
    BY DEF Init, OneExecution, SelectionOK
  <2>2. HoldsOK
    BY DEF Init, HoldsOK, Mine, NoWork
  <2> QED
    BY <2>1, <2>2, InitTyped DEF TargetsInv
<1>2. ExecutionFirst /\ CopiesCurrent
  BY DEF Init, ExecutionFirst, CopiesCurrent, NoWork, Working, Counting
<1>3. HeldNow
  BY DEF Init, HeldNow, HeldAt, Mine, NoWork
<1>4. \A t \in Targets : targets[t].status = "absent"
  BY DEF Init
<1>5. CountsOK
  <2>1. \A C : "absent" \notin C => In(targets, Targets, C) = {}
    BY <1>4 DEF In
  <2>2. \A C : "absent" \notin C => Cardinality(In(targets, Targets, C)) = 0
    BY <2>1, FS_EmptySet
  <2>3. run.summary = EmptySummary /\ run.status = "queued"
    BY DEF Init
  <2>4. Tallied(targets, run.summary, Targets)
    BY <2>2, <2>3 DEF Tallied, EmptySummary, FailedStatuses, FetchedStatuses
  <2>5. Selected(targets, run.summary)
    BY <2>2, <2>3 DEF Selected, EmptySummary
  <2>6. RunTallied
    BY <2>3, <2>4, <2>5 DEF RunTallied, FinishedStatuses
  <2>7. \A w \in Workers : CopyAt(w)
    BY DEF Init, CopyAt, Working, Counting
  <2> QED
    BY <1>4, <2>6, <2>7 DEF CountsOK
<1>6. PagesNow
  <2>1. \A t \in Targets : Matches(t)
    BY <1>4 DEF Init, Matches, PageStatuses, FailedStatuses, FetchedStatuses
  <2> QED
    BY <2>1 DEF Init, PagesNow, InHand
<1> QED
  BY <1>1, <1>2, <1>3, <1>5, <1>6 DEF CalmInv

\* The behaviours in which clients wait for the run to rest before they ask
\* for a retry, and one job of the run is at work at a time.
CalmSpec == Spec /\ []OneAtWork /\ [][RetriesWait]_vars

LEMMA CalmInvariant ==
  ASSUME Undisturbed
  PROVE  CalmSpec => []CalmInv
<1>1. CalmInv /\ OneAtWork /\ TargetsInv' /\ [Next]_vars /\ [RetriesWait]_vars => CalmInv'
  <2> SUFFICES ASSUME CalmInv, OneAtWork, TargetsInv', [Next]_vars, [RetriesWait]_vars
               PROVE  CalmInv'
    OBVIOUS
  <2>1. Typed /\ Typed' /\ OneExecution
    BY DEF CalmInv, TargetsInv
  <2>2. RetriesWait
    BY DEF RetriesWait, vars, requestVars
  <2>3. ExecutionFirst' /\ CopiesCurrent'
    BY <2>1, <2>2, ExecutionFirstStep, CopiesStep DEF CalmInv
  <2>4. HeldNow'
    BY <2>1, HeldStep DEF CalmInv
  <2>5. CountsOK'
    BY <2>4, CountsStep DEF CalmInv
  <2>6. PagesNow'
    BY PagesNowStep DEF CalmInv
  <2> QED
    BY <2>3, <2>4, <2>5, <2>6 DEF CalmInv
<1> QED
  BY <1>1, InitCalm, TargetsInvariant, PTL DEF CalmSpec, Spec

\* When nobody is at work, the stored run counts all targets.
LEMMA RestingRun ==
  ASSUME CalmInv, AllIdle
  PROVE  RunTallied
BY DEF CalmInv, CountsOK, AllIdle, Counting

\* What In collects of the stored targets is what Count counts.
LEMMA CountIsIn ==
  ASSUME NEW C
  PROVE  Count(C) = Cardinality(In(targets, Targets, C))
<1>1. WithStatus(C) = In(targets, Targets, C)
  BY DEF WithStatus, In
<1> QED
  BY <1>1 DEF Count

\* With nobody at work, a finished run's summary is the tally of its targets,
\* over any number of retries asked for while the run rests.
THEOREM SummaryIsAccurate ==
  ASSUME Undisturbed
  PROVE  CalmSpec => []SummaryAccurate
<1>1. CalmInv => SummaryAccurate
  <2> SUFFICES ASSUME CalmInv, AllIdle  PROVE
        /\ run.summary.selected = Count(TargetStatuses \ {"absent"})
        /\ run.summary.failed = Count(FailedStatuses)
        /\ run.summary.fetched = Count(FetchedStatuses)
        /\ run.summary.unchanged = Count({"unchanged"})
        /\ run.summary.blocked = Count({"blocked_by_robots"})
        /\ run.summary.skipped = Count({"skipped"})
    BY DEF SummaryAccurate
  <2>1. Tallied(targets, run.summary, Targets) /\ Selected(targets, run.summary)
    BY RestingRun DEF RunTallied
  <2>2. In(targets, Targets, {"skipped"}) = {}
    BY DEF CalmInv, CountsOK, In
  <2>3. Count({"skipped"}) = 0
    BY <2>2, CountIsIn, FS_EmptySet
  <2> QED
    BY <2>1, <2>3, CountIsIn DEF Tallied, Selected
<1> QED
  BY <1>1, CalmInvariant, PTL

\* With nobody at work, a finished run's status is the verdict on its targets
\* as they are, whatever the earlier jobs had found.
THEOREM StatusIsAccurate ==
  ASSUME Undisturbed
  PROVE  CalmSpec => []StatusAccurate
<1>1. CalmInv => StatusAccurate
  <2> SUFFICES ASSUME CalmInv, AllIdle, run.status \in FinishedStatuses
               PROVE  StatusAccurate
    BY DEF StatusAccurate
  <2>1. run.status = Verdict(targets, run.summary.warned)
    BY RestingRun DEF RunTallied
  <2>2. Homepage \in WithStatus(FailedStatuses) <=> HomepageFailed(targets, Targets)
    BY DEF WithStatus, HomepageFailed, In
  <2>3. /\ Count(FailedStatuses) = Cardinality(In(targets, Targets, FailedStatuses))
        /\ Count(FetchedStatuses \cup {"unchanged"}) =
             Cardinality(In(targets, Targets, FetchedStatuses \cup {"unchanged"}))
    BY CountIsIn
  <2> QED
    BY <2>1, <2>2, <2>3 DEF StatusAccurate, Verdict
<1> QED
  BY <1>1, CalmInvariant, PTL

\* With nobody at work, the stored page of every target shows the outcome the
\* target shows, whichever of them were retried.
THEOREM PagesMatch ==
  ASSUME Undisturbed
  PROVE  CalmSpec => []PagesMatchTargets
<1>1. CalmInv => PagesMatchTargets
  <2> SUFFICES ASSUME CalmInv, AllIdle  PROVE \A t \in Targets : Matches(t)
    BY DEF PagesMatchTargets, Matches
  <2>1. \A w \in Workers, t \in Targets : ~InHand(w, t)
    BY DEF AllIdle, InHand
  <2> QED
    BY <2>1 DEF CalmInv, PagesNow
<1> QED
  BY <1>1, CalmInvariant, PTL

=============================================================================
