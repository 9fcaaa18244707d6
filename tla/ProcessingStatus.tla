-------------------------- MODULE ProcessingStatus --------------------------
(***************************************************************************)
(* The pipeline statuses of a company and the graph of edges the companies *)
(* module allows between them (companies/domain/enums.py, transitions.py). *)
(* Every stage of the pipeline moves the company with the validator below, *)
(* so the modules of the stages share this one.                            *)
(***************************************************************************)

ProcessingStatuses ==
  {"imported", "discovering", "discovered", "crawling", "crawled",
   "extracting", "extracted", "analysing", "analysed", "scoring",
   "ready", "partial", "failed", "stale"}

\* The statuses reachable in one step from each status.
AllowedProcessing ==
  [s \in ProcessingStatuses |->
     CASE s = "imported"    -> {"discovering"}
       [] s = "discovering" -> {"discovered", "failed"}
       [] s = "discovered"  -> {"crawling", "failed"}
       [] s = "crawling"    -> {"crawled", "failed"}
       [] s = "crawled"     -> {"extracting", "failed"}
       [] s = "extracting"  -> {"extracted", "failed"}
       [] s = "extracted"   -> {"analysing", "failed"}
       [] s = "analysing"   -> {"analysed", "failed"}
       [] s = "analysed"    -> {"scoring", "failed"}
       [] s = "scoring"     -> {"ready", "partial", "failed"}
       [] s = "ready"       -> {"discovering", "stale"}
       [] s \in {"partial", "failed", "stale"} -> {"discovering"}]

\* The validator: a transition to the same status is always allowed.
ProcessingTransitionAllowed(current, attempted) ==
  attempted = current \/ attempted \in AllowedProcessing[current]

\* A stage's best-effort advance: a forbidden transition is swallowed.
AdvancedProcessing(current, attempted) ==
  IF ProcessingTransitionAllowed(current, attempted) THEN attempted ELSE current

=============================================================================
