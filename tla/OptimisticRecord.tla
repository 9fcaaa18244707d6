-------------------------- MODULE OptimisticRecord --------------------------
(***************************************************************************)
(* What a document with a document_version promises to the processes that  *)
(* share it (crawl runs, extraction runs): a process may replace the       *)
(* document only if nobody wrote since the process read it, every write    *)
(* raises the version by one, and a cancellation may strike at any time.   *)
(***************************************************************************)
EXTENDS Naturals

CONSTANTS
  Procs,    \* the processes that read and write the document
  Statuses  \* its statuses, "cancelled" among them

VARIABLES
  status,   \* status of the stored document
  version,  \* its document_version
  view      \* the version each process holds a copy of; 0 when none

vars == <<status, version, view>>

TypeOK ==
  /\ status \in Statuses
  /\ version \in Nat
  /\ view \in [Procs -> Nat]

Init ==
  /\ status \in Statuses
  /\ version = 1
  /\ view = [p \in Procs |-> 0]

Read(p) ==
  /\ view' = [view EXCEPT ![p] = version]
  /\ UNCHANGED <<status, version>>

Forget(p) ==
  /\ view' = [view EXCEPT ![p] = 0]
  /\ UNCHANGED <<status, version>>

\* A write based on the newest version; the writer ends up with the new
\* version in hand, or drops its copy, or keeps it as it was.
Write(p) ==
  /\ view[p] = version
  /\ status' \in Statuses
  /\ version' = version + 1
  /\ view' \in {view, [view EXCEPT ![p] = version'], [view EXCEPT ![p] = 0]}

Cancel ==
  /\ status' = "cancelled"
  /\ version' = version + 1
  /\ UNCHANGED view

Next == Cancel \/ \E p \in Procs : Read(p) \/ Forget(p) \/ Write(p)

Spec == Init /\ [][Next]_vars

=============================================================================
