----------------------------- MODULE MCCrawlRun -----------------------------
(* Instances of CrawlRun for TLC: what the runs share.                      *)
EXTENDS CrawlRun, TLC

\* Statuses at which a client that waits for the run to end asks for a retry.
TerminalRun == FinishedStatuses \cup {"cancelled"}

\* Targets other than the homepage are interchangeable, and so are the
\* requests of one kind and the workers (safety runs only).
Symmetry ==
  Permutations(Targets \ {Homepage}) \cup Permutations(Workers)
    \cup Permutations(RetryRequests) \cup Permutations(CancelRequests)

=============================================================================
