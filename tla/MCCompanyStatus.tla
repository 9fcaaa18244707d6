-------------------------- MODULE MCCompanyStatus --------------------------
(***************************************************************************)
(* One company for TLC: a discovery, a crawl and an extraction (or two     *)
(* discoveries), a client and a reviewer or two.                           *)
(***************************************************************************)
EXTENDS CompanyStatus

CONSTANTS d1, d2, k1, x1

\* Stages by the name of their model value.
Kinds == [p \in Stages |-> CASE p \in {d1, d2} -> "discovery" [] p = k1 -> "crawl" [] p = x1 -> "extraction"]

\* What a client may ask for without claiming that a stage is at work.
RestStatuses == ProcessingStatuses \ WorkingStatuses
=============================================================================
