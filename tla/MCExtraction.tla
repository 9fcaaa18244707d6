---------------------------- MODULE MCExtraction ----------------------------
(***************************************************************************)
(* Requests to extract facts of one company, for TLC.                      *)
(***************************************************************************)
EXTENDS Extraction, TLC

\* Every request has a key of its own.
OwnKeys == [r \in Requests |-> r]

\* The values are interchangeable, and so are the requests when each has its own key.
Symmetric == Permutations(Values) \cup Permutations(Requests)
=============================================================================
