--------------------------- MODULE Reconciliation ---------------------------
(***************************************************************************)
(* What becomes of the candidates for one field of a company               *)
(* (extraction/domain/reconciliation.py): one value is accepted, or the    *)
(* field is in conflict, or it stays unknown. The candidates are a set; the *)
(* id of each is its place in the order in which the pages yielded them.   *)
(* What the outcome does to an earlier fact is in module Extraction.       *)
(*                                                                         *)
(* A value is a text that may be in capitals, a number or a truth value,   *)
(* a person or a place. Timestamps, rule names, the counts of sources and  *)
(* the versions of extractors are left out.                                *)
(***************************************************************************)
EXTENDS FieldCatalogue, Integers, Sequences, SequencesExt

Text(t) == [text |-> t, capitals |-> FALSE]
Shouted(t) == [text |-> t, capitals |-> TRUE]
Count(n) == [count |-> n]
Truth(b) == [truth |-> b]

\* Surrounding space is no part of a text.
Normalized(value) ==
  IF "text" \in DOMAIN value THEN [value EXCEPT !.capitals = FALSE] ELSE value

SourcePriority ==
  [manual |-> 1000, json_ld |-> 100, open_graph |-> 90, sitemap_summary |-> 85, meta_tag |-> 80,
   script_marker |-> 70, cookie_marker |-> 65, html_element |-> 60, page_metadata |-> 60,
   link |-> 55, form |-> 50, imported |-> 40, deterministic_inference |-> 20]
PriorityOverrideGap == 20

-----------------------------------------------------------------------------
(* Candidates and groups of them.                                          *)

Eligible(cs, f) == {c \in cs : c.confidence >= MinimumConfidence(f)}
Ids(cs) == {c.id : c \in cs}
Evidence(cs) == UNION {c.evidence : c \in cs}

\* Those that say the same are a group; of a list, those with one key.
ByValue(cs) == {{d \in cs : Normalized(d.value) = Normalized(c.value)} : c \in cs}
ByKey(cs) == {{d \in cs : Normalized(d.key) = Normalized(c.key)} : c \in cs}

\* The most confident, the first of equals.
Best(cs) ==
  CHOOSE c \in cs : \A d \in cs \ {c} :
    d.confidence < c.confidence \/ (d.confidence = c.confidence /\ c.id < d.id)
Confidence(cs) == Best(cs).confidence
Authority(cs) == Max({SourcePriority[c.source] : c \in cs})
First(cs) == Min(Ids(cs))

-----------------------------------------------------------------------------
(* Outcomes.                                                               *)

NoValue == [none |-> TRUE]

Unknown ==
  [status |-> "unknown", value |-> NoValue, confidence |-> 0, verification |-> "none",
   evidence |-> {}, selected |-> {}, conflicting |-> {}]

Accepted(value, confidence, verification, selected) ==
  [status |-> "accepted", value |-> value, confidence |-> confidence, verification |-> verification,
   evidence |-> Evidence(selected), selected |-> Ids(selected), conflicting |-> {}]

Conflict(cs, conflicting) ==
  [status |-> "conflicting", value |-> NoValue, confidence |-> Confidence(cs),
   verification |-> "conflicting", evidence |-> {}, selected |-> {}, conflicting |-> Ids(conflicting)]

-----------------------------------------------------------------------------
(* A text: agreement, or the word of the clearly more authoritative.       *)

MoreConfident(g, h) == Confidence(g) > Confidence(h)   \* mutant: authority does not rank the groups
Outranks(g, h) ==
  \/ Authority(g) > Authority(h)
  \/ Authority(g) = Authority(h) /\ Confidence(g) > Confidence(h)
  \/ Authority(g) = Authority(h) /\ Confidence(g) = Confidence(h) /\ First(g) < First(h)
Top(groups) == CHOOSE g \in groups : \A h \in groups \ {g} : Outranks(g, h)

Agreed(g) ==
  Accepted(Best(g).value, Confidence(g),
           IF Cardinality(g) > 1 THEN "verified"
           ELSE IF Best(g).source = "deterministic_inference" THEN "inferred" ELSE "measured", g)

\* The first of the ranked groups against the second.
Ranked(groups, eligible) ==
  LET first == Top(groups)
      second == Top(groups \ {first})
  IN IF Authority(first) - Authority(second) >= PriorityOverrideGap
     THEN [Accepted(Best(first).value, Confidence(first), "verified", first)
             EXCEPT !.conflicting = Ids(second)]
     ELSE Conflict(eligible, eligible)

ReconcileScalar(cs, f) ==
  LET manual == {c \in cs : c.source = "manual"}
      eligible == Eligible(cs, f)
      groups == ByValue(eligible)
  IN CASE manual # {} -> Accepted(Best(manual).value, Confidence(manual), "verified", {Best(manual)})
       [] manual = {} /\ eligible = {} -> Unknown
       [] manual = {} /\ Cardinality(groups) = 1 -> Agreed(eligible)
       [] OTHER -> Ranked(groups, eligible)

-----------------------------------------------------------------------------
(* A truth value: no candidate is never a denial.                          *)

OffersWin(cs, f, explicitFalseAllowed) ==   \* mutant: one offer outweighs every denial
  LET said == {c \in Eligible(cs, f) : c.value = Truth(TRUE)}
      denied == {c \in Eligible(cs, f) : c.value = Truth(FALSE) /\ explicitFalseAllowed}
  IN IF said # {} THEN Accepted(Truth(TRUE), Confidence(said), "verified", said)
     ELSE IF denied # {} THEN Accepted(Truth(FALSE), Confidence(denied), "verified", denied)
     ELSE Unknown

ReconcileBoolean(cs, f, explicitFalseAllowed) ==
  LET eligible == Eligible(cs, f)
      Saying(b) == {c \in eligible : c.value = Truth(b)}
      denials == IF explicitFalseAllowed THEN Saying(FALSE) ELSE {}
      Settled(b, said) == Accepted(Truth(b), Confidence(said), "verified", said)
  IN CASE Saying(TRUE) # {} /\ denials # {} -> Conflict(eligible, Saying(TRUE) \cup denials)
       [] Saying(TRUE) # {} /\ denials = {} -> Settled(TRUE, Saying(TRUE))
       [] Saying(TRUE) = {} /\ denials # {} -> Settled(FALSE, denials)
       [] OTHER -> Unknown

-----------------------------------------------------------------------------
(* A list: one item for each key, in the order the extractors asked for,   *)
(* then in the order of the first candidates.                              *)

SortKey(g) == Min({c.sort_key : c \in g})
Earlier(g, h) ==
  \/ SortKey(g) < SortKey(h)
  \/ SortKey(g) = SortKey(h) /\ First(g) < First(h)

ReconcileArray(cs, f) ==
  LET eligible == Eligible(cs, f)
      items == SetToSortSeq(ByKey(eligible), Earlier)
  IN IF eligible = {} THEN Unknown
     ELSE Accepted([i \in DOMAIN items |-> Best(items[i]).value], Confidence(eligible), "verified", eligible)

-----------------------------------------------------------------------------
(* A number: exact counts must agree; without one, the most confident      *)
(* estimate, the first of equals.                                          *)

ReconcileNumeric(cs, f) ==
  LET eligible == Eligible(cs, f)
      exact == {c \in eligible : c.exact}
      distinct == {c.value : c \in exact}
  IN CASE eligible = {} -> Unknown
       [] exact # {} /\ Cardinality(distinct) = 1 ->
            Accepted(Best(exact).value, Confidence(exact), "measured", exact)
       [] exact # {} /\ Cardinality(distinct) > 1 -> Conflict(exact, exact)
       [] OTHER -> Accepted(Best(eligible).value, Confidence(eligible), "inferred", {Best(eligible)})

-----------------------------------------------------------------------------
ReconcileCandidates(cs, f) ==
  LET strategy == MergeStrategy(f) IN
  CASE cs = {} -> Unknown
    [] cs # {} /\ strategy \in {"scalar_preferred", "scalar_conflict_preserving"} -> ReconcileScalar(cs, f)
    [] cs # {} /\ strategy = "boolean_positive_only" -> ReconcileBoolean(cs, f, FALSE)
    [] cs # {} /\ strategy = "boolean_explicit" -> ReconcileBoolean(cs, f, TRUE)
    [] cs # {} /\ strategy \in {"set_union", "structured_entity_merge", "time_series"} -> ReconcileArray(cs, f)
    [] cs # {} /\ strategy = "numeric_exact_or_estimate" -> ReconcileNumeric(cs, f)
=============================================================================
