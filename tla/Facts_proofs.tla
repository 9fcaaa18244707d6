---------------------------- MODULE Facts_proofs ----------------------------
(***************************************************************************)
(* What an extraction run makes of its pages, for any pages, any order in  *)
(* which they are listed and any number of failures; the extractors are    *)
(* only known to yield lists of drafts.                                    *)
(***************************************************************************)
EXTENDS Facts, FiniteSetTheorems, WellFoundedInduction, TLAPS

Made(e, p) == ToSet(DraftsOf[e][p])
Extracts == ToSet(Registered)
AllDrafts == UNION {Made(e, p) : e \in Extracts, p \in DOMAIN Pages}
From(c, d) == \A k \in DOMAIN d : c[k] = d[k]
Among(p, e, X) == \E x \in X : x.page = p /\ x.extractor = e

\* A candidate made of a draft.
MadeOf(n, p, e, d) ==
  [id |-> n, page |-> p, extractor |-> e, evidence |-> {<<p, d.field, d.fragment>>},
   field |-> d.field, source |-> d.source, confidence |-> d.confidence, strength |-> d.strength,
   value |-> d.value, fragment |-> d.fragment, key |-> d.key, exact |-> d.exact, sort_key |-> d.sort_key]
AllCandidates ==
  {MadeOf(n, p, e, d) : n \in Nat, p \in DOMAIN Pages, e \in Extracts, d \in AllDrafts}

Typed ==
  /\ phase \in {"pages", "done"}
  /\ queue \in Seq(DOMAIN Pages) /\ page \in DOMAIN Pages \cup {0}
  /\ extractor \in 0..11
  /\ drafts \in Seq(AllDrafts)
  /\ candidates \in Seq(AllCandidates)
  /\ executions \subseteq [page : DOMAIN Pages, extractor : Extracts, status : {"succeeded", "failed"}]
  /\ warnings \in Seq([page : DOMAIN Pages \cup {0}, extractor : Extracts, draft : AllDrafts])

\* The drafts in hand are of the page and the extractor in hand.
InHand ==
  /\ page = 0 => drafts = <<>>
  /\ phase = "done" => page = 0 /\ queue = <<>>
  /\ drafts # <<>> =>
       /\ extractor \in 1..11
       /\ [page |-> page, extractor |-> Registered[extractor], status |-> "succeeded"] \in executions
       /\ ToSet(drafts) \subseteq Made(Registered[extractor], page)

\* No extractor that supports a page is left out.
AllRun ==
  /\ \A p \in Opened \ {page} : \A e \in Extracts : Supports(e, Pages[p]) => Among(p, e, executions)
  /\ page # 0 => \A i \in 1..extractor : Supports(Registered[i], Pages[page]) => Among(page, Registered[i], executions)

\* Every candidate is a draft of an extractor that succeeded.
Sourced ==
  \A i \in DOMAIN candidates :
    /\ [page |-> candidates[i].page, extractor |-> candidates[i].extractor, status |-> "succeeded"]
         \in executions
    /\ \E d \in Made(candidates[i].extractor, candidates[i].page) : From(candidates[i], d)

\* Every draft is in hand, or lost, or a candidate.
Handled ==
  \A x \in executions : x.status = "succeeded" =>
    \A d \in Made(x.extractor, x.page) :
      \/ x.page = page /\ x.extractor = Registered[extractor] /\ d \in ToSet(drafts)
      \/ d \in Lost(x.page, x.extractor)
      \/ \E i \in DOMAIN candidates :
           /\ candidates[i].page = x.page /\ candidates[i].extractor = x.extractor
           /\ From(candidates[i], d)

\* A candidate's evidence is in the store, its id is its place.
Documented ==
  \A i \in DOMAIN candidates :
    /\ candidates[i].id = i
    /\ candidates[i].evidence = {<<candidates[i].page, candidates[i].field, candidates[i].fragment>>}
    /\ candidates[i].evidence \subseteq DOMAIN evidence

\* The facts are those of the candidates, once the pages are done.
Decided ==
  \/ phase = "pages" /\ facts = <<>>
  \/ phase = "done" /\ facts = Reconciled

-----------------------------------------------------------------------------
(* The extractors, their drafts and the candidates made of them.           *)

LEMMA ElevenExtractors ==
  /\ DOMAIN Registered = 1..11 /\ Len(Registered) = 11
  /\ \A i \in 1..11 : Registered[i] \in Extracts
  /\ \A i, j \in 1..11 : Registered[i] = Registered[j] => i = j
  /\ \A e \in Extracts : \E i \in 1..11 : e = Registered[i]
<1>1. DOMAIN Registered = 1..11 /\ Len(Registered) = 11
  BY DEF Registered
<1>2. \A i, j \in 1..11 : Registered[i] = Registered[j] => i = j
  BY DEF Registered
<1> QED
  BY <1>1, <1>2 DEF Extracts, ToSet

LEMMA MadeDrafts ==
  ASSUME NEW e \in Extracts, NEW p \in DOMAIN Pages
  PROVE  /\ DraftsOf[e][p] \in Seq(Made(e, p))
         /\ Made(e, p) \subseteq AllDrafts
         /\ DraftsOf[e][p] \in Seq(AllDrafts)
<1>1. DraftsOf[e][p] \in Seq(Made(e, p))
  BY DraftsAssumption DEF Made, Extracts
<1>2. Made(e, p) \subseteq AllDrafts
  BY DEF AllDrafts
<1> QED
  BY <1>1, <1>2

LEMMA DraftsAreDrafts ==
  ASSUME NEW d \in AllDrafts
  PROVE  IsDraft(d)
BY DraftsAssumption DEF AllDrafts, Made, Extracts

LEMMA MadeOfFields ==
  ASSUME NEW n, NEW p, NEW e, NEW d, IsDraft(d), NEW c, c = MadeOf(n, p, e, d)
  PROVE  /\ c.id = n /\ c.page = p /\ c.extractor = e
         /\ c.evidence = {<<p, d.field, d.fragment>>}
         /\ From(c, d)
         /\ c.field = d.field /\ c.fragment = d.fragment /\ c.source = d.source
         /\ c.confidence = d.confidence /\ c.value = d.value /\ c.exact = d.exact
BY DEF MadeOf, IsDraft, From

LEMMA CandidateFields ==
  ASSUME NEW c \in AllCandidates
  PROVE  /\ c.id \in Nat /\ c.page \in DOMAIN Pages /\ c.extractor \in Extracts
         /\ c.field \in FieldPaths /\ c.source \in DOMAIN SourcePriority \ {"manual"}
         /\ c.confidence \in 0..100 /\ c.exact \in BOOLEAN
         /\ c.evidence = {<<c.page, c.field, c.fragment>>}
<1>1. PICK n \in Nat, p \in DOMAIN Pages, e \in Extracts, d \in AllDrafts : c = MadeOf(n, p, e, d)
  BY DEF AllCandidates
<1>2. IsDraft(d)
  BY DraftsAreDrafts
<1> QED
  BY <1>1, <1>2, MadeOfFields DEF IsDraft

LEMMA Parts ==
  ASSUME NEW S, NEW s \in Seq(S), s # <<>>
  PROVE  /\ Head(s) \in S /\ Tail(s) \in Seq(S)
         /\ ToSet(s) = {Head(s)} \cup ToSet(Tail(s))
         /\ DOMAIN Tail(s) = 1..Len(s) - 1
         /\ \A i \in DOMAIN Tail(s) : Tail(s)[i] = s[i + 1] /\ i + 1 \in DOMAIN s
<1>1. Head(s) = s[1] /\ 1 \in DOMAIN s /\ Head(s) \in S
  OBVIOUS
<1>2. Tail(s) \in Seq(S) /\ DOMAIN Tail(s) = 1..Len(s) - 1
  OBVIOUS
<1>3. \A i \in DOMAIN Tail(s) : Tail(s)[i] = s[i + 1] /\ i + 1 \in DOMAIN s
  OBVIOUS
<1>4. \A i \in DOMAIN s : i = 1 \/ (i - 1 \in DOMAIN Tail(s) /\ Tail(s)[i - 1] = s[i])
  OBVIOUS
<1>5. \A x : x \in ToSet(s) <=> x = Head(s) \/ x \in ToSet(Tail(s))
  <2> SUFFICES ASSUME NEW x PROVE x \in ToSet(s) <=> x = Head(s) \/ x \in ToSet(Tail(s))
    OBVIOUS
  <2>1. ASSUME NEW i \in DOMAIN s, x = s[i]  PROVE x = Head(s) \/ x \in ToSet(Tail(s))
    <3>1. CASE i = 1  BY <2>1, <3>1, <1>1
    <3>2. CASE i # 1
      <4>1. i - 1 \in DOMAIN Tail(s) /\ Tail(s)[i - 1] = x  BY <2>1, <3>2, <1>4
      <4> QED  BY <4>1 DEF ToSet
    <3> QED  BY <3>1, <3>2
  <2>2. ASSUME NEW i \in DOMAIN Tail(s), x = Tail(s)[i]  PROVE x \in ToSet(s)
    BY <2>2, <1>3 DEF ToSet
  <2>3. Head(s) \in ToSet(s)
    BY <1>1 DEF ToSet
  <2> QED
    BY <2>1, <2>2, <2>3 DEF ToSet
<1>6. ToSet(s) = {Head(s)} \cup ToSet(Tail(s))
  BY <1>5
<1> QED
  BY <1>1, <1>2, <1>3, <1>6

LEMMA LeastNat ==
  ASSUME NEW T, T \subseteq Nat, T # {}
  PROVE  \E x \in T : \A y \in T : x <= y
<1> DEFINE Less == {ss \in Nat \X Nat : ss[1] < ss[2]}
<1>1. IsWellFoundedOn(Less, Nat)  BY NatLessThanWellFounded DEF OpToRel
<1>2. PICK x \in T : \A y \in T : ~(<<y, x>> \in Less)  BY <1>1, WFMin
<1>3. ASSUME NEW y \in T, y < x PROVE FALSE
  <2>1. <<y, x>> \in Nat \X Nat /\ <<y, x>>[1] < <<y, x>>[2]  BY <1>3
  <2> QED  BY <1>2, <2>1
<1> QED  BY <1>3

LEMMA LeastIsMin ==
  ASSUME NEW T, T \subseteq Nat, T # {}
  PROVE  Min(T) \in T /\ \A y \in T : Min(T) <= y
<1>1. \E x \in T : \A y \in T : x =< y
  BY LeastNat
<1> QED
  BY <1>1 DEF Min

\* The next extractor is the first of those left that supports the page.
LEMMA NextExtractor ==
  ASSUME extractor \in 0..11, Remaining # {}, NEW i, i = Min(Remaining)
  PROVE  /\ i \in 1..11 /\ extractor < i
         /\ \A j \in 1..i : j \in 1..extractor \/ j = i \/ ~Supports(Registered[j], Pages[page])
<1>1. Remaining \subseteq 1..11 /\ \A j \in Remaining : j > extractor
  BY ElevenExtractors DEF Remaining
<1>2. i \in Remaining /\ \A j \in Remaining : i <= j
  <2>1. PICK T : T = Remaining
    OBVIOUS
  <2>2. T \subseteq Nat /\ T # {}
    BY <2>1, <1>1
  <2>3. Min(T) \in T /\ \A y \in T : Min(T) <= y
    BY <2>2, LeastIsMin
  <2> QED
    BY <2>1, <2>3
<1>3. ASSUME NEW j \in 1..i, j > extractor, j # i  PROVE ~Supports(Registered[j], Pages[page])
  <2>1. j \notin Remaining /\ j \in 1..11
    BY <1>1, <1>2, <1>3
  <2> QED
    BY <2>1, <1>3, ElevenExtractors DEF Remaining
<1> QED
  BY <1>1, <1>2, <1>3

-----------------------------------------------------------------------------
(* Types.                                                                  *)

LEMMA CandidateTyped ==
  ASSUME Typed, Documented, drafts # <<>>, extractor \in 1..11, page # 0,
         NEW c, c = Candidate(Head(drafts), {EvidenceId(Head(drafts))})
  PROVE  /\ c \in AllCandidates
         /\ c = MadeOf(Len(candidates) + 1, page, Registered[extractor], Head(drafts))
         /\ Head(drafts) \in AllDrafts
         /\ Append(candidates, c) \in Seq(AllCandidates)
<1>1. Head(drafts) \in AllDrafts
  BY Parts DEF Typed
<1>2. c = MadeOf(Len(candidates) + 1, page, Registered[extractor], Head(drafts))
  BY DEF Candidate, MadeOf, EvidenceId
<1>3. Len(candidates) + 1 \in Nat /\ page \in DOMAIN Pages /\ Registered[extractor] \in Extracts
  BY ElevenExtractors DEF Typed
<1>4. c \in AllCandidates
  BY <1>1, <1>2, <1>3 DEF AllCandidates
<1> QED
  BY <1>1, <1>2, <1>4 DEF Typed

LEMMA TypedStep ==
  ASSUME Typed, InHand, Documented, [Next]_vars
  PROVE  Typed'
<1>0. page \in DOMAIN Pages => page # 0
  BY FactsAssumption
<1>1. CASE StopEarly
  BY <1>1 DEF StopEarly, Typed
<1>2. CASE SkipPage
  <2>1. queue # <<>> /\ queue' = Tail(queue)
    BY <1>2 DEF SkipPage
  <2>2. queue' \in Seq(DOMAIN Pages)
    BY <2>1, Parts DEF Typed
  <2> QED
    BY <1>2, <2>2 DEF SkipPage, Typed
<1>3. CASE OpenPage
  <2>1. queue # <<>> /\ queue' = Tail(queue) /\ page' = Head(queue)
    BY <1>3 DEF OpenPage
  <2>2. queue' \in Seq(DOMAIN Pages) /\ page' \in DOMAIN Pages
    BY <2>1, Parts DEF Typed
  <2> QED
    BY <1>3, <2>2 DEF OpenPage, Typed
<1>4. CASE RunExtractor
  <2>1. PICK i : i = Min(Remaining)
    OBVIOUS
  <2>2. i \in 1..11 /\ page \in DOMAIN Pages
    BY <1>4, <2>1, NextExtractor DEF RunExtractor, Idle, Typed
  <2>3. /\ extractor' = i /\ drafts' = DraftsOf[Registered[i]][page]
        /\ executions' = executions \cup {[page |-> page, extractor |-> Registered[i], status |-> "succeeded"]}
    BY <1>4, <2>1 DEF RunExtractor, Executed
  <2>4. Registered[i] \in Extracts /\ drafts' \in Seq(AllDrafts)
    BY <2>2, <2>3, ElevenExtractors, MadeDrafts
  <2> QED
    BY <1>4, <2>2, <2>3, <2>4 DEF RunExtractor, Typed
<1>5. CASE FailExtractor
  <2>1. PICK i : i = Min(Remaining)
    OBVIOUS
  <2>2. i \in 1..11 /\ page \in DOMAIN Pages
    BY <1>5, <2>1, NextExtractor DEF FailExtractor, Idle, Typed
  <2>3. /\ extractor' = i
        /\ executions' = executions \cup {[page |-> page, extractor |-> Registered[i], status |-> "failed"]}
    BY <1>5, <2>1 DEF FailExtractor, Executed
  <2>4. Registered[i] \in Extracts
    BY <2>2, ElevenExtractors
  <2> QED
    BY <1>5, <2>2, <2>3, <2>4 DEF FailExtractor, Typed
<1>6. CASE ClosePage
  BY <1>6 DEF ClosePage, Typed
<1>7. CASE SaveEvidence
  <2>1. drafts # <<>> /\ drafts' = Tail(drafts)
    BY <1>7 DEF SaveEvidence
  <2>2. drafts' \in Seq(AllDrafts)
    BY <2>1, Parts DEF Typed
  <2>3. extractor \in 1..11 /\ page # 0
    BY <2>1 DEF InHand
  <2>4. candidates' \in Seq(AllCandidates)
    BY <1>7, <2>1, <2>3, CandidateTyped DEF SaveEvidence
  <2> QED
    BY <1>7, <2>2, <2>4 DEF SaveEvidence, Typed
<1>8. CASE RefuseEvidence
  <2>1. drafts # <<>> /\ drafts' = Tail(drafts)
    BY <1>8 DEF RefuseEvidence
  <2>2. drafts' \in Seq(AllDrafts) /\ Head(drafts) \in AllDrafts
    BY <2>1, Parts DEF Typed
  <2>3. extractor \in 1..11 /\ Registered[extractor] \in Extracts
    BY <2>1, ElevenExtractors DEF InHand
  <2>4. warnings' = Append(warnings, [page |-> page, extractor |-> Registered[extractor], draft |-> Head(drafts)])
    BY <1>8 DEF RefuseEvidence
  <2>5. warnings' \in Seq([page : DOMAIN Pages \cup {0}, extractor : Extracts, draft : AllDrafts])
    BY <2>2, <2>3, <2>4 DEF Typed
  <2> QED
    BY <1>8, <2>2, <2>5 DEF RefuseEvidence, Dropped, Typed
<1>9. CASE SaveFacts
  BY <1>9 DEF SaveFacts, Typed, progress
<1>10. CASE UNCHANGED vars
  BY <1>10 DEF vars, progress, Typed
<1> QED
  BY <1>1, <1>2, <1>3, <1>4, <1>5, <1>6, <1>7, <1>8, <1>9, <1>10 DEF Next

-----------------------------------------------------------------------------
(* What is in hand.                                                        *)

LEMMA InHandStep ==
  ASSUME Typed, InHand, [Next]_vars
  PROVE  InHand'
<1>1. CASE StopEarly
  BY <1>1 DEF StopEarly, Between, InHand
<1>2. CASE SkipPage
  BY <1>2 DEF SkipPage, Between, InHand
<1>3. CASE OpenPage
  <2>1. phase' = phase /\ drafts' = drafts /\ phase = "pages" /\ page = 0
    BY <1>3 DEF OpenPage, Between
  <2> QED
    BY <2>1 DEF InHand
<1>4. CASE RunExtractor
  <2>1. PICK k : k = Min(Remaining)
    OBVIOUS
  <2>2. k \in 1..11 /\ page \in DOMAIN Pages /\ phase = "pages" /\ page # 0
    BY <1>4, <2>1, NextExtractor DEF RunExtractor, Idle, Typed
  <2>3. /\ extractor' = k /\ drafts' = DraftsOf[Registered[k]][page]
        /\ executions' = executions \cup {[page |-> page, extractor |-> Registered[k], status |-> "succeeded"]}
        /\ UNCHANGED <<phase, page>>
    BY <1>4, <2>1 DEF RunExtractor, Executed
  <2> QED
    BY <2>2, <2>3 DEF InHand, Made
<1>5. CASE FailExtractor
  <2>1. drafts = <<>> /\ page # 0 /\ phase = "pages" /\ UNCHANGED <<phase, page, drafts>>
    BY <1>5 DEF FailExtractor, Idle
  <2> QED
    BY <2>1 DEF InHand
<1>6. CASE ClosePage
  BY <1>6 DEF ClosePage, Idle, InHand
<1>a. ASSUME drafts # <<>>, drafts' = Tail(drafts), UNCHANGED <<phase, queue, page, extractor, executions>>
      PROVE  InHand'
  <2>1. ToSet(drafts') \subseteq ToSet(drafts)
    BY <1>a, Parts DEF Typed
  <2> QED
    BY <1>a, <2>1 DEF InHand
<1>7. CASE SaveEvidence
  BY <1>7, <1>a DEF SaveEvidence
<1>8. CASE RefuseEvidence
  BY <1>8, <1>a DEF RefuseEvidence
<1>9. CASE SaveFacts
  BY <1>9 DEF SaveFacts, Between, InHand, progress
<1>10. CASE UNCHANGED vars
  BY <1>10 DEF vars, progress, InHand
<1> QED
  BY <1>1, <1>2, <1>3, <1>4, <1>5, <1>6, <1>7, <1>8, <1>9, <1>10 DEF Next

-----------------------------------------------------------------------------
(* No extractor is left out, no draft is forgotten.                        *)

LEMMA AllRunStep ==
  ASSUME Typed, AllRun, [Next]_vars
  PROVE  AllRun'
<1>0. \A x \in executions : x.page # 0
  BY FactsAssumption DEF Typed
<1>1. ASSUME UNCHANGED <<page, extractor, executions>>  PROVE AllRun'
  BY <1>1 DEF AllRun, Opened, Among
<1>2. CASE StopEarly \/ SkipPage \/ SaveEvidence \/ RefuseEvidence \/ SaveFacts
  BY <1>1, <1>2 DEF StopEarly, SkipPage, SaveEvidence, RefuseEvidence, SaveFacts, progress
<1>3. CASE OpenPage
  <2>1. page = 0 /\ extractor' = 0 /\ executions' = executions
    BY <1>3 DEF OpenPage, Between
  <2>2. Opened' = Opened /\ 0 \notin Opened
    BY <2>1, <1>0 DEF Opened
  <2>3. \A p \in Opened : \A e \in Extracts : Supports(e, Pages[p]) => Among(p, e, executions)
    BY <2>1, <2>2 DEF AllRun
  <2>4. \A p, e : Among(p, e, executions') <=> Among(p, e, executions)
    BY <2>1 DEF Among
  <2>5. \A i : i \notin 1..extractor'
    BY <2>1
  <2> QED
    BY <2>2, <2>3, <2>4, <2>5 DEF AllRun
<1>a. ASSUME Idle, Remaining # {}, NEW status, Executed(Min(Remaining), status), page' = page
      PROVE  AllRun'
  <2>1. PICK k : k = Min(Remaining)
    OBVIOUS
  <2>2. /\ k \in 1..11 /\ extractor < k
        /\ \A j \in 1..k : j \in 1..extractor \/ j = k \/ ~Supports(Registered[j], Pages[page])
    BY <1>a, <2>1, NextExtractor DEF Typed
  <2>3. PICK new : new = [page |-> page, extractor |-> Registered[k], status |-> status]
    OBVIOUS
  <2>4. extractor' = k /\ executions' = executions \cup {new}
    BY <1>a, <2>1, <2>3 DEF Executed
  <2>5. new.page = page /\ new.extractor = Registered[k]
    BY <2>3
  <2>6. \A p \in Opened' : p \in Opened \/ p = page
    BY <2>4, <2>5 DEF Opened
  <2>7. \A p, e : Among(p, e, executions) => Among(p, e, executions')
    BY <2>4 DEF Among
  <2>8. Among(page, Registered[k], executions')
    BY <1>a, <2>4, <2>5 DEF Among
  <2>9. \A p \in Opened' \ {page'} : \A e \in Extracts : Supports(e, Pages[p]) => Among(p, e, executions')
    BY <1>a, <2>6, <2>7 DEF AllRun
  <2>10. page' # 0 => \A i \in 1..extractor' : Supports(Registered[i], Pages[page']) => Among(page', Registered[i], executions')
    BY <1>a, <2>2, <2>4, <2>7, <2>8 DEF AllRun
  <2> QED
    BY <2>9, <2>10 DEF AllRun
<1>4. CASE RunExtractor
  BY <1>4, <1>a DEF RunExtractor
<1>5. CASE FailExtractor
  BY <1>5, <1>a DEF FailExtractor
<1>6. CASE ClosePage
  <2>1. page # 0 /\ page' = 0 /\ Remaining = {} /\ UNCHANGED <<extractor, executions>>
    BY <1>6 DEF ClosePage, Idle
  <2>2. \A e \in Extracts : Supports(e, Pages[page]) => Among(page, e, executions)
    <3> SUFFICES ASSUME NEW e \in Extracts, Supports(e, Pages[page])  PROVE Among(page, e, executions)
      OBVIOUS
    <3>1. PICK i \in 1..11 : e = Registered[i]
      BY ElevenExtractors
    <3>2. i \in 1..extractor
      BY <2>1, <3>1, ElevenExtractors DEF Remaining, Typed
    <3> QED
      BY <2>1, <3>1, <3>2 DEF AllRun
  <2>3. \A p \in Opened : \A e \in Extracts : Supports(e, Pages[p]) => Among(p, e, executions)
    BY <2>2 DEF AllRun
  <2>4. Opened' = Opened
    BY <2>1 DEF Opened
  <2>5. \A p, e : Among(p, e, executions') <=> Among(p, e, executions)
    BY <2>1 DEF Among
  <2> QED
    BY <2>1, <2>3, <2>4, <2>5 DEF AllRun
<1>7. CASE UNCHANGED vars
  BY <1>1, <1>7 DEF vars, progress
<1> QED
  BY <1>2, <1>3, <1>4, <1>5, <1>6, <1>7 DEF Next

\* What SaveEvidence adds to the candidates: c, made of d, as the n-th.
Adds(c, d, n) ==
  /\ c.id = n /\ c.page = page /\ c.extractor = Registered[extractor]
  /\ c.evidence = {<<c.page, c.field, c.fragment>>} /\ From(c, d)
  /\ c.evidence = {EvidenceId(Head(drafts))}
  /\ DOMAIN candidates' = DOMAIN candidates \cup {n}
  /\ candidates'[n] = c
  /\ \A i \in DOMAIN candidates : candidates'[i] = candidates[i] /\ i # n
  /\ d \in Made(Registered[extractor], page)
  /\ ToSet(drafts) = {d} \cup ToSet(drafts')
  /\ [page |-> page, extractor |-> Registered[extractor], status |-> "succeeded"] \in executions

LEMMA Added ==
  ASSUME Typed, InHand, Documented, SaveEvidence
  PROVE  \E c, d, n : Adds(c, d, n)
<1>1. PICK d : d = Head(drafts)
  OBVIOUS
<1>2. PICK c : c = Candidate(Head(drafts), {EvidenceId(Head(drafts))})
  OBVIOUS
<1>3. PICK n : n = Len(candidates) + 1
  OBVIOUS
<1>4. drafts # <<>> /\ drafts' = Tail(drafts) /\ candidates' = Append(candidates, c)
  BY <1>2 DEF SaveEvidence
<1>5. extractor \in 1..11 /\ page # 0
  BY <1>4 DEF InHand
<1>6. c = MadeOf(n, page, Registered[extractor], d) /\ d \in AllDrafts /\ c \in AllCandidates
  BY <1>1, <1>2, <1>3, <1>4, <1>5, CandidateTyped
<1>7. IsDraft(d)
  BY <1>6, DraftsAreDrafts
<1>8. PICK e : e = Registered[extractor]
  OBVIOUS
<1>9. c = MadeOf(n, page, e, d)
  BY <1>6, <1>8
<1>10. /\ c.id = n /\ c.page = page /\ c.extractor = e
       /\ c.evidence = {<<page, d.field, d.fragment>>} /\ From(c, d)
       /\ c.field = d.field /\ c.fragment = d.fragment
  BY <1>7, <1>9, MadeOfFields
<1>11. ToSet(drafts) = {d} \cup ToSet(drafts')
  BY <1>1, <1>4, Parts DEF Typed
<1>12. d \in Made(Registered[extractor], page)
  BY <1>4, <1>11 DEF InHand
<1>13. candidates \in Seq(AllCandidates)
  BY DEF Typed
<1>14. /\ DOMAIN candidates' = DOMAIN candidates \cup {n}
       /\ candidates'[n] = c
       /\ \A i \in DOMAIN candidates : candidates'[i] = candidates[i] /\ i # n
  BY <1>3, <1>4, <1>6, <1>13
<1>15. [page |-> page, extractor |-> Registered[extractor], status |-> "succeeded"] \in executions
  BY <1>4 DEF InHand
<1>16. c.evidence = {EvidenceId(Head(drafts))}
  BY <1>1, <1>10 DEF EvidenceId
<1>17. c.evidence = {<<c.page, c.field, c.fragment>>}
  BY <1>10
<1>18. Adds(c, d, n)
  BY <1>8, <1>10, <1>11, <1>12, <1>14, <1>15, <1>16, <1>17 DEF Adds
<1> QED
  BY <1>18

LEMMA SourcedStep ==
  ASSUME Typed, InHand, Documented, Sourced, [Next]_vars
  PROVE  Sourced'
<1>1. ASSUME candidates' = candidates, executions \subseteq executions'  PROVE Sourced'
  BY <1>1 DEF Sourced
<1>2. CASE StopEarly \/ SkipPage \/ OpenPage \/ RunExtractor \/ FailExtractor \/ ClosePage
           \/ RefuseEvidence \/ SaveFacts
  BY <1>1, <1>2 DEF StopEarly, SkipPage, OpenPage, RunExtractor, FailExtractor, Executed, ClosePage,
                    RefuseEvidence, Dropped, SaveFacts
<1>3. CASE SaveEvidence
  <2>4. PICK c, d, n : Adds(c, d, n)
    BY <1>3, Added
  <2>5. executions' = executions
    BY <1>3 DEF SaveEvidence
  <2>6. ASSUME NEW i \in DOMAIN candidates'
        PROVE  /\ [page |-> candidates'[i].page, extractor |-> candidates'[i].extractor,
                   status |-> "succeeded"] \in executions'
               /\ \E dd \in Made(candidates'[i].extractor, candidates'[i].page) : From(candidates'[i], dd)
    <3>1. CASE i = n
      BY <3>1, <2>4, <2>5 DEF Adds
    <3>2. CASE i # n
      BY <3>2, <2>4, <2>5 DEF Adds, Sourced
    <3> QED
      BY <3>1, <3>2
  <2> QED
    BY <2>6 DEF Sourced
<1>4. CASE UNCHANGED vars
  BY <1>1, <1>4 DEF vars
<1> QED
  BY <1>2, <1>3, <1>4 DEF Next

\* What becomes of one draft of one extractor on one page.
Accounted(p, e, d) ==
  \/ \E i \in DOMAIN warnings : warnings[i].page = p /\ warnings[i].extractor = e /\ warnings[i].draft = d
  \/ \E i \in DOMAIN candidates :
       candidates[i].page = p /\ candidates[i].extractor = e /\ From(candidates[i], d)

LEMMA HandledMeans ==
  Handled <=> \A x \in executions : x.status = "succeeded" =>
                \A d \in Made(x.extractor, x.page) :
                  \/ x.page = page /\ x.extractor = Registered[extractor] /\ d \in ToSet(drafts)
                  \/ Accounted(x.page, x.extractor, d)
<1>1. \A p, e, d : d \in Lost(p, e) <=>
        \E i \in DOMAIN warnings : warnings[i].page = p /\ warnings[i].extractor = e /\ warnings[i].draft = d
  BY DEF Lost
<1> QED
  BY <1>1 DEF Handled, Accounted

LEMMA HandledStep ==
  ASSUME Typed, InHand, Documented, Handled, [Next]_vars
  PROVE  Handled'
<1>0. \A x \in executions : x.status = "succeeded" =>
        \A d \in Made(x.extractor, x.page) :
          \/ x.page = page /\ x.extractor = Registered[extractor] /\ d \in ToSet(drafts)
          \/ Accounted(x.page, x.extractor, d)
  BY HandledMeans
<1>z. SUFFICES ASSUME NEW x \in executions', x.status = "succeeded", NEW d \in Made(x.extractor, x.page)
               PROVE  \/ x.page = page' /\ x.extractor = Registered[extractor'] /\ d \in ToSet(drafts')
                      \/ Accounted(x.page, x.extractor, d)'
  BY DEF Handled, Accounted, Lost
<1>1. ASSUME UNCHANGED <<page, extractor, drafts, candidates, executions, warnings>>
      PROVE  \/ x.page = page' /\ x.extractor = Registered[extractor'] /\ d \in ToSet(drafts')
             \/ Accounted(x.page, x.extractor, d)'
  BY <1>0, <1>z, <1>1 DEF Accounted
<1>2. CASE StopEarly \/ SkipPage \/ SaveFacts
  BY <1>1, <1>2 DEF StopEarly, SkipPage, SaveFacts, progress
<1>a. ASSUME drafts = <<>>, x \in executions, UNCHANGED <<candidates, warnings>>
      PROVE  Accounted(x.page, x.extractor, d)'
  <2>1. d \notin ToSet(drafts)
    BY <1>a DEF ToSet
  <2> QED
    BY <1>0, <1>z, <1>a, <2>1 DEF Accounted
<1>3. CASE OpenPage \/ ClosePage
  BY <1>3, <1>a DEF OpenPage, ClosePage, Between, Idle, InHand
<1>4. CASE RunExtractor
  <2>1. PICK k : k = Min(Remaining)
    OBVIOUS
  <2>2. PICK new : new = [page |-> page, extractor |-> Registered[k], status |-> "succeeded"]
    OBVIOUS
  <2>3. /\ drafts = <<>> /\ UNCHANGED <<page, candidates, warnings>>
        /\ extractor' = k /\ executions' = executions \cup {new}
        /\ drafts' = DraftsOf[Registered[k]][page]
    BY <1>4, <2>1, <2>2 DEF RunExtractor, Executed, Idle
  <2>4. CASE x \in executions
    BY <1>a, <2>3, <2>4
  <2>5. CASE x = new
    <3>1. x.page = page /\ x.extractor = Registered[k]
      BY <2>2, <2>5
    <3>2. d \in ToSet(drafts')
      BY <1>z, <2>3, <3>1 DEF Made
    <3> QED
      BY <2>3, <3>1, <3>2
  <2> QED
    BY <1>z, <2>3, <2>4, <2>5
<1>5. CASE FailExtractor
  <2>1. PICK new : new = [page |-> page, extractor |-> Registered[Min(Remaining)], status |-> "failed"]
    OBVIOUS
  <2>2. /\ drafts = <<>> /\ UNCHANGED <<candidates, warnings>>
        /\ executions' = executions \cup {new}
    BY <1>5, <2>1 DEF FailExtractor, Executed, Idle
  <2>3. new.status = "failed"
    BY <2>1
  <2>4. x \in executions
    BY <1>z, <2>2, <2>3
  <2> QED
    BY <1>a, <2>2, <2>4
<1>6. CASE SaveEvidence
  <2>1. PICK c, dd, n : Adds(c, dd, n)
    BY <1>6, Added
  <2>2. UNCHANGED <<page, extractor, executions, warnings>>
    BY <1>6 DEF SaveEvidence
  <2>3. CASE Accounted(x.page, x.extractor, d)
    BY <2>1, <2>2, <2>3 DEF Accounted, Adds
  <2>4. CASE x.page = page /\ x.extractor = Registered[extractor] /\ d \in ToSet(drafts)
    <3>1. CASE d = dd
      <4>1. /\ n \in DOMAIN candidates' /\ candidates'[n].page = x.page
            /\ candidates'[n].extractor = x.extractor /\ From(candidates'[n], d)
        BY <2>1, <2>4, <3>1 DEF Adds
      <4> QED
        BY <4>1 DEF Accounted
    <3>2. CASE d # dd
      BY <2>1, <2>2, <2>4, <3>2 DEF Adds
    <3> QED
      BY <3>1, <3>2
  <2> QED
    BY <1>0, <1>z, <2>2, <2>3, <2>4
<1>7. CASE RefuseEvidence
  <2>1. PICK w : w = [page |-> page, extractor |-> Registered[extractor], draft |-> Head(drafts)]
    OBVIOUS
  <2>2. /\ drafts # <<>> /\ drafts' = Tail(drafts)
        /\ warnings' = Append(warnings, w)
        /\ UNCHANGED <<page, extractor, executions, candidates>>
    BY <1>7, <2>1 DEF RefuseEvidence, Dropped
  <2>3. ToSet(drafts) = {Head(drafts)} \cup ToSet(drafts')
    BY <2>2, Parts DEF Typed
  <2>4. /\ DOMAIN warnings' = DOMAIN warnings \cup {Len(warnings) + 1}
        /\ warnings'[Len(warnings) + 1] = w
        /\ \A i \in DOMAIN warnings : warnings'[i] = warnings[i]
    BY <2>2 DEF Typed
  <2>5. CASE Accounted(x.page, x.extractor, d)
    BY <2>2, <2>4, <2>5 DEF Accounted
  <2>6. CASE x.page = page /\ x.extractor = Registered[extractor] /\ d \in ToSet(drafts)
    <3>1. CASE d = Head(drafts)
      <4>1. w.page = x.page /\ w.extractor = x.extractor /\ w.draft = d
        BY <2>1, <2>6, <3>1
      <4> QED
        BY <2>4, <4>1 DEF Accounted
    <3>2. CASE d # Head(drafts)
      BY <2>2, <2>3, <2>6, <3>2
    <3> QED
      BY <3>1, <3>2
  <2> QED
    BY <1>0, <1>z, <2>2, <2>5, <2>6
<1>8. CASE UNCHANGED vars
  BY <1>1, <1>8 DEF vars, progress
<1> QED
  BY <1>2, <1>3, <1>4, <1>5, <1>6, <1>7, <1>8 DEF Next

-----------------------------------------------------------------------------
(* Evidence and facts.                                                     *)

LEMMA DocumentedStep ==
  ASSUME Typed, InHand, Documented, [Next]_vars
  PROVE  Documented'
<1>0. DOMAIN candidates = 1..Len(candidates) /\ Len(candidates) \in Nat
  BY DEF Typed
<1>1. ASSUME candidates' = candidates, DOMAIN evidence \subseteq DOMAIN evidence'  PROVE Documented'
  BY <1>1 DEF Documented
<1>2. CASE StopEarly \/ SkipPage \/ OpenPage \/ RunExtractor \/ FailExtractor \/ ClosePage \/ SaveFacts
  BY <1>1, <1>2 DEF StopEarly, SkipPage, OpenPage, RunExtractor, FailExtractor, ClosePage, SaveFacts
<1>a. ASSUME evidence' = Stored(Head(drafts))
      PROVE  DOMAIN evidence' = DOMAIN evidence \cup {EvidenceId(Head(drafts))}
  BY <1>a DEF Stored
<1>3. CASE SaveEvidence
  <2>1. PICK c, d, n : Adds(c, d, n)
    BY <1>3, Added
  <2>2. DOMAIN evidence' = DOMAIN evidence \cup {EvidenceId(Head(drafts))}
    BY <1>3, <1>a DEF SaveEvidence
  <2>3. ASSUME NEW i \in DOMAIN candidates'
        PROVE  /\ candidates'[i].id = i
               /\ candidates'[i].evidence =
                    {<<candidates'[i].page, candidates'[i].field, candidates'[i].fragment>>}
               /\ candidates'[i].evidence \subseteq DOMAIN evidence'
    <3>1. CASE i = n
      BY <3>1, <2>1, <2>2 DEF Adds
    <3>2. CASE i # n
      <4>1. i \in DOMAIN candidates /\ candidates'[i] = candidates[i]
        BY <3>2, <2>1 DEF Adds
      <4> QED
        BY <4>1, <2>2 DEF Documented
    <3> QED
      BY <3>1, <3>2
  <2> QED
    BY <2>3 DEF Documented
<1>4. CASE RefuseEvidence
  <2>1. candidates' = candidates
    BY <1>4 DEF RefuseEvidence, Dropped
  <2>2. evidence' = evidence \/ evidence' = Stored(Head(drafts))
    BY <1>4 DEF RefuseEvidence
  <2> QED
    BY <1>1, <1>a, <2>1, <2>2
<1>5. CASE UNCHANGED vars
  BY <1>1, <1>5 DEF vars
<1> QED
  BY <1>2, <1>3, <1>4, <1>5 DEF Next

LEMMA DecidedStep ==
  ASSUME InHand, Decided, [Next]_vars
  PROVE  Decided'
<1>1. ASSUME candidates' = candidates  PROVE Reconciled' = Reconciled
  BY <1>1 DEF Reconciled, FieldsFound, OutcomeOf, CandidatesFor
<1>2. CASE SaveFacts
  BY <1>1, <1>2 DEF SaveFacts, Decided
<1>3. CASE StopEarly \/ SkipPage \/ OpenPage \/ RunExtractor \/ FailExtractor \/ ClosePage
  BY <1>3 DEF StopEarly, SkipPage, OpenPage, RunExtractor, FailExtractor, ClosePage, Between, Idle, Decided
<1>4. CASE SaveEvidence \/ RefuseEvidence
  BY <1>4 DEF SaveEvidence, RefuseEvidence, InHand, Decided
<1>5. CASE UNCHANGED vars
  BY <1>1, <1>5 DEF vars, Decided
<1> QED
  BY <1>2, <1>3, <1>4, <1>5 DEF Next

-----------------------------------------------------------------------------
FactsInv ==
  /\ Typed /\ InHand /\ AllRun /\ Sourced /\ Handled /\ Documented /\ Decided

LEMMA FactsInit == Init => FactsInv
<1> SUFFICES ASSUME Init PROVE FactsInv
  OBVIOUS
<1>1. queue \in Seq(DOMAIN Pages)
  BY FactsAssumption DEF Init
<1>2. Typed
  BY <1>1 DEF Init, Typed
<1>3. InHand /\ Decided
  BY DEF Init, InHand, Decided
<1>4. AllRun /\ Sourced /\ Handled /\ Documented
  BY DEF Init, AllRun, Sourced, Handled, Documented, Opened
<1> QED
  BY <1>2, <1>3, <1>4 DEF FactsInv

\* What the extractors made of the pages, page by page and draft by draft, is in
\* the candidates, in the store or in the warnings at every step of the run.
THEOREM FactsInvariance == Spec => []FactsInv
<1>1. FactsInv /\ [Next]_vars => FactsInv'
  <2> SUFFICES ASSUME FactsInv, [Next]_vars PROVE FactsInv'
    OBVIOUS
  <2>1. Typed' /\ Documented'
    BY TypedStep, DocumentedStep DEF FactsInv
  <2>2. InHand'
    BY InHandStep DEF FactsInv
  <2>3. AllRun' /\ Sourced' /\ Handled' /\ Decided'
    BY AllRunStep, SourcedStep, HandledStep, DecidedStep DEF FactsInv
  <2> QED
    BY <2>1, <2>2, <2>3 DEF FactsInv
<1> QED
  BY FactsInit, <1>1, PTL DEF Spec

\* The candidates of one extractor on one page.
Kept(p, e) ==
  {candidates[i] : i \in {j \in DOMAIN candidates : candidates[j].page = p /\ candidates[j].extractor = e}}

\* An extractor that raises and a record of evidence that is refused cost what
\* they concern and nothing else.
THEOREM FailuresAreLocal == Spec => []FailuresStayLocal
<1>1. FactsInv => FailuresStayLocal
  <2> SUFFICES ASSUME FactsInv PROVE FailuresStayLocal
    OBVIOUS
  <2> USE DEF FactsInv
  <2>1. ASSUME NEW p \in Opened \ {page}, NEW e \in ToSet(Registered), Supports(e, Pages[p])
        PROVE  \E x \in executions : x.page = p /\ x.extractor = e
    BY <2>1 DEF AllRun, Among, Extracts
  <2>2. ASSUME NEW x \in executions, x.page # page, NEW kept, kept = Kept(x.page, x.extractor)
        PROVE  /\ x.status = "succeeded" =>
                    \A d \in Made(x.extractor, x.page) \ Lost(x.page, x.extractor) : \E c \in kept : From(c, d)
               /\ kept # {} => [x EXCEPT !.status = "succeeded"] \in executions
               /\ \A c \in kept : \E d \in Made(x.extractor, x.page) : From(c, d)
    <3>0. PICK y : y = [page |-> x.page, extractor |-> x.extractor, status |-> "succeeded"]
      OBVIOUS
    <3>a. y = [x EXCEPT !.status = "succeeded"]
      <4>1. x \in [page : DOMAIN Pages, extractor : Extracts, status : {"succeeded", "failed"}]
        BY <2>2 DEF Typed
      <4> QED
        BY <3>0, <4>1
    <3>1. ASSUME NEW c \in kept
          PROVE  y \in executions /\ \E d \in Made(x.extractor, x.page) : From(c, d)
      <4>1. PICK i \in DOMAIN candidates :
              c = candidates[i] /\ candidates[i].page = x.page /\ candidates[i].extractor = x.extractor
        BY <2>2 DEF Kept
      <4> QED
        BY <3>0, <4>1 DEF Sourced
    <3>2. ASSUME x.status = "succeeded", NEW d \in Made(x.extractor, x.page) \ Lost(x.page, x.extractor)
          PROVE  \E c \in kept : From(c, d)
      <4>1. PICK i \in DOMAIN candidates :
              candidates[i].page = x.page /\ candidates[i].extractor = x.extractor /\ From(candidates[i], d)
        BY <2>2, <3>2 DEF Handled
      <4> QED
        BY <2>2, <4>1 DEF Kept
    <3> QED
      BY <3>a, <3>1, <3>2
  <2>3. ASSUME NEW x \in executions, x.page # page
        PROVE  /\ x.status = "succeeded" =>
                    \A d \in Made(x.extractor, x.page) \ Lost(x.page, x.extractor) :
                      \E c \in Kept(x.page, x.extractor) : From(c, d)
               /\ Kept(x.page, x.extractor) # {} => [x EXCEPT !.status = "succeeded"] \in executions
               /\ \A c \in Kept(x.page, x.extractor) : \E d \in Made(x.extractor, x.page) : From(c, d)
    <3>1. PICK kept : kept = Kept(x.page, x.extractor)
      OBVIOUS
    <3> QED
      BY <2>2, <2>3, <3>1
  <2> QED
    BY <2>1, <2>3, Zenon DEF FailuresStayLocal, Made, From, Kept
<1> QED
  BY FactsInvariance, <1>1, PTL

-----------------------------------------------------------------------------
(* Candidates and groups of them.                                          *)

\* Candidates as the extractors yield them, each with an id of its own.
Proper(cs) ==
  /\ \A c \in cs : /\ c.id \in Nat /\ c.confidence \in 0..100 /\ c.exact \in BOOLEAN
                   /\ c.source \in DOMAIN SourcePriority \ {"manual"}
  /\ \A c, d \in cs : c.id = d.id => c = d

LEMMA ProperPart ==
  ASSUME NEW cs, Proper(cs), NEW part, part \subseteq cs
  PROVE  Proper(part)
BY DEF Proper

LEMMA MostIsMax ==
  ASSUME NEW T, T \subseteq 0..100, T # {}
  PROVE  Max(T) \in T /\ \A y \in T : y <= Max(T)
<1>1. PICK U : U = {100 - y : y \in T}
  OBVIOUS
<1>2. U \subseteq Nat /\ U # {}
  <2>1. \A y \in T : 100 - y \in Nat
    OBVIOUS
  <2> QED
    BY <1>1, <2>1
<1>3. PICK u \in U : \A y \in U : u <= y
  BY <1>2, LeastNat
<1>4. PICK x \in T : u = 100 - x
  BY <1>1, <1>3
<1>5. \A y \in T : x >= y
  <2> SUFFICES ASSUME NEW y \in T PROVE x >= y
    OBVIOUS
  <2>1. u <= 100 - y
    BY <1>1, <1>3
  <2> QED
    BY <2>1, <1>4
<1>6. \E z \in T : \A y \in T : z >= y
  BY <1>5
<1>7. Max(T) \in T /\ \A y \in T : Max(T) >= y
  BY <1>6 DEF Max
<1> QED
  BY <1>7

LEMMA BestIsBest ==
  ASSUME NEW cs, Proper(cs), cs # {}
  PROVE  /\ Best(cs) \in cs
         /\ Confidence(cs) \in 0..100 /\ \A c \in cs : c.confidence <= Confidence(cs)
<1>1. PICK T : T = {c.confidence : c \in cs}
  OBVIOUS
<1>2. T \subseteq 0..100 /\ T # {}
  BY <1>1 DEF Proper
<1>3. PICK t \in T : \A y \in T : y <= t
  BY <1>2, MostIsMax
<1>4. PICK U : U = {c.id : c \in {d \in cs : d.confidence = t}}
  OBVIOUS
<1>5. U \subseteq Nat /\ U # {}
  BY <1>1, <1>3, <1>4 DEF Proper
<1>6. PICK u \in U : \A y \in U : u <= y
  BY <1>5, LeastNat
<1>7. PICK c \in cs : c.id = u /\ c.confidence = t
  BY <1>4, <1>6
<1>8. \A d \in cs \ {c} : d.confidence < c.confidence \/ (d.confidence = c.confidence /\ c.id < d.id)
  <2> SUFFICES ASSUME NEW d \in cs \ {c}, ~(d.confidence < c.confidence)
               PROVE  d.confidence = c.confidence /\ c.id < d.id
    OBVIOUS
  <2>1. d.confidence \in 0..100 /\ c.confidence \in 0..100 /\ c.id \in Nat /\ d.id \in Nat /\ c.id # d.id
    BY DEF Proper
  <2>2. d.confidence <= t
    BY <1>1, <1>3
  <2>3. d.confidence = t
    BY <1>7, <2>1, <2>2
  <2>4. u <= d.id
    BY <1>4, <1>6, <2>3
  <2> QED
    BY <1>7, <2>1, <2>3, <2>4
<1>9. PICK b : b = Best(cs)
  OBVIOUS
<1>10. /\ b \in cs
       /\ \A d \in cs \ {b} : d.confidence < b.confidence \/ (d.confidence = b.confidence /\ b.id < d.id)
  BY <1>8, <1>9 DEF Best
<1>11. \A d \in cs : d.confidence <= b.confidence
  <2> SUFFICES ASSUME NEW d \in cs PROVE d.confidence <= b.confidence
    OBVIOUS
  <2>1. d.confidence \in 0..100 /\ b.confidence \in 0..100
    BY <1>10 DEF Proper
  <2>2. d = b \/ d.confidence < b.confidence \/ d.confidence = b.confidence
    BY <1>10
  <2> QED
    BY <2>1, <2>2
<1> QED
  BY <1>9, <1>10, <1>11 DEF Confidence, Proper

LEMMA Priorities ==
  \A s \in DOMAIN SourcePriority \ {"manual"} : SourcePriority[s] \in 20..100
BY DEF SourcePriority

LEMMA AuthorityIsMost ==
  ASSUME NEW cs, Proper(cs), cs # {}
  PROVE  /\ Authority(cs) \in 20..100
         /\ \A c \in cs : SourcePriority[c.source] <= Authority(cs)
         /\ \E c \in cs : SourcePriority[c.source] = Authority(cs)
<1>1. PICK T : T = {SourcePriority[c.source] : c \in cs}
  OBVIOUS
<1>2. T \subseteq 20..100 /\ T # {}
  BY <1>1, Priorities DEF Proper
<1>3. Max(T) \in T /\ \A y \in T : y <= Max(T)
  <2>1. T \subseteq 0..100
    BY <1>2
  <2> QED
    BY <1>2, <2>1, MostIsMax
<1>4. Authority(cs) = Max(T)
  BY <1>1 DEF Authority
<1> QED
  BY <1>1, <1>2, <1>3, <1>4

LEMMA FirstIsLeast ==
  ASSUME NEW cs, Proper(cs), cs # {}
  PROVE  First(cs) \in Nat /\ \E c \in cs : c.id = First(cs)
<1>1. PICK T : T = Ids(cs)
  OBVIOUS
<1>2. T \subseteq Nat /\ T # {}
  BY <1>1 DEF Ids, Proper
<1>3. Min(T) \in T
  BY <1>2, LeastIsMin
<1> QED
  BY <1>1, <1>2, <1>3 DEF First, Ids

\* Groups: parts of the candidates that have none in common.
Groups(groups, cs) ==
  /\ \A g \in groups : g \subseteq cs /\ g # {}
  /\ \A g, h \in groups : g # h => g \cap h = {}

LEMMA TopIsTop ==
  ASSUME NEW cs, Proper(cs), NEW groups, groups # {}, Groups(groups, cs)
  PROVE  Top(groups) \in groups /\ \A h \in groups \ {Top(groups)} : Outranks(Top(groups), h)
<1>0. \A g \in groups : Proper(g) /\ g # {}
  BY ProperPart DEF Groups
<1>a. \A g \in groups : Authority(g) \in 0..100 /\ Confidence(g) \in 0..100 /\ First(g) \in Nat
  BY <1>0, AuthorityIsMost, BestIsBest, FirstIsLeast
<1>b. \A g, h \in groups : First(g) = First(h) => g = h
  <2> SUFFICES ASSUME NEW g \in groups, NEW h \in groups, First(g) = First(h)  PROVE g = h
    OBVIOUS
  <2>1. PICK c \in g : c.id = First(g)
    BY <1>0, FirstIsLeast
  <2>2. PICK d \in h : d.id = First(h)
    BY <1>0, FirstIsLeast
  <2>3. c = d
    BY <2>1, <2>2 DEF Proper, Groups
  <2> QED
    BY <2>1, <2>2, <2>3 DEF Groups
<1>1. PICK T : T = {Authority(g) : g \in groups}
  OBVIOUS
<1>2. T \subseteq 0..100 /\ T # {}
  BY <1>1, <1>a
<1>3. PICK a \in T : \A y \in T : y <= a
  BY <1>2, MostIsMax
<1>4. PICK U : U = {Confidence(g) : g \in {h \in groups : Authority(h) = a}}
  OBVIOUS
<1>5. U \subseteq 0..100 /\ U # {}
  BY <1>1, <1>3, <1>4, <1>a
<1>6. PICK u \in U : \A y \in U : y <= u
  BY <1>5, MostIsMax
<1>7. PICK W : W = {First(g) : g \in {h \in groups : Authority(h) = a /\ Confidence(h) = u}}
  OBVIOUS
<1>8. W \subseteq Nat /\ W # {}
  BY <1>4, <1>6, <1>7, <1>a
<1>9. PICK w \in W : \A y \in W : w <= y
  BY <1>8, LeastNat
<1>10. PICK g \in groups : Authority(g) = a /\ Confidence(g) = u /\ First(g) = w
  BY <1>7, <1>9
<1>11. \A h \in groups \ {g} : Outranks(g, h)
  <2> SUFFICES ASSUME NEW h \in groups \ {g} PROVE Outranks(g, h)
    OBVIOUS
  <2>1. Authority(h) <= a
    BY <1>1, <1>3
  <2>2. Authority(h) = a => Confidence(h) <= u
    BY <1>4, <1>6
  <2>3. Authority(h) = a /\ Confidence(h) = u => w <= First(h)
    BY <1>7, <1>9
  <2>4. First(h) # w
    BY <1>b, <1>10
  <2>5. Authority(h) \in 0..100 /\ Confidence(h) \in 0..100 /\ First(h) \in Nat
    BY <1>a
  <2>6. a \in 0..100 /\ u \in 0..100 /\ w \in Nat
    BY <1>2, <1>5, <1>8
  <2> QED
    BY <1>10, <2>1, <2>2, <2>3, <2>4, <2>5, <2>6 DEF Outranks
<1> QED
  BY <1>11 DEF Top

-----------------------------------------------------------------------------
(* Outcomes.                                                               *)

Strategies ==
  {"scalar_preferred", "scalar_conflict_preserving", "boolean_positive_only", "boolean_explicit",
   "set_union", "structured_entity_merge", "time_series", "numeric_exact_or_estimate"}

LEMMA FieldsAreDefined ==
  ASSUME NEW f \in FieldPaths
  PROVE  MergeStrategy(f) \in Strategies /\ MinimumConfidence(f) \in Nat
<1>1. \A d \in Catalogue : d.merge_strategy \in Strategies /\ d.minimum_accepted_confidence \in Nat
  <2> USE DEF Strategies, Defined, AuthoritativeExact, ContactInfo, BooleanCapability, Technology,
              CatalogueEstimate, Growth, DeterministicInference
  <2>1. \A d \in IdentityFields : d.merge_strategy \in Strategies /\ d.minimum_accepted_confidence \in Nat
    BY DEF IdentityFields
  <2>2. \A d \in BusinessFields : d.merge_strategy \in Strategies /\ d.minimum_accepted_confidence \in Nat
    BY DEF BusinessFields
  <2>3. \A d \in CatalogueFields : d.merge_strategy \in Strategies /\ d.minimum_accepted_confidence \in Nat
    BY DEF CatalogueFields
  <2>4. \A d \in OperationsFields : d.merge_strategy \in Strategies /\ d.minimum_accepted_confidence \in Nat
    BY DEF OperationsFields
  <2>5. \A d \in TechnologyFields : d.merge_strategy \in Strategies /\ d.minimum_accepted_confidence \in Nat
    BY DEF TechnologyFields
  <2>6. \A d \in OrganisationFields : d.merge_strategy \in Strategies /\ d.minimum_accepted_confidence \in Nat
    BY DEF OrganisationFields
  <2>7. \A d \in GrowthFields : d.merge_strategy \in Strategies /\ d.minimum_accepted_confidence \in Nat
    BY DEF GrowthFields
  <2> QED
    BY <2>1, <2>2, <2>3, <2>4, <2>5, <2>6, <2>7 DEF Catalogue
<1>2. \E d \in Catalogue : d.field_path = f
  BY DEF FieldPaths
<1>3. DefinitionOf(f) \in Catalogue
  BY <1>2 DEF DefinitionOf
<1> QED
  BY <1>1, <1>3 DEF MergeStrategy, MinimumConfidence

\* The outcome rests on some of the candidates, and on their evidence.
Supported(o, cs) ==
  \E sel \in SUBSET cs : sel # {} /\ o.selected = Ids(sel) /\ o.evidence = Evidence(sel)

LEMMA AcceptedHas ==
  ASSUME NEW v, NEW n, NEW w, NEW sel, NEW o,
         \/ o = Accepted(v, n, w, sel)
         \/ \E x : o = [Accepted(v, n, w, sel) EXCEPT !.conflicting = x]
  PROVE  o.status = "accepted" /\ o.value = v /\ o.selected = Ids(sel) /\ o.evidence = Evidence(sel)
BY DEF Accepted

LEMMA EligibleAre ==
  ASSUME NEW cs, Proper(cs), NEW f
  PROVE  Eligible(cs, f) \subseteq cs /\ Proper(Eligible(cs, f))
<1>1. Eligible(cs, f) \subseteq cs
  BY DEF Eligible
<1> QED
  BY <1>1, ProperPart

\* The groups of those that say the same divide the candidates.
LEMMA SameKeyGroups ==
  ASSUME NEW cs, NEW groups, groups = ByValue(cs)
  PROVE  Groups(groups, cs) /\ (cs # {} => groups # {})
<1>1. \A g \in groups : \E c \in cs : g = {d \in cs : Normalized(d.value) = Normalized(c.value)}
  BY DEF ByValue
<1>2. \A g \in groups : g \subseteq cs /\ g # {}
  BY <1>1
<1>3. ASSUME NEW g \in groups, NEW h \in groups, NEW x, x \in g, x \in h
      PROVE  g = h
  <2>1. PICK c \in cs : g = {d \in cs : Normalized(d.value) = Normalized(c.value)}
    BY <1>1
  <2>2. PICK e \in cs : h = {d \in cs : Normalized(d.value) = Normalized(e.value)}
    BY <1>1
  <2>3. Normalized(c.value) = Normalized(e.value)
    BY <1>3, <2>1, <2>2
  <2> QED
    BY <2>1, <2>2, <2>3
<1>4. \A g, h \in groups : g # h => \A x : ~(x \in g /\ x \in h)
  BY <1>3
<1>5. \A g, h \in groups : g # h => g \cap h = {}
  BY <1>4
<1>6. \A c \in cs : {d \in cs : Normalized(d.value) = Normalized(c.value)} \in groups
  BY DEF ByValue
<1> QED
  BY <1>2, <1>5, <1>6 DEF Groups

LEMMA ScalarSupported ==
  ASSUME NEW cs, Proper(cs), NEW f, NEW o, o = ReconcileScalar(cs, f), o.status = "accepted"
  PROVE  Supported(o, cs)
<1>1. {c \in cs : c.source = "manual"} = {}
  BY DEF Proper
<1>2. PICK eligible : eligible = Eligible(cs, f)
  OBVIOUS
<1>3. PICK groups : groups = ByValue(eligible)
  OBVIOUS
<1>4. o = IF eligible = {} THEN Unknown
          ELSE IF Cardinality(groups) = 1 THEN Agreed(eligible) ELSE Ranked(groups, eligible)
  <2>1. eligible = {} => groups = {}
    BY <1>3 DEF ByValue
  <2>2. eligible = {} => Cardinality(groups) # 1
    BY <2>1, FS_EmptySet
  <2>3. o = CASE eligible = {} -> Unknown
              [] Cardinality(groups) = 1 -> Agreed(eligible)
              [] OTHER -> Ranked(groups, eligible)
    BY <1>1, <1>2, <1>3 DEF ReconcileScalar
  <2> QED
    BY <2>2, <2>3
<1>5. eligible \subseteq cs /\ Proper(eligible)
  BY <1>2, EligibleAre
<1>6. CASE eligible = {}
  BY <1>4, <1>6 DEF Unknown
<1>7. CASE eligible # {} /\ Cardinality(groups) = 1
  <2>1. PICK v, n, w : o = Accepted(v, n, w, eligible)
    BY <1>4, <1>7 DEF Agreed
  <2>2. o.selected = Ids(eligible) /\ o.evidence = Evidence(eligible)
    BY <2>1, AcceptedHas
  <2> QED
    BY <1>5, <1>7, <2>2 DEF Supported
<1>8. CASE eligible # {} /\ Cardinality(groups) # 1
  <2>1. groups # {} /\ Groups(groups, eligible)
    BY <1>3, <1>8, SameKeyGroups
  <2>2. PICK first : first = Top(groups)
    OBVIOUS
  <2>3. first \subseteq cs /\ first # {}
    BY <1>5, <2>1, <2>2, TopIsTop DEF Groups
  <2>4. PICK second : second = Top(groups \ {first})
    OBVIOUS
  <2>5. o = IF Authority(first) - Authority(second) >= PriorityOverrideGap
            THEN [Accepted(Best(first).value, Confidence(first), "verified", first)
                    EXCEPT !.conflicting = Ids(second)]
            ELSE Conflict(eligible, eligible)
    BY <1>4, <1>8, <2>2, <2>4 DEF Ranked
  <2>6. Conflict(eligible, eligible).status # "accepted"
    BY DEF Conflict
  <2>7. PICK v, n : v = Best(first).value /\ n = Confidence(first)
    OBVIOUS
  <2>8. o = [Accepted(v, n, "verified", first) EXCEPT !.conflicting = Ids(second)]
    BY <2>5, <2>6, <2>7
  <2>9. o.selected = Ids(first) /\ o.evidence = Evidence(first)
    BY <2>8, AcceptedHas
  <2> QED
    BY <2>3, <2>9 DEF Supported
<1> QED
  BY <1>6, <1>7, <1>8

LEMMA BooleanSupported ==
  ASSUME NEW cs, Proper(cs), NEW f, NEW b \in BOOLEAN,
         NEW o, o = ReconcileBoolean(cs, f, b), o.status = "accepted"
  PROVE  Supported(o, cs)
<1>1. PICK eligible : eligible = Eligible(cs, f)
  OBVIOUS
<1>2. PICK offers : offers = {c \in eligible : c.value = Truth(TRUE)}
  OBVIOUS
<1>3. PICK denials : denials = IF b THEN {c \in eligible : c.value = Truth(FALSE)} ELSE {}
  OBVIOUS
<1>4. o = CASE offers # {} /\ denials # {} -> Conflict(eligible, offers \cup denials)
            [] offers # {} /\ denials = {} -> Accepted(Truth(TRUE), Confidence(offers), "verified", offers)
            [] offers = {} /\ denials # {} -> Accepted(Truth(FALSE), Confidence(denials), "verified", denials)
            [] OTHER -> Unknown
  BY <1>1, <1>2, <1>3 DEF ReconcileBoolean
<1>5. offers \subseteq cs /\ denials \subseteq cs
  BY <1>1, <1>2, <1>3, EligibleAre
<1>6. CASE offers # {} /\ denials # {}
  <2>1. o = Conflict(eligible, offers \cup denials)
    BY <1>4, <1>6
  <2> QED
    BY <2>1 DEF Conflict
<1>7. CASE offers # {} /\ denials = {}
  <2>a. o = Accepted(Truth(TRUE), Confidence(offers), "verified", offers)
    BY <1>4, <1>7
  <2>b. PICK v : v = Truth(TRUE)
    OBVIOUS
  <2>0. o = Accepted(v, Confidence(offers), "verified", offers)
    BY <2>a, <2>b
  <2>1. o.selected = Ids(offers) /\ o.evidence = Evidence(offers)
    BY <2>0, AcceptedHas
  <2> QED
    BY <1>5, <1>7, <2>1 DEF Supported
<1>8. CASE offers = {} /\ denials # {}
  <2>a. o = Accepted(Truth(FALSE), Confidence(denials), "verified", denials)
    BY <1>4, <1>8
  <2>b. PICK v : v = Truth(FALSE)
    OBVIOUS
  <2>0. o = Accepted(v, Confidence(denials), "verified", denials)
    BY <2>a, <2>b
  <2>1. o.selected = Ids(denials) /\ o.evidence = Evidence(denials)
    BY <2>0, AcceptedHas
  <2> QED
    BY <1>5, <1>8, <2>1 DEF Supported
<1>9. CASE offers = {} /\ denials = {}
  BY <1>4, <1>9 DEF Unknown
<1> QED
  BY <1>6, <1>7, <1>8, <1>9

LEMMA ArraySupported ==
  ASSUME NEW cs, Proper(cs), NEW f, NEW o, o = ReconcileArray(cs, f), o.status = "accepted"
  PROVE  Supported(o, cs)
<1>1. PICK eligible : eligible = Eligible(cs, f)
  OBVIOUS
<1>2. \E v : o = IF eligible = {} THEN Unknown ELSE Accepted(v, Confidence(eligible), "verified", eligible)
  BY <1>1 DEF ReconcileArray
<1>3. eligible # {}
  BY <1>2 DEF Unknown
<1>4. o.selected = Ids(eligible) /\ o.evidence = Evidence(eligible)
  BY <1>2, <1>3, AcceptedHas
<1> QED
  BY <1>1, <1>3, <1>4, EligibleAre DEF Supported

LEMMA NumericSupported ==
  ASSUME NEW cs, Proper(cs), NEW f, NEW o, o = ReconcileNumeric(cs, f), o.status = "accepted"
  PROVE  Supported(o, cs)
<1>1. PICK eligible : eligible = Eligible(cs, f)
  OBVIOUS
<1>2. PICK exact : exact = {c \in eligible : c.exact}
  OBVIOUS
<1>3. PICK distinct : distinct = {c.value : c \in exact}
  OBVIOUS
<1>4. o = CASE eligible = {} -> Unknown
            [] exact # {} /\ Cardinality(distinct) = 1 ->
                 Accepted(Best(exact).value, Confidence(exact), "measured", exact)
            [] exact # {} /\ Cardinality(distinct) > 1 -> Conflict(exact, exact)
            [] OTHER -> Accepted(Best(eligible).value, Confidence(eligible), "inferred", {Best(eligible)})
  BY <1>1, <1>2, <1>3 DEF ReconcileNumeric
<1>5. eligible \subseteq cs /\ Proper(eligible) /\ exact \subseteq eligible
  BY <1>1, <1>2, EligibleAre
<1>6. CASE eligible = {}
  BY <1>4, <1>5, <1>6 DEF Unknown
<1>7. CASE eligible # {} /\ o = Accepted(Best(exact).value, Confidence(exact), "measured", exact) /\ exact # {}
  <2>1. o.selected = Ids(exact) /\ o.evidence = Evidence(exact)
    BY <1>7, AcceptedHas
  <2> QED
    BY <1>5, <1>7, <2>1 DEF Supported
<1>8. CASE o = Conflict(exact, exact)
  BY <1>8 DEF Conflict
<1>9. CASE eligible # {} /\ o = Accepted(Best(eligible).value, Confidence(eligible), "inferred", {Best(eligible)})
  <2>1. PICK sel : sel = {Best(eligible)}
    OBVIOUS
  <2>2. o.selected = Ids(sel) /\ o.evidence = Evidence(sel)
    BY <1>9, <2>1, AcceptedHas
  <2>3. Best(eligible) \in eligible
    BY <1>5, <1>9, BestIsBest
  <2> QED
    BY <1>5, <2>1, <2>2, <2>3 DEF Supported
<1> QED
  BY <1>4, <1>6, <1>7, <1>8, <1>9

LEMMA OutcomeSupported ==
  ASSUME NEW cs, Proper(cs), NEW f \in FieldPaths,
         NEW o, o = ReconcileCandidates(cs, f), o.status = "accepted"
  PROVE  Supported(o, cs)
<1>1. PICK strategy : strategy = MergeStrategy(f)
  OBVIOUS
<1>2. strategy \in Strategies
  BY <1>1, FieldsAreDefined
<1>3. \/ o = Unknown \/ o = ReconcileScalar(cs, f)
      \/ o = ReconcileBoolean(cs, f, FALSE) \/ o = ReconcileBoolean(cs, f, TRUE)
      \/ o = ReconcileArray(cs, f) \/ o = ReconcileNumeric(cs, f)
  BY <1>1, <1>2 DEF ReconcileCandidates, Strategies
<1>4. o # Unknown
  BY DEF Unknown
<1> QED
  BY <1>3, <1>4, ScalarSupported, BooleanSupported, ArraySupported, NumericSupported

-----------------------------------------------------------------------------
(* The candidates of a field.                                              *)

LEMMA CandidatesAreProper ==
  ASSUME FactsInv, NEW f
  PROVE  /\ Proper(CandidatesFor(f))
         /\ \A c \in CandidatesFor(f) :
              /\ c.field = f /\ c.id \in DOMAIN candidates /\ c = candidates[c.id]
              /\ c.evidence = {<<c.page, c.field, c.fragment>>}
              /\ c.evidence \subseteq DOMAIN evidence
<1>1. \A c \in CandidatesFor(f) : c.field = f /\ \E i \in DOMAIN candidates : c = candidates[i] /\ c.id = i
  BY DEF CandidatesFor, ToSet, FactsInv, Documented
<1>2. \A i \in DOMAIN candidates : i \in Nat /\ candidates[i] \in AllCandidates
  BY DEF FactsInv, Typed
<1>3. ASSUME NEW c \in CandidatesFor(f)
      PROVE  /\ c.id \in Nat /\ c.confidence \in 0..100 /\ c.exact \in BOOLEAN
             /\ c.source \in DOMAIN SourcePriority \ {"manual"}
  <2>1. c \in AllCandidates
    BY <1>1, <1>2
  <2> QED
    BY <2>1, CandidateFields
<1>4. \A c, d \in CandidatesFor(f) : c.id = d.id => c = d
  BY <1>1
<1>5. Proper(CandidatesFor(f))
  BY <1>3, <1>4 DEF Proper
<1> QED
  BY <1>1, <1>5 DEF FactsInv, Documented

LEMMA FoundFields ==
  ASSUME FactsInv
  PROVE  FieldsFound \subseteq FieldPaths
<1>1. \A i \in DOMAIN candidates : candidates[i] \in AllCandidates
  BY DEF FactsInv, Typed
<1>2. \A i \in DOMAIN candidates : candidates[i].field \in FieldPaths
  BY <1>1, CandidateFields
<1> QED
  BY <1>2 DEF FieldsFound

\* A saved fact is the outcome of its field.
LEMMA FactsAreOutcomes ==
  ASSUME FactsInv, NEW f \in DOMAIN facts
  PROVE  /\ phase = "done" /\ f \in FieldsFound
         /\ facts[f] = OutcomeOf(f) /\ facts[f].status # "unknown"
<1>1. phase = "done" /\ facts = Reconciled
  BY DEF FactsInv, Decided
<1> QED
  BY <1>1 DEF Reconciled

\* A fact is accepted only from candidates that left evidence of its field, on
\* the page they came from, in the store.
THEOREM AcceptedAreEvidenced == Spec => []FactsAreEvidenced
<1>1. FactsInv => FactsAreEvidenced
  <2> SUFFICES ASSUME FactsInv, NEW f \in DOMAIN facts, facts[f].status = "accepted"
               PROVE  /\ facts[f].selected # {}
                      /\ \A c \in facts[f].selected :
                           \E id \in facts[f].evidence :
                             id \in DOMAIN evidence /\ id[1] = candidates[c].page /\ id[2] = f
    BY DEF FactsAreEvidenced
  <2>1. PICK cs : cs = CandidatesFor(f)
    OBVIOUS
  <2>2. f \in FieldPaths /\ facts[f] = ReconcileCandidates(cs, f)
    BY <2>1, FactsAreOutcomes, FoundFields DEF OutcomeOf
  <2>3. /\ Proper(cs)
        /\ \A c \in cs :
              /\ c.field = f /\ c.id \in DOMAIN candidates /\ c = candidates[c.id]
              /\ c.evidence = {<<c.page, c.field, c.fragment>>}
              /\ c.evidence \subseteq DOMAIN evidence
    BY <2>1, CandidatesAreProper
  <2>4. Supported(facts[f], cs)
    BY <2>2, <2>3, OutcomeSupported
  <2>5. PICK sel \in SUBSET cs : sel # {} /\ facts[f].selected = Ids(sel) /\ facts[f].evidence = Evidence(sel)
    BY <2>4 DEF Supported
  <2>6. facts[f].selected # {}
    BY <2>5 DEF Ids
  <2>7. ASSUME NEW n \in facts[f].selected
        PROVE  \E id \in facts[f].evidence :
                 id \in DOMAIN evidence /\ id[1] = candidates[n].page /\ id[2] = f
    <3>1. PICK c \in sel : c.id = n
      BY <2>5, <2>7 DEF Ids
    <3>2. PICK id : id = <<c.page, c.field, c.fragment>>
      OBVIOUS
    <3>3. c = candidates[n] /\ c.field = f /\ id \in c.evidence /\ id \in DOMAIN evidence
      BY <2>3, <3>1, <3>2
    <3>4. id \in facts[f].evidence
      BY <2>5, <3>1, <3>3 DEF Evidence
    <3>5. id[1] = candidates[n].page /\ id[2] = f
      BY <3>2, <3>3
    <3> QED
      BY <3>3, <3>4, <3>5
  <2> QED
    BY <2>6, <2>7
<1> QED
  BY FactsInvariance, <1>1, PTL

\* An outcome is one of three.
LEMMA OutcomeStatuses ==
  ASSUME NEW cs, Proper(cs), NEW f \in FieldPaths, NEW o, o = ReconcileCandidates(cs, f)
  PROVE  o.status \in {"unknown", "accepted", "conflicting"}
<1>1. PICK strategy : strategy = MergeStrategy(f)
  OBVIOUS
<1>2. strategy \in Strategies
  BY <1>1, FieldsAreDefined
<1>3. \/ o = Unknown \/ o = ReconcileScalar(cs, f)
      \/ o = ReconcileBoolean(cs, f, FALSE) \/ o = ReconcileBoolean(cs, f, TRUE)
      \/ o = ReconcileArray(cs, f) \/ o = ReconcileNumeric(cs, f)
  BY <1>1, <1>2 DEF ReconcileCandidates, Strategies
<1>4. Unknown.status = "unknown"
  BY DEF Unknown
<1>5. \A v, n, w, sel : Accepted(v, n, w, sel).status = "accepted"
  BY DEF Accepted
<1>6. \A some, all : Conflict(some, all).status = "conflicting"
  BY DEF Conflict
<1>7. \A v, n, w, sel, x : [Accepted(v, n, w, sel) EXCEPT !.conflicting = x].status = "accepted"
  BY DEF Accepted
<1>8. PICK eligible : eligible = Eligible(cs, f)
  OBVIOUS
<1>9. \A groups : Ranked(groups, eligible).status \in {"accepted", "conflicting"}
  BY <1>6, <1>7 DEF Ranked
<1>10. Agreed(eligible).status = "accepted"
  BY <1>5 DEF Agreed
<1>11. ASSUME o = ReconcileScalar(cs, f)  PROVE o.status \in {"unknown", "accepted", "conflicting"}
  <2>1. {c \in cs : c.source = "manual"} = {}
    BY DEF Proper
  <2>2. PICK groups : groups = ByValue(eligible)
    OBVIOUS
  <2>a. o = CASE eligible = {} -> Unknown
              [] Cardinality(groups) = 1 -> Agreed(eligible)
              [] OTHER -> Ranked(groups, eligible)
    BY <1>8, <1>11, <2>1, <2>2 DEF ReconcileScalar
  <2>3. o = Unknown \/ o = Agreed(eligible) \/ o = Ranked(groups, eligible)
    BY <2>a
  <2> QED
    BY <2>3, <1>4, <1>9, <1>10
<1>12. ASSUME NEW b \in BOOLEAN, o = ReconcileBoolean(cs, f, b)
       PROVE  o.status \in {"unknown", "accepted", "conflicting"}
  <2>1. PICK offers, denials :
          /\ offers = {c \in eligible : c.value = Truth(TRUE)}
          /\ denials = IF b THEN {c \in eligible : c.value = Truth(FALSE)} ELSE {}
    OBVIOUS
  <2>2. o = CASE offers # {} /\ denials # {} -> Conflict(eligible, offers \cup denials)
              [] offers # {} /\ denials = {} -> Accepted(Truth(TRUE), Confidence(offers), "verified", offers)
              [] offers = {} /\ denials # {} -> Accepted(Truth(FALSE), Confidence(denials), "verified", denials)
              [] OTHER -> Unknown
    BY <1>8, <1>12, <2>1 DEF ReconcileBoolean
  <2>3. \/ o = Conflict(eligible, offers \cup denials) \/ o = Unknown
        \/ o = Accepted(Truth(TRUE), Confidence(offers), "verified", offers)
        \/ o = Accepted(Truth(FALSE), Confidence(denials), "verified", denials)
    BY <2>2
  <2> QED
    BY <2>3, <1>4, <1>5, <1>6
<1>13. ASSUME o = ReconcileArray(cs, f)  PROVE o.status \in {"unknown", "accepted", "conflicting"}
  <2>1. \E v : o = IF eligible = {} THEN Unknown ELSE Accepted(v, Confidence(eligible), "verified", eligible)
    BY <1>8, <1>13 DEF ReconcileArray
  <2> QED
    BY <2>1, <1>4, <1>5
<1>14. ASSUME o = ReconcileNumeric(cs, f)  PROVE o.status \in {"unknown", "accepted", "conflicting"}
  <2>1. PICK exact : exact = {c \in eligible : c.exact}
    OBVIOUS
  <2>2. PICK distinct : distinct = {c.value : c \in exact}
    OBVIOUS
  <2>3. o = CASE eligible = {} -> Unknown
              [] exact # {} /\ Cardinality(distinct) = 1 ->
                   Accepted(Best(exact).value, Confidence(exact), "measured", exact)
              [] exact # {} /\ Cardinality(distinct) > 1 -> Conflict(exact, exact)
              [] OTHER -> Accepted(Best(eligible).value, Confidence(eligible), "inferred", {Best(eligible)})
    BY <1>8, <1>14, <2>1, <2>2 DEF ReconcileNumeric
  <2>4. \/ o = Unknown \/ o = Conflict(exact, exact)
        \/ o = Accepted(Best(exact).value, Confidence(exact), "measured", exact)
        \/ o = Accepted(Best(eligible).value, Confidence(eligible), "inferred", {Best(eligible)})
    BY <2>1, <2>3
  <2> QED
    BY <2>4, <1>4, <1>5, <1>6
<1> QED
  BY <1>3, <1>4, <1>11, <1>12, <1>13, <1>14

\* The fields and outcomes of the saved facts, the ids of the candidates and
\* every other variable keep their types.
THEOREM TypeCorrect == Spec => []TypeOK
<1>1. FactsInv => TypeOK
  <2> SUFFICES ASSUME FactsInv PROVE TypeOK
    OBVIOUS
  <2>1. \A i \in DOMAIN candidates : candidates[i].field \in FieldPaths /\ candidates[i].id = i
    <3>1. \A i \in DOMAIN candidates : candidates[i] \in AllCandidates
      BY DEF FactsInv, Typed
    <3> QED
      BY <3>1, CandidateFields DEF FactsInv, Documented
  <2>2. ASSUME NEW f \in DOMAIN facts
        PROVE  f \in FieldPaths /\ facts[f].status \in {"accepted", "conflicting"}
    <3>1. f \in FieldPaths /\ facts[f] = OutcomeOf(f) /\ facts[f].status # "unknown"
      BY FactsAreOutcomes, FoundFields
    <3>2. PICK cs, o : cs = CandidatesFor(f) /\ o = OutcomeOf(f)
      OBVIOUS
    <3>3. Proper(cs)
      BY <3>2, CandidatesAreProper
    <3>4. o = ReconcileCandidates(cs, f)
      BY <3>2 DEF OutcomeOf
    <3>5. o.status \in {"unknown", "accepted", "conflicting"}
      BY <3>1, <3>3, <3>4, OutcomeStatuses
    <3> QED
      BY <3>1, <3>2, <3>5
  <2> QED
    BY <2>1, <2>2, ElevenExtractors DEF FactsInv, Typed, TypeOK, Extracts
<1> QED
  BY FactsInvariance, <1>1, PTL

-----------------------------------------------------------------------------
(* The order of the pages decides nothing.                                 *)

LEMMA FiniteRange ==
  ASSUME NEW S, IsFiniteSet(S), NEW T, NEW m \in [S -> T], \A t \in T : \E x \in S : m[x] = t
  PROVE  IsFiniteSet(T)
<1>1. m \in Surjection(S, T)
  BY DEF Surjection
<1> QED
  BY <1>1, FS_Surjection

\* Those that say the same as a value, and whether it outdoes every other.
Backing(cs, value) == {c \in cs : Normalized(c.value) = Normalized(value)}
Outdoes(cs, value) ==
  /\ Backing(cs, value) # {}
  /\ \A d \in cs \ Backing(cs, value) :
       \E c \in Backing(cs, value) : SourcePriority[c.source] >= SourcePriority[d.source] + 20
Winning(cs) == {c.value : c \in {d \in cs : Outdoes(cs, d.value)}}

\* One group: it is accepted, and nothing else says otherwise.
LEMMA OneGroupWins ==
  ASSUME NEW cs, Proper(cs), cs # {},
         \A c, d \in cs : Normalized(c.value) = Normalized(d.value)
  PROVE  Agreed(cs).status = "accepted" /\ Agreed(cs).value \in Winning(cs)
<1>1. PICK b \in cs : b = Best(cs)
  BY BestIsBest
<1>2. Backing(cs, b.value) = cs
  BY DEF Backing
<1>3. Outdoes(cs, b.value)
  BY <1>2 DEF Outdoes
<1>4. b.value \in Winning(cs)
  BY <1>3 DEF Winning
<1>a. PICK v : v = b.value
  OBVIOUS
<1>5. PICK n, w, o : o = Accepted(v, n, w, cs) /\ o = Agreed(cs)
  BY <1>1, <1>a DEF Agreed
<1>6. o.status = "accepted" /\ o.value = b.value
  BY <1>5, <1>a DEF Accepted
<1> QED
  BY <1>4, <1>5, <1>6

\* Several groups: the first is accepted just if it outdoes the second.
LEMMA FirstGroupWins ==
  ASSUME NEW cs, Proper(cs), NEW groups,
         groups = ByValue(cs),
         NEW first, first = Top(groups), groups # {},
         NEW second, second = Top(groups \ {first}), groups # {first},
         NEW o, o = Ranked(groups, cs)
  PROVE  IF Winning(cs) = {} THEN o.status = "conflicting"
         ELSE o.status = "accepted" /\ o.value \in Winning(cs)
<1>1. Groups(groups, cs)
  BY SameKeyGroups
<1>2. first \in groups /\ \A h \in groups \ {first} : Outranks(first, h)
  BY <1>1, TopIsTop
<1>3. second \in groups \ {first} /\ \A h \in (groups \ {first}) \ {second} : Outranks(second, h)
  <2>1. PICK others : others = groups \ {first}
    OBVIOUS
  <2>a. others # {}
    BY <1>2, <2>1
  <2>b. others \subseteq groups
    BY <2>1
  <2>2. others # {} /\ Groups(others, cs)
    BY <1>1, <2>a, <2>b DEF Groups
  <2> QED
    BY <2>1, <2>2, TopIsTop
<1>4. \A g \in groups :
        /\ Authority(g) \in 20..100
        /\ \A c \in g : SourcePriority[c.source] <= Authority(g)
        /\ \E c \in g : SourcePriority[c.source] = Authority(g)
  <2> SUFFICES ASSUME NEW g \in groups
               PROVE  /\ Authority(g) \in 20..100
                      /\ \A c \in g : SourcePriority[c.source] <= Authority(g)
                      /\ \E c \in g : SourcePriority[c.source] = Authority(g)
    OBVIOUS
  <2>1. Proper(g) /\ g # {}
    BY <1>1, ProperPart DEF Groups
  <2> QED
    BY <2>1, AuthorityIsMost
<1>5. \A g \in groups \ {first} : Authority(g) <= Authority(first)
  BY <1>2, <1>4 DEF Outranks
<1>6. \A g \in groups \ {first} : Authority(g) <= Authority(second)
  <2> SUFFICES ASSUME NEW g \in groups \ {first} PROVE Authority(g) <= Authority(second)
    OBVIOUS
  <2>1. Authority(g) \in 20..100 /\ Authority(second) \in 20..100
    BY <1>3, <1>4
  <2>2. CASE g = second
    BY <2>1, <2>2
  <2>3. CASE g # second
    <3>1. Outranks(second, g)
      BY <1>3, <2>3
    <3> QED
      BY <2>1, <3>1 DEF Outranks
  <2> QED
    BY <2>2, <2>3
<1>7. \A c \in cs : SourcePriority[c.source] \in 20..100
  BY Priorities DEF Proper
<1>8. \A c \in cs : Backing(cs, c.value) \in groups /\ c \in Backing(cs, c.value)
  BY DEF Backing, ByValue
<1>9. \A g \in groups : \A c \in g : c \in cs /\ g = Backing(cs, c.value)
  <2> SUFFICES ASSUME NEW g \in groups, NEW c \in g PROVE c \in cs /\ g = Backing(cs, c.value)
    OBVIOUS
  <2>1. PICK e \in cs : g = {d \in cs : Normalized(d.value) = Normalized(e.value)}
    BY DEF ByValue
  <2>2. c \in cs /\ Normalized(c.value) = Normalized(e.value)
    BY <2>1
  <2> QED
    BY <2>1, <2>2 DEF Backing
<1>10. CASE Authority(first) - Authority(second) >= 20
  <2>1. first # {} /\ Proper(first)
    BY <1>1, <1>2, ProperPart DEF Groups
  <2>2. PICK b \in first : b = Best(first)
    BY <2>1, BestIsBest
  <2>3. Backing(cs, b.value) = first /\ b \in cs
    BY <1>2, <1>9
  <2>4. PICK c \in first : SourcePriority[c.source] = Authority(first)
    BY <1>2, <1>4
  <2>5. ASSUME NEW d \in cs \ first
        PROVE  SourcePriority[c.source] >= SourcePriority[d.source] + 20
    <3>1. PICK h \in groups : h = Backing(cs, d.value) /\ d \in h
      BY <1>8
    <3>2. h # first
      BY <2>5, <3>1
    <3>3. SourcePriority[d.source] <= Authority(h) /\ Authority(h) <= Authority(second)
      BY <1>4, <1>6, <3>1, <3>2
    <3>4. /\ SourcePriority[d.source] \in 20..100 /\ Authority(h) \in 20..100
          /\ Authority(first) \in 20..100 /\ Authority(second) \in 20..100
      BY <1>2, <1>3, <1>4, <1>7
    <3>5. PICK x, y, z, u, v :
            /\ x = SourcePriority[c.source] /\ y = SourcePriority[d.source]
            /\ z = Authority(first) /\ u = Authority(second) /\ v = Authority(h)
      OBVIOUS
    <3>6. /\ y \in 20..100 /\ v \in 20..100 /\ z \in 20..100 /\ u \in 20..100
          /\ z - u >= 20 /\ x = z /\ y <= v /\ v <= u
      BY <1>10, <2>4, <3>3, <3>4, <3>5
    <3>7. x >= y + 20
      BY <3>6
    <3> QED
      BY <3>5, <3>7
  <2>6. Outdoes(cs, b.value)
    BY <2>3, <2>5 DEF Outdoes
  <2>7. b.value \in Winning(cs)
    BY <2>3, <2>6 DEF Winning
  <2>8. PICK n : n = Confidence(first)
    OBVIOUS
  <2>a. PICK v : v = b.value
    OBVIOUS
  <2>9. o = [Accepted(v, n, "verified", first) EXCEPT !.conflicting = Ids(second)]
    BY <1>10, <2>2, <2>8, <2>a DEF Ranked, PriorityOverrideGap
  <2>10. o.status = "accepted" /\ o.value = b.value
    BY <2>9, <2>a DEF Accepted
  <2> QED
    BY <2>7, <2>10
<1>11. CASE ~(Authority(first) - Authority(second) >= 20)
  <2>1. o = Conflict(cs, cs)
    BY <1>11 DEF Ranked, PriorityOverrideGap
  <2>2. o.status = "conflicting"
    BY <2>1 DEF Conflict
  <2>3. ASSUME NEW b \in cs, Outdoes(cs, b.value)  PROVE FALSE
    <3>1. PICK h \in groups : h = Backing(cs, b.value)
      BY <1>8
    <3>2. \A d \in cs \ h : \E c \in h : SourcePriority[c.source] >= SourcePriority[d.source] + 20
      BY <2>3, <3>1 DEF Outdoes
    <3>3. CASE h = first
      <4>1. PICK d \in second : SourcePriority[d.source] = Authority(second)
        BY <1>3, <1>4
      <4>2. d \in cs \ h
        BY <1>1, <1>2, <1>3, <3>3 DEF Groups
      <4>3. PICK c \in h : SourcePriority[c.source] >= SourcePriority[d.source] + 20
        BY <3>2, <4>2
      <4>4. SourcePriority[c.source] <= Authority(first) /\ c \in cs
        BY <1>1, <1>4, <3>3 DEF Groups
      <4>5. /\ Authority(first) \in 20..100 /\ Authority(second) \in 20..100
            /\ SourcePriority[c.source] \in 20..100
        BY <1>2, <1>3, <1>4, <1>7, <4>4
      <4> QED
        BY <1>11, <4>1, <4>3, <4>4, <4>5
    <3>4. CASE h # first
      <4>1. PICK d \in first : SourcePriority[d.source] = Authority(first)
        BY <1>2, <1>4
      <4>2. d \in cs \ h
        BY <1>1, <1>2, <3>4 DEF Groups
      <4>3. PICK c \in h : SourcePriority[c.source] >= SourcePriority[d.source] + 20
        BY <3>2, <4>2
      <4>4. SourcePriority[c.source] <= Authority(h) /\ Authority(h) <= Authority(first) /\ c \in cs
        BY <1>1, <1>4, <1>5, <3>4 DEF Groups
      <4>5. /\ Authority(first) \in 20..100 /\ Authority(h) \in 20..100
            /\ SourcePriority[c.source] \in 20..100
        BY <1>2, <1>4, <1>7, <4>4
      <4> QED
        BY <4>1, <4>3, <4>4, <4>5
    <3> QED
      BY <3>3, <3>4
  <2>4. Winning(cs) = {}
    BY <2>3 DEF Winning
  <2> QED
    BY <2>2, <2>4
<1> QED
  BY <1>10, <1>11

LEMMA FiniteGroups ==
  ASSUME NEW cs, IsFiniteSet(cs), NEW groups, groups = ByValue(cs)
  PROVE  IsFiniteSet(groups)
<1>1. PICK m : m = [c \in cs |-> {d \in cs : Normalized(d.value) = Normalized(c.value)}]
  OBVIOUS
<1>2. \A c \in cs : m[c] \in groups
  BY <1>1 DEF ByValue
<1>3. m \in [cs -> groups]
  BY <1>1, <1>2
<1>4. \A g \in groups : \E c \in cs : m[c] = g
  BY <1>1 DEF ByValue
<1> QED
  BY <1>3, <1>4, FiniteRange

LEMMA FiniteValues ==
  ASSUME NEW cs, IsFiniteSet(cs), NEW values, values = {c.value : c \in cs}
  PROVE  IsFiniteSet(values)
<1>1. PICK m : m = [c \in cs |-> c.value]
  OBVIOUS
<1>2. m \in [cs -> values]
  BY <1>1
<1>3. \A t \in values : \E c \in cs : m[c] = t
  BY <1>1
<1> QED
  BY <1>2, <1>3, FiniteRange

\* A text: the outcome is a winning value, or a conflict if there is none.
LEMMA ScalarOutcome ==
  ASSUME NEW cs, Proper(cs), NEW f, NEW eligible, eligible = Eligible(cs, f), IsFiniteSet(eligible),
         NEW o, o = ReconcileScalar(cs, f)
  PROVE  IF eligible = {} THEN o.status = "unknown"
         ELSE IF Winning(eligible) = {} THEN o.status = "conflicting"
         ELSE o.status = "accepted" /\ o.value \in Winning(eligible)
<1>1. {c \in cs : c.source = "manual"} = {}
  BY DEF Proper
<1>2. PICK groups : groups = ByValue(eligible)
  OBVIOUS
<1>3. o = CASE eligible = {} -> Unknown
            [] Cardinality(groups) = 1 -> Agreed(eligible)
            [] OTHER -> Ranked(groups, eligible)
  BY <1>1, <1>2 DEF ReconcileScalar
<1>4. Proper(eligible)
  BY EligibleAre
<1>5. IsFiniteSet(groups)
  BY <1>2, FiniteGroups
<1>6. CASE eligible = {}
  <2>1. groups = {}
    BY <1>2, <1>6 DEF ByValue
  <2>2. Cardinality(groups) # 1
    BY <2>1, FS_EmptySet
  <2>3. o = Unknown
    BY <1>3, <1>6, <2>2
  <2> QED
    BY <1>6, <2>3 DEF Unknown
<1>7. CASE eligible # {} /\ Cardinality(groups) = 1
  <2>1. PICK g : groups = {g}
    BY <1>5, <1>7, FS_Singleton
  <2>2. ASSUME NEW c \in eligible
        PROVE  {d \in eligible : Normalized(d.value) = Normalized(c.value)} = g
    <3>1. {d \in eligible : Normalized(d.value) = Normalized(c.value)} \in groups
      BY <1>2 DEF ByValue
    <3> QED
      BY <2>1, <3>1
  <2>3. \A c, d \in eligible : Normalized(c.value) = Normalized(d.value)
    <3> SUFFICES ASSUME NEW c \in eligible, NEW d \in eligible
                 PROVE  Normalized(c.value) = Normalized(d.value)
      OBVIOUS
    <3>1. c \in {e \in eligible : Normalized(e.value) = Normalized(d.value)}
      BY <2>2
    <3> QED
      BY <3>1
  <2>4. o = Agreed(eligible)
    BY <1>3, <1>7
  <2>5. o.status = "accepted" /\ o.value \in Winning(eligible)
    BY <1>4, <1>7, <2>3, <2>4, OneGroupWins
  <2> QED
    BY <1>7, <2>5
<1>8. CASE eligible # {} /\ Cardinality(groups) # 1
  <2>1. PICK first : first = Top(groups)
    OBVIOUS
  <2>2. PICK second : second = Top(groups \ {first})
    OBVIOUS
  <2>3. groups # {first}
    BY <1>8, FS_Singleton
  <2>4. groups # {}
    BY <1>2, <1>8, SameKeyGroups
  <2>5. o = Ranked(groups, eligible)
    BY <1>3, <1>8
  <2>6. IF Winning(eligible) = {} THEN o.status = "conflicting"
        ELSE o.status = "accepted" /\ o.value \in Winning(eligible)
    BY <1>2, <1>4, <2>1, <2>2, <2>3, <2>4, <2>5, FirstGroupWins
  <2> QED
    BY <1>8, <2>6
<1> QED
  BY <1>6, <1>7, <1>8

\* A number: the exact counts are accepted if they agree, in conflict if not.
LEMMA NumericOutcome ==
  ASSUME NEW cs, Proper(cs), NEW f, NEW exact, exact = {c \in Eligible(cs, f) : c.exact},
         exact # {}, IsFiniteSet(exact),
         NEW distinct, distinct = {c.value : c \in exact},
         NEW o, o = ReconcileNumeric(cs, f)
  PROVE  IF Cardinality(distinct) > 1 THEN o.status = "conflicting"
         ELSE o.status = "accepted" /\ {o.value} = distinct
<1>1. Proper(Eligible(cs, f)) /\ exact \subseteq Eligible(cs, f) /\ Eligible(cs, f) # {}
  BY EligibleAre
<1>2. Proper(exact)
  BY <1>1, ProperPart
<1>3. IsFiniteSet(distinct)
  BY FiniteValues
<1>4. Cardinality(distinct) \in Nat /\ Cardinality(distinct) # 0
  BY <1>3, FS_CardinalityType, FS_EmptySet
<1>5. o = CASE Cardinality(distinct) = 1 -> Accepted(Best(exact).value, Confidence(exact), "measured", exact)
            [] Cardinality(distinct) > 1 -> Conflict(exact, exact)
            [] OTHER -> Accepted(Best(Eligible(cs, f)).value, Confidence(Eligible(cs, f)), "inferred",
                                 {Best(Eligible(cs, f))})
  BY <1>1 DEF ReconcileNumeric
<1>6. CASE Cardinality(distinct) > 1
  <2>1. o = Conflict(exact, exact)
    BY <1>4, <1>5, <1>6
  <2>2. o.status = "conflicting"
    BY <2>1 DEF Conflict
  <2> QED
    BY <1>6, <2>2
<1>7. CASE Cardinality(distinct) = 1
  <2>1. PICK t : distinct = {t}
    BY <1>3, <1>7, FS_Singleton
  <2>2. PICK b : b = Best(exact)
    OBVIOUS
  <2>3. b \in exact
    BY <1>2, <2>2, BestIsBest
  <2>4. b.value = t
    BY <2>1, <2>3
  <2>5. PICK v, n : v = Best(exact).value /\ n = Confidence(exact)
    OBVIOUS
  <2>6. o = Accepted(v, n, "measured", exact)
    BY <1>5, <1>7, <2>5
  <2>7. o.status = "accepted" /\ o.value = v
    BY <2>6, AcceptedHas
  <2>8. o.status = "accepted" /\ {o.value} = distinct
    BY <2>1, <2>2, <2>4, <2>5, <2>7
  <2> QED
    BY <1>7, <2>8
<1> QED
  BY <1>4, <1>6, <1>7

LEMMA FiniteCandidates ==
  ASSUME FactsInv, NEW f
  PROVE  IsFiniteSet(CandidatesFor(f))
<1>1. Len(candidates) \in Nat /\ DOMAIN candidates = 1..Len(candidates)
  BY DEF FactsInv, Typed
<1>2. PICK T : T = ToSet(candidates)
  OBVIOUS
<1>3. PICK m : m = [i \in DOMAIN candidates |-> candidates[i]]
  OBVIOUS
<1>4. m \in [DOMAIN candidates -> T] /\ \A t \in T : \E i \in DOMAIN candidates : m[i] = t
  BY <1>2, <1>3 DEF ToSet
<1>5. IsFiniteSet(DOMAIN candidates)
  <2>1. IsFiniteSet(1..Len(candidates))
    BY <1>1, FS_Interval
  <2> QED
    BY <1>1, <2>1
<1>6. IsFiniteSet(T)
  BY <1>4, <1>5, FiniteRange
<1>7. CandidatesFor(f) \in SUBSET T
  BY <1>2 DEF CandidatesFor
<1> QED
  BY <1>6, <1>7, FS_Subset

\* Once the pages are done, a field with an outcome has a fact, and no other.
LEMMA OutcomesAreFacts ==
  ASSUME FactsInv, phase = "done", NEW f \in FieldsFound
  PROVE  /\ f \in DOMAIN facts <=> OutcomeOf(f).status # "unknown"
         /\ f \in DOMAIN facts => facts[f] = OutcomeOf(f)
<1>1. facts = Reconciled
  BY DEF FactsInv, Decided
<1> QED
  BY <1>1 DEF Reconciled

\* A text or an exact count is accepted just if no other that counts can stand
\* against it, a conflict is kept just if none can be accepted: neither depends on
\* the order in which the pages were read.
THEOREM OrderIsImmaterial == Spec => []OrderDecidesNothing
<1>1. FactsInv => OrderDecidesNothing
  <2> SUFFICES ASSUME FactsInv, phase = "done" PROVE OrderDecidesNothing
    BY DEF OrderDecidesNothing
  <2>a. ASSUME NEW f \in FieldsFound
        PROVE  /\ OutcomeOf(f) = CASE MergeStrategy(f) \in {"scalar_preferred", "scalar_conflict_preserving"} ->
                                        ReconcileScalar(CandidatesFor(f), f)
                                   [] MergeStrategy(f) = "numeric_exact_or_estimate" ->
                                        ReconcileNumeric(CandidatesFor(f), f)
                                   [] OTHER -> OutcomeOf(f)
               /\ Counting(f) = Eligible(CandidatesFor(f), f)
               /\ Proper(CandidatesFor(f))
               /\ IsFiniteSet(Counting(f))
    <3>1. CandidatesFor(f) # {}
      BY DEF FieldsFound, CandidatesFor, ToSet
    <3>2. PICK s : s = MergeStrategy(f)
      OBVIOUS
    <3>3. OutcomeOf(f) = CASE s \in {"scalar_preferred", "scalar_conflict_preserving"} ->
                                   ReconcileScalar(CandidatesFor(f), f)
                           [] s = "numeric_exact_or_estimate" -> ReconcileNumeric(CandidatesFor(f), f)
                           [] OTHER -> OutcomeOf(f)
      <4>1. PICK cs : cs = CandidatesFor(f)
        OBVIOUS
      <4>2. s \in {"scalar_preferred", "scalar_conflict_preserving"} =>
              ReconcileCandidates(cs, f) = ReconcileScalar(cs, f)
        BY <3>1, <3>2, <4>1 DEF ReconcileCandidates
      <4>3. s = "numeric_exact_or_estimate" => ReconcileCandidates(cs, f) = ReconcileNumeric(cs, f)
        BY <3>1, <3>2, <4>1 DEF ReconcileCandidates
      <4> QED
        BY <4>1, <4>2, <4>3 DEF OutcomeOf
    <3>4. Counting(f) = Eligible(CandidatesFor(f), f)
      BY DEF Counting, Eligible
    <3>5. IsFiniteSet(CandidatesFor(f)) /\ Proper(CandidatesFor(f))
      BY FiniteCandidates, CandidatesAreProper
    <3>6. Counting(f) \in SUBSET CandidatesFor(f)
      BY DEF Counting
    <3>7. IsFiniteSet(Counting(f))
      BY <3>5, <3>6, FS_Subset
    <3> QED
      BY <3>2, <3>3, <3>4, <3>5, <3>7
  <2>b. ASSUME NEW f \in FieldsFound, MergeStrategy(f) \in {"scalar_preferred", "scalar_conflict_preserving"},
               NEW choices, choices = {c.value : c \in {d \in Counting(f) : Dominates(f, d.value)}}
        PROVE  IF Counting(f) = {} THEN f \notin DOMAIN facts
               ELSE IF choices = {} THEN facts[f].status = "conflicting"
               ELSE facts[f].status = "accepted" /\ facts[f].value \in choices
    <3>1. PICK cs, eligible, o : cs = CandidatesFor(f) /\ eligible = Counting(f) /\ o = OutcomeOf(f)
      OBVIOUS
    <3>2. \A v : Dominates(f, v) <=> Outdoes(Counting(f), v)
      BY DEF Dominates, Outdoes, Backing, Same
    <3>3. choices = Winning(eligible)
      BY <2>b, <3>1, <3>2 DEF Winning
    <3>4. /\ o = ReconcileScalar(cs, f) /\ eligible = Eligible(cs, f)
          /\ Proper(cs) /\ IsFiniteSet(eligible)
      BY <2>a, <2>b, <3>1
    <3>5. IF eligible = {} THEN o.status = "unknown"
          ELSE IF Winning(eligible) = {} THEN o.status = "conflicting"
          ELSE o.status = "accepted" /\ o.value \in Winning(eligible)
      BY <3>4, ScalarOutcome
    <3>6. (f \in DOMAIN facts <=> o.status # "unknown") /\ (f \in DOMAIN facts => facts[f] = o)
      BY <3>1, OutcomesAreFacts
    <3> QED
      BY <3>1, <3>3, <3>5, <3>6
  <2>c. ASSUME NEW f \in FieldsFound, MergeStrategy(f) = "numeric_exact_or_estimate", ExactCounts(f) # {}
        PROVE  IF Cardinality(ExactCounts(f)) > 1 THEN facts[f].status = "conflicting"
               ELSE facts[f].status = "accepted" /\ {facts[f].value} = ExactCounts(f)
    <3>1. PICK cs, distinct, o : cs = CandidatesFor(f) /\ distinct = ExactCounts(f) /\ o = OutcomeOf(f)
      OBVIOUS
    <3>2. PICK exact : exact = {c \in Eligible(cs, f) : c.exact}
      OBVIOUS
    <3>3. /\ o = ReconcileNumeric(cs, f) /\ Counting(f) = Eligible(cs, f)
          /\ Proper(cs) /\ IsFiniteSet(Counting(f))
      BY <2>a, <2>c, <3>1
    <3>4. distinct = {c.value : c \in exact}
      BY <3>1, <3>2, <3>3 DEF ExactCounts
    <3>5. exact \in SUBSET Counting(f)
      BY <3>2, <3>3
    <3>6. IsFiniteSet(exact)
      BY <3>3, <3>5, FS_Subset
    <3>7. exact # {}
      BY <2>c, <3>1, <3>4
    <3>8. IF Cardinality(distinct) > 1 THEN o.status = "conflicting"
          ELSE o.status = "accepted" /\ {o.value} = distinct
      BY <3>2, <3>3, <3>4, <3>6, <3>7, NumericOutcome
    <3>9. (f \in DOMAIN facts <=> o.status # "unknown") /\ (f \in DOMAIN facts => facts[f] = o)
      BY <3>1, OutcomesAreFacts
    <3> QED
      BY <3>1, <3>8, <3>9
  <2>d. ASSUME NEW f \in FieldsFound, NEW choices,
               choices = IF MergeStrategy(f) = "numeric_exact_or_estimate" THEN ExactCounts(f)
                         ELSE {c.value : c \in {d \in Counting(f) : Dominates(f, d.value)}}
        PROVE  CASE MergeStrategy(f) \in {"scalar_preferred", "scalar_conflict_preserving"} ->
                      IF Counting(f) = {} THEN f \notin DOMAIN facts
                      ELSE IF choices = {} THEN facts[f].status = "conflicting"
                      ELSE facts[f].status = "accepted" /\ facts[f].value \in choices
                 [] MergeStrategy(f) = "numeric_exact_or_estimate" /\ choices # {} ->
                      IF Cardinality(choices) > 1 THEN facts[f].status = "conflicting"
                      ELSE facts[f].status = "accepted" /\ {facts[f].value} = choices
                 [] OTHER -> TRUE
    <3>1. CASE MergeStrategy(f) \in {"scalar_preferred", "scalar_conflict_preserving"}
      <4>1. choices = {c.value : c \in {d \in Counting(f) : Dominates(f, d.value)}}
        BY <2>d, <3>1
      <4>2. IF Counting(f) = {} THEN f \notin DOMAIN facts
            ELSE IF choices = {} THEN facts[f].status = "conflicting"
            ELSE facts[f].status = "accepted" /\ facts[f].value \in choices
        BY <2>b, <3>1, <4>1
      <4> QED
        BY <3>1, <4>2
    <3>2. CASE MergeStrategy(f) = "numeric_exact_or_estimate" /\ choices # {}
      <4>1. choices = ExactCounts(f)
        BY <2>d, <3>2
      <4>2. IF Cardinality(choices) > 1 THEN facts[f].status = "conflicting"
            ELSE facts[f].status = "accepted" /\ {facts[f].value} = choices
        BY <2>c, <3>2, <4>1
      <4> QED
        BY <3>2, <4>2
    <3>3. CASE /\ MergeStrategy(f) \notin {"scalar_preferred", "scalar_conflict_preserving"}
               /\ ~(MergeStrategy(f) = "numeric_exact_or_estimate" /\ choices # {})
      BY <3>3
    <3> QED
      BY <3>1, <3>2, <3>3
  <2> QED
    BY <2>d DEF OrderDecidesNothing
<1> QED
  BY FactsInvariance, <1>1, PTL

-----------------------------------------------------------------------------
(* Truth values.                                                           *)

Capabilities == {"business.wholesale", "business.click_and_collect"}
Kinds == {"offer", "denial"}

LEMMA CapabilitiesAreExplicit ==
  ASSUME NEW f \in Capabilities
  PROVE  MergeStrategy(f) = "boolean_explicit" /\ f \in FieldPaths /\ MinimumConfidence(f) \in Nat
<1>1. \A d \in BusinessFields : d.field_path \in Capabilities => d.merge_strategy = "boolean_explicit"
  BY DEF BusinessFields, Defined, Capabilities
<1>2. \A d \in Catalogue : d \in BusinessFields \/ d.field_path \notin Capabilities
  <2> USE DEF Defined, Capabilities
  <2>1. \A d \in IdentityFields : d.field_path \notin Capabilities
    BY DEF IdentityFields
  <2>2. \A d \in CatalogueFields : d.field_path \notin Capabilities
    BY DEF CatalogueFields
  <2>3. \A d \in OperationsFields : d.field_path \notin Capabilities
    BY DEF OperationsFields
  <2>4. \A d \in TechnologyFields : d.field_path \notin Capabilities
    BY DEF TechnologyFields
  <2>5. \A d \in OrganisationFields : d.field_path \notin Capabilities
    BY DEF OrganisationFields
  <2>6. \A d \in GrowthFields : d.field_path \notin Capabilities
    BY DEF GrowthFields
  <2> QED
    BY <2>1, <2>2, <2>3, <2>4, <2>5, <2>6 DEF Catalogue
<1>3. \E d \in BusinessFields : d.field_path = f
  <2>1. PICK d : d = [field_path |-> f, merge_strategy |-> "boolean_explicit",
                      minimum_accepted_confidence |-> BooleanCapability]
    OBVIOUS
  <2>2. d \in BusinessFields
    BY <2>1 DEF BusinessFields, Defined, Capabilities
  <2> QED
    BY <2>1, <2>2
<1>4. BusinessFields \subseteq Catalogue
  BY DEF Catalogue
<1>5. f \in FieldPaths
  BY <1>3, <1>4 DEF FieldPaths
<1>6. DefinitionOf(f) \in Catalogue /\ DefinitionOf(f).field_path = f
  BY <1>3, <1>4 DEF DefinitionOf
<1> QED
  BY <1>1, <1>2, <1>5, <1>6, FieldsAreDefined DEF MergeStrategy

LEMMA YesIsNotNo ==
  ASSUME NEW yes, yes = Truth(TRUE), NEW no, no = Truth(FALSE)
  PROVE  yes # no
<1>1. yes.truth = TRUE
  BY Zenon DEF Truth
<1>2. no.truth = FALSE
  BY Zenon DEF Truth
<1> QED
  BY <1>1, <1>2, Zenon

\* What the candidates that count say of a truth value.
LEMMA BooleanCases ==
  ASSUME NEW b \in BOOLEAN, NEW o, NEW yes, NEW no, NEW offers, NEW against, NEW eligible,
         o = CASE offers # {} /\ against # {} -> Conflict(eligible, offers \cup against)
               [] offers # {} /\ against = {} -> Accepted(yes, Confidence(offers), "verified", offers)
               [] offers = {} /\ against # {} -> Accepted(no, Confidence(against), "verified", against)
               [] OTHER -> Unknown
  PROVE  IF offers # {} /\ against # {} THEN o.status = "conflicting"
         ELSE IF offers # {} THEN o.status = "accepted" /\ o.value = yes
         ELSE IF against # {} THEN o.status = "accepted" /\ o.value = no
         ELSE o.status = "unknown"
<1>4. CASE offers # {} /\ against # {}
  <2>1. o = Conflict(eligible, offers \cup against)
    BY <1>4
  <2> QED
    BY <1>4, <2>1 DEF Conflict
<1>5. CASE offers # {} /\ against = {}
  <2>1. o = Accepted(yes, Confidence(offers), "verified", offers)
    BY <1>5
  <2>2. o.status = "accepted" /\ o.value = yes
    BY <2>1, AcceptedHas
  <2> QED
    BY <1>5, <2>2
<1>6. CASE offers = {} /\ against # {}
  <2>1. o = Accepted(no, Confidence(against), "verified", against)
    BY <1>6
  <2>2. o.status = "accepted" /\ o.value = no
    BY <2>1, AcceptedHas
  <2> QED
    BY <1>6, <2>2
<1>7. CASE offers = {} /\ against = {}
  <2>1. o = Unknown
    BY <1>7
  <2> QED
    BY <1>7, <2>1 DEF Unknown
<1> QED
  BY <1>4, <1>5, <1>6, <1>7

\* Some candidate that counts says so.
Stated(cs, f, value) == \E c \in Eligible(cs, f) : c.value = value

LEMMA BooleanOutcome ==
  ASSUME NEW cs, NEW f, NEW b \in BOOLEAN, NEW o, o = ReconcileBoolean(cs, f, b)
  PROVE  \E yes, no :
           /\ yes = Truth(TRUE) /\ no = Truth(FALSE)
           /\ IF Stated(cs, f, yes) /\ b /\ Stated(cs, f, no) THEN o.status = "conflicting"
              ELSE IF Stated(cs, f, yes) THEN o.status = "accepted" /\ o.value = yes
              ELSE IF b /\ Stated(cs, f, no) THEN o.status = "accepted" /\ o.value = no
              ELSE o.status = "unknown"
<1>1. PICK eligible : eligible = Eligible(cs, f)
  OBVIOUS
<1>2. PICK yes, no : yes = Truth(TRUE) /\ no = Truth(FALSE)
  OBVIOUS
<1>3. PICK offers : offers = {c \in eligible : c.value = yes}
  OBVIOUS
<1>4. PICK against : against = IF b THEN {c \in eligible : c.value = no} ELSE {}
  OBVIOUS
<1>5. o = CASE offers # {} /\ against # {} -> Conflict(eligible, offers \cup against)
            [] offers # {} /\ against = {} -> Accepted(yes, Confidence(offers), "verified", offers)
            [] offers = {} /\ against # {} -> Accepted(no, Confidence(against), "verified", against)
            [] OTHER -> Unknown
  BY <1>1, <1>2, <1>3, <1>4 DEF ReconcileBoolean
<1>6. IF offers # {} /\ against # {} THEN o.status = "conflicting"
      ELSE IF offers # {} THEN o.status = "accepted" /\ o.value = yes
      ELSE IF against # {} THEN o.status = "accepted" /\ o.value = no
      ELSE o.status = "unknown"
  BY <1>5, BooleanCases
<1>7. offers # {} <=> Stated(cs, f, yes)
  BY <1>1, <1>3 DEF Stated
<1>8. against # {} <=> b /\ Stated(cs, f, no)
  BY <1>1, <1>4 DEF Stated
<1> QED
  BY <1>2, <1>6, <1>7, <1>8

\* Of a draft or a candidate: what a wording becomes.
Fact(kind) == Truth(kind = "offer")

LEMMA KindsDiffer ==
  /\ Fact("offer") = Truth(TRUE) /\ Fact("denial") = Truth(FALSE)
  /\ \A k, l \in Kinds : Fact(k) = Fact(l) => k = l
<1>1. ("offer" = "offer") = TRUE /\ ("denial" = "offer") = FALSE
  OBVIOUS
<1>2. Fact("offer") = Truth(TRUE) /\ Fact("denial") = Truth(FALSE)
  BY <1>1, Zenon DEF Fact
<1>3. Fact("offer") # Fact("denial")
  BY <1>2, YesIsNotNo, Zenon
<1> QED
  BY <1>2, <1>3, Zenon DEF Kinds

\* A denial or an offer is heard just if a candidate that counts says so.
LEMMA HeardIsStated ==
  ASSUME FactsInv, phase = "done", NEW f \in Capabilities, NEW kind \in Kinds
  PROVE  Heard(f, kind) <=> Stated(CandidatesFor(f), f, Fact(kind))
<1>1. PICK cs, value : cs = CandidatesFor(f) /\ value = Fact(kind)
  OBVIOUS
<1>2. \A d, w : Quotes(d, f, kind, w) <=> d.field = f /\ d.fragment = Text(w) /\ d.value = value
  BY <1>1, Zenon DEF Quotes, Fact
<1>3. ASSUME NEW i \in DOMAIN candidates, candidates[i].field = f
      PROVE  \E x \in Executions("succeeded") : \E d \in Made(x.extractor, x.page) :
               /\ x.page = candidates[i].page /\ x.extractor = candidates[i].extractor
               /\ x.extractor \in Extracts /\ x.page \in DOMAIN Pages /\ d.field = f
               /\ From(candidates[i], d) /\ IsDraft(d)
  <2>1. PICK x : x = [page |-> candidates[i].page, extractor |-> candidates[i].extractor, status |-> "succeeded"]
    OBVIOUS
  <2>2. x \in executions /\ \E d \in Made(x.extractor, x.page) : From(candidates[i], d)
    BY <2>1 DEF FactsInv, Sourced
  <2>3. PICK d \in Made(x.extractor, x.page) : From(candidates[i], d)
    BY <2>2
  <2>4. x.extractor \in Extracts /\ x.page \in DOMAIN Pages
    BY <2>2 DEF FactsInv, Typed
  <2>5. IsDraft(d)
    BY <2>4, MadeDrafts, DraftsAreDrafts
  <2>6. d.field = f
    BY <1>3, <2>3, <2>5 DEF From, IsDraft
  <2>7. x \in Executions("succeeded")
    BY <2>1, <2>2 DEF Executions
  <2> QED
    BY <2>1, <2>3, <2>4, <2>5, <2>6, <2>7
<1>4. \A e \in Extracts : \A p \in DOMAIN Pages : \A d \in Made(e, p) : d.field = f =>
        /\ e = "business_model"
        /\ d.confidence >= MinimumConfidence(f)
        /\ \E k \in Kinds : \E w \in Worded(p, f, k) : Quotes(d, f, k, w)
  BY WordingsAssumption DEF Made, Extracts, Wordings, Capabilities, Kinds
<1>5. \A p \in DOMAIN Pages : \A w \in Worded(p, f, kind) :
        \E d \in Made("business_model", p) : Quotes(d, f, kind, w)
  <2>1. "business_model" \in Extracts
    BY DEF Extracts, Registered, ToSet
  <2> QED
    BY <2>1, WordingsAssumption DEF Made, Extracts, Wordings, Capabilities, Kinds
<1>6. ASSUME NEW i \in DOMAIN candidates, candidates[i].field = f
      PROVE  candidates[i] \in Eligible(cs, f)
  <2>a. PICK x \in Executions("succeeded") : \E d \in Made(x.extractor, x.page) :
          /\ x.extractor \in Extracts /\ x.page \in DOMAIN Pages /\ d.field = f
          /\ From(candidates[i], d) /\ IsDraft(d)
    BY <1>3, <1>6
  <2>1. PICK d \in Made(x.extractor, x.page) :
          /\ x.extractor \in Extracts /\ x.page \in DOMAIN Pages /\ d.field = f
          /\ From(candidates[i], d) /\ IsDraft(d)
    BY <2>a
  <2>2. candidates[i].confidence >= MinimumConfidence(f)
    BY <1>4, <2>1 DEF From, IsDraft
  <2>3. candidates[i] \in cs
    BY <1>1, <1>6 DEF CandidatesFor, ToSet
  <2> QED
    BY <2>2, <2>3 DEF Eligible
<1>7. ASSUME NEW i \in DOMAIN candidates, NEW w, Quotes(candidates[i], f, kind, w)
      PROVE  Stated(cs, f, value)
  <2>1. candidates[i].field = f /\ candidates[i].value = value
    BY <1>2, <1>7
  <2> QED
    BY <1>6, <2>1 DEF Stated
<1>8. ASSUME Heard(f, kind)  PROVE Stated(cs, f, value)
  <2>1. PICK x \in Executions("succeeded") :
          /\ x.extractor = "business_model"
          /\ \E w \in Worded(x.page, f, kind) :
               \/ ~\E d \in Lost(x.page, x.extractor) : Quotes(d, f, kind, w)
               \/ \E i \in DOMAIN candidates : candidates[i].page = x.page /\ Quotes(candidates[i], f, kind, w)
    BY <1>8 DEF Heard
  <2>2. PICK w \in Worded(x.page, f, kind) :
          \/ ~\E d \in Lost(x.page, x.extractor) : Quotes(d, f, kind, w)
          \/ \E i \in DOMAIN candidates : candidates[i].page = x.page /\ Quotes(candidates[i], f, kind, w)
    BY <2>1
  <2>3. x \in executions /\ x.status = "succeeded" /\ x.page \in DOMAIN Pages
    BY DEF Executions, FactsInv, Typed
  <2>4. PICK d \in Made(x.extractor, x.page) : Quotes(d, f, kind, w)
    BY <1>5, <2>1, <2>3
  <2>5. CASE \E i \in DOMAIN candidates : candidates[i].page = x.page /\ Quotes(candidates[i], f, kind, w)
    BY <1>7, <2>5
  <2>6. CASE ~\E e \in Lost(x.page, x.extractor) : Quotes(e, f, kind, w)
    <3>1. page = 0 /\ drafts = <<>>
      BY DEF FactsInv, InHand
    <3>2. d \notin ToSet(drafts)
      BY <3>1 DEF ToSet
    <3>3. PICK i \in DOMAIN candidates : From(candidates[i], d)
      BY <2>3, <2>4, <2>6, <3>2 DEF FactsInv, Handled
    <3>4. IsDraft(d)
      <4>1. "business_model" \in Extracts
        BY DEF Extracts, Registered, ToSet
      <4> QED
        BY <2>1, <2>3, <4>1, MadeDrafts, DraftsAreDrafts
    <3>5. Quotes(candidates[i], f, kind, w)
      BY <1>2, <2>4, <3>3, <3>4 DEF From, IsDraft
    <3> QED
      BY <1>7, <3>5
  <2> QED
    BY <2>2, <2>5, <2>6
<1>9. ASSUME Stated(cs, f, value)  PROVE Heard(f, kind)
  <2>1. PICK i \in DOMAIN candidates : candidates[i].field = f /\ candidates[i].value = value
    BY <1>1, <1>9 DEF Stated, Eligible, CandidatesFor, ToSet
  <2>a. PICK x \in Executions("succeeded") : \E d \in Made(x.extractor, x.page) :
          /\ x.page = candidates[i].page /\ x.extractor \in Extracts /\ x.page \in DOMAIN Pages
          /\ d.field = f /\ From(candidates[i], d) /\ IsDraft(d)
    BY <1>3, <2>1
  <2>2. PICK d \in Made(x.extractor, x.page) :
          /\ x.page = candidates[i].page /\ x.extractor \in Extracts /\ x.page \in DOMAIN Pages
          /\ d.field = f /\ From(candidates[i], d) /\ IsDraft(d)
    BY <2>a
  <2>b. x.extractor = "business_model" /\ \E k \in Kinds : \E w \in Worded(x.page, f, k) : Quotes(d, f, k, w)
    BY <1>4, <2>2
  <2>c. PICK k \in Kinds : \E w \in Worded(x.page, f, k) : Quotes(d, f, k, w)
    BY <2>b
  <2>3. PICK w \in Worded(x.page, f, k) : x.extractor = "business_model" /\ Quotes(d, f, k, w)
    BY <2>b, <2>c
  <2>4. candidates[i].fragment = d.fragment /\ candidates[i].value = d.value
    BY <2>2 DEF From, IsDraft
  <2>5. d.value = Fact(k) /\ d.fragment = Text(w)
    BY <2>3, Zenon DEF Quotes, Fact
  <2>6. k = kind
    BY <1>1, <2>1, <2>4, <2>5, KindsDiffer
  <2>7. Quotes(candidates[i], f, kind, w)
    BY <1>2, <2>1, <2>4, <2>5
  <2> QED
    BY <2>1, <2>2, <2>3, <2>6, <2>7 DEF Heard
<1> QED
  BY <1>1, <1>8, <1>9

\* Nothing is said not to be done without a page that denies it, nor to be done
\* while a page that denies it was heard, and what can only be shown is never
\* denied.
THEOREM DenialsAreFounded == Spec => []DenialsAreExplicit
<1>1. ASSUME FactsInv, NEW f \in DOMAIN facts, MergeStrategy(f) = "boolean_positive_only"
      PROVE  facts[f].value = Truth(TRUE)
  <2>1. PICK cs, s : cs = CandidatesFor(f) /\ s = MergeStrategy(f)
    OBVIOUS
  <2>2. facts[f] = ReconcileCandidates(cs, f) /\ facts[f].status # "unknown" /\ f \in FieldsFound
    BY <1>1, <2>1, FactsAreOutcomes DEF OutcomeOf
  <2>3. cs # {}
    BY <2>1, <2>2 DEF FieldsFound, CandidatesFor, ToSet
  <2>4. PICK b : b = FALSE
    OBVIOUS
  <2>5. facts[f] = ReconcileBoolean(cs, f, b)
    BY <1>1, <2>1, <2>2, <2>3, <2>4 DEF ReconcileCandidates
  <2>6. PICK yes : yes = Truth(TRUE) /\ (facts[f].value = yes \/ facts[f].status = "unknown")
    BY <2>4, <2>5, BooleanOutcome
  <2> QED
    BY <2>2, <2>6
<1>2. ASSUME FactsInv, phase = "done", NEW f \in Capabilities
      PROVE  IF Heard(f, "offer") /\ Heard(f, "denial") THEN facts[f].status = "conflicting"
             ELSE IF Heard(f, "offer") THEN facts[f].value = Truth(TRUE)
             ELSE IF Heard(f, "denial") THEN facts[f].value = Truth(FALSE)
             ELSE f \notin DOMAIN facts
  <2>1. PICK cs, s, b : cs = CandidatesFor(f) /\ s = MergeStrategy(f) /\ b = TRUE
    OBVIOUS
  <2>2. PICK o : o = ReconcileBoolean(cs, f, b)
    OBVIOUS
  <2>3. PICK yes, no :
          /\ yes = Truth(TRUE) /\ no = Truth(FALSE)
          /\ IF Stated(cs, f, yes) /\ b /\ Stated(cs, f, no) THEN o.status = "conflicting"
             ELSE IF Stated(cs, f, yes) THEN o.status = "accepted" /\ o.value = yes
             ELSE IF b /\ Stated(cs, f, no) THEN o.status = "accepted" /\ o.value = no
             ELSE o.status = "unknown"
    <3>1. b \in BOOLEAN
      BY <2>1, Zenon
    <3> QED
      BY <2>2, <3>1, BooleanOutcome, Zenon
  <2>4. Heard(f, "offer") <=> Stated(cs, f, yes)
    <3>1. yes = Fact("offer") /\ "offer" \in Kinds
      BY <2>3, KindsDiffer, Zenon DEF Kinds
    <3> QED
      BY <1>2, <2>1, <3>1, HeardIsStated
  <2>5. Heard(f, "denial") <=> Stated(cs, f, no)
    <3>1. no = Fact("denial") /\ "denial" \in Kinds
      BY <2>3, KindsDiffer, Zenon DEF Kinds
    <3> QED
      BY <1>2, <2>1, <3>1, HeardIsStated
  <2>6. CASE f \in FieldsFound
    <3>1. cs # {}
      BY <2>1, <2>6 DEF FieldsFound, CandidatesFor, ToSet
    <3>2. s = "boolean_explicit"
      BY <2>1, CapabilitiesAreExplicit
    <3>3. OutcomeOf(f) = o
      <4>1. ReconcileCandidates(cs, f) = ReconcileBoolean(cs, f, b)
        BY <2>1, <3>1, <3>2 DEF ReconcileCandidates
      <4> QED
        BY <2>1, <2>2, <4>1 DEF OutcomeOf
    <3>4. (f \in DOMAIN facts <=> o.status # "unknown") /\ (f \in DOMAIN facts => facts[f] = o)
      BY <1>2, <2>6, <3>3, OutcomesAreFacts
    <3> QED
      BY <2>1, <2>3, <2>4, <2>5, <3>4
  <2>7. CASE f \notin FieldsFound
    <3>1. cs = {}
      BY <2>1, <2>7 DEF FieldsFound, CandidatesFor, ToSet
    <3>2. ~Stated(cs, f, yes) /\ ~Stated(cs, f, no)
      BY <3>1 DEF Stated, Eligible
    <3>3. f \notin DOMAIN facts
      BY <1>2, <2>7, FactsAreOutcomes
    <3> QED
      BY <2>4, <2>5, <3>2, <3>3
  <2> QED
    BY <2>6, <2>7
<1>3. FactsInv => DenialsAreExplicit
  <2>1. DOMAIN Wordings.offer = Capabilities
    BY DEF Wordings, Capabilities
  <2> QED
    BY <1>1, <1>2, <2>1 DEF DenialsAreExplicit
<1> QED
  BY FactsInvariance, <1>3, PTL
=============================================================================
