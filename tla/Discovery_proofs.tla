-------------------------- MODULE Discovery_proofs --------------------------
(***************************************************************************)
(* Theorems about Discovery, for any sites, runs, workers and bounds.      *)
(***************************************************************************)
EXTENDS Discovery, FiniteSetTheorems, SequenceTheorems, WellFoundedInduction, TLAPS

WorkFields == {"cands", "files", "visited", "fetched", "sitemapUrls", "warnings", "results", "inHandler"}

\* The shape of the state, as far as every action keeps it.
Shape ==
  /\ site \in Sites
  /\ pc \in [Runs -> {"new", "created", "queued", "ended", "dead"} \cup Steps]
  /\ runs = [r \in Runs |-> runs[r]] /\ \A r \in Runs : {"status", "summary"} \subseteq DOMAIN runs[r]
  /\ work = [r \in Runs |-> work[r]] /\ \A r \in Runs : WorkFields \subseteq DOMAIN work[r]
  /\ urls = [r \in Runs |-> urls[r]]
  /\ {"status", "latest"} \subseteq DOMAIN company

\* What a step of a run may do, whichever it is.
RunStep(r) ==
  \/ EnqueueRun(r) \/ EnqueueJob(r) \/ RefuseJob(r) \/ CreateCompanyRun(r)
  \/ JobStep(r) \/ SaveSomeUrls(r) \/ Die(r)

\* A step of a run leaves the other runs alone.
LEMMA OneRun ==
  ASSUME Shape, NEW r \in Runs, RunStep(r)
  PROVE  /\ Shape'
         /\ site' = site
         /\ \A q \in Runs \ {r} : /\ pc'[q] = pc[q] /\ runs'[q] = runs[q]
                                  /\ urls'[q] = urls[q] /\ work'[q] = work[q]
<1> USE DEF Goto, stored, AdvanceCompany
<1>1. CASE EnqueueRun(r)  BY <1>1 DEF EnqueueRun, Shape
<1>2. CASE EnqueueJob(r)  BY <1>2 DEF EnqueueJob, Shape
<1>3. CASE RefuseJob(r)  BY <1>3 DEF RefuseJob, Shape
<1>4. CASE CreateCompanyRun(r)  BY <1>4 DEF CreateCompanyRun, Shape
<1>5. CASE StartRun(r)  BY <1>5 DEF StartRun, Shape, Steps
<1>6. CASE EnterDiscovering(r)  BY <1>6 DEF EnterDiscovering, Shape, Steps
<1>7. CASE ResolveHomepage(r)  BY <1>7 DEF ResolveHomepage, Shape, Steps
<1>8. CASE ExtractHomepageLinks(r)  BY <1>8 DEF ExtractHomepageLinks, Shape, Steps
<1>9. CASE FetchRobots(r)  BY <1>9 DEF FetchRobots, Shape, Steps
<1>10. CASE NextSitemap(r)  BY <1>10 DEF NextSitemap, Shape, Steps, Warned, Visited, Skipped, ReadSitemap
<1>11. CASE EndSearch(r)  BY <1>11 DEF EndSearch, Shape, Steps
<1>12. CASE SaveUrls(r)  BY <1>12 DEF SaveUrls, Shape, Steps
<1>13. CASE SaveSomeUrls(r)  BY <1>13 DEF SaveSomeUrls, Shape, Steps
<1>14. CASE FinishRun(r)  BY <1>14 DEF FinishRun, Shape, Steps
<1>15. CASE LeaveDiscovering(r)  BY <1>15 DEF LeaveDiscovering, Shape, Steps
<1>16. CASE SetLatestRun(r)  BY <1>16 DEF SetLatestRun, Shape, Steps
<1>17. CASE FailRun(r)  BY <1>17 DEF FailRun, Shape, Steps
<1>18. CASE Die(r)  BY <1>18 DEF Die, Shape, Steps
<1> QED
  BY <1>1, <1>2, <1>3, <1>4, <1>5, <1>6, <1>7, <1>8, <1>9, <1>10, <1>11, <1>12, <1>13, <1>14,
     <1>15, <1>16, <1>17, <1>18 DEF RunStep, JobStep

LEMMA InitShape == Init => Shape
<1> SUFFICES ASSUME Init PROVE Shape  OBVIOUS
<1>1. \A r \in Runs : /\ runs[r] = [status |-> "none", summary |-> NoSummary] /\ work[r] = EmptyWork
  BY DEF Init
<1>2. WorkFields \subseteq DOMAIN EmptyWork  BY DEF WorkFields, EmptyWork
<1>3. company \in [status: InitialStatuses, latest: {NoRun}]  BY DEF Init
<1> QED  BY <1>1, <1>2, <1>3 DEF Init, Shape

LEMMA StepShape == Shape /\ [Next]_vars => Shape'
<1> SUFFICES ASSUME Shape, [Next]_vars PROVE Shape'  OBVIOUS
<1>1. ASSUME NEW r \in Runs, RunStep(r) PROVE Shape'  BY <1>1, OneRun
<1>2. CASE UNCHANGED vars  BY <1>2 DEF vars, Shape
<1> QED  BY <1>1, <1>2 DEF Next, RunStep

-----------------------------------------------------------------------------
(* The latest run. A run reads completed, or failed, only when its job is  *)
(* past the step that says so, and no job takes it up again.               *)

Settled ==
  \A r \in Runs :
    /\ Completed(r) => pc[r] \in {"leaving", "latest", "ended", "dead"}
    /\ pc[r] = "leaving" => runs[r].status \in Finals
    /\ pc[r] = "latest" => Completed(r)

LatestInv == Shape /\ Settled /\ (company.latest # NoRun => company.latest \in Runs /\ Completed(company.latest))

LEMMA StepSettled ==
  ASSUME Shape, Settled, NEW r \in Runs, RunStep(r)
  PROVE  /\ Settled'
         /\ \A q \in Runs : Completed(q) => Completed(q)'
<1> USE DEF Goto, stored, AdvanceCompany
<1> DEFINE Own == /\ Completed(r)' => pc'[r] \in {"leaving", "latest", "ended", "dead"}
                  /\ pc'[r] = "leaving" => runs'[r].status \in Finals
                  /\ pc'[r] = "latest" => Completed(r)'
                  /\ Completed(r) => Completed(r)'
<1>0. SUFFICES Own
  <2>1. \A q \in Runs \ {r} : pc'[q] = pc[q] /\ runs'[q] = runs[q]  BY OneRun
  <2> QED  BY <2>1 DEF Settled, Completed
<1>1. CASE /\ pc[r] \in {"created", "entering", "homepage", "links", "robots", "sitemaps", "saving"}
            /\ runs'[r] = runs[r] /\ pc'[r] \notin {"leaving", "latest"}
  BY <1>1 DEF Settled, Completed
<1>2. CASE EnqueueRun(r)  BY <1>2 DEF EnqueueRun, Shape, Settled, Completed
<1>3. CASE CreateCompanyRun(r)  BY <1>3 DEF CreateCompanyRun, Shape, Settled, Completed
<1>4. CASE StartRun(r)  BY <1>4 DEF StartRun, Shape, Settled, Completed
<1>5. CASE FinishRun(r)  BY <1>5 DEF FinishRun, Shape, Settled, Completed, Finals
<1>6. CASE LeaveDiscovering(r)  BY <1>6 DEF LeaveDiscovering, Shape, Settled, Completed, Finals
<1>7. CASE SetLatestRun(r)  BY <1>7 DEF SetLatestRun, Shape, Settled, Completed
<1>8. CASE FailRun(r)  BY <1>8 DEF FailRun, Shape, Settled, Completed, Finals
<1>9. CASE Die(r)  BY <1>9 DEF Die, Shape, Settled, Completed
<1>10. CASE EnqueueJob(r) \/ RefuseJob(r)
  BY <1>1, <1>10 DEF EnqueueJob, RefuseJob, Shape
<1>11. CASE EnterDiscovering(r) \/ ResolveHomepage(r)
  BY <1>1, <1>11 DEF EnterDiscovering, ResolveHomepage, Shape
<1>12. CASE ExtractHomepageLinks(r) \/ FetchRobots(r)
  BY <1>1, <1>12 DEF ExtractHomepageLinks, FetchRobots, Shape
<1>13. CASE NextSitemap(r)
  BY <1>1, <1>13 DEF NextSitemap, Shape
<1>14. CASE EndSearch(r) \/ SaveUrls(r) \/ SaveSomeUrls(r)
  BY <1>1, <1>14 DEF EndSearch, SaveUrls, SaveSomeUrls, Shape
<1> QED
  BY <1>2, <1>3, <1>4, <1>5, <1>6, <1>7, <1>8, <1>9, <1>10, <1>11, <1>12, <1>13, <1>14
     DEF RunStep, JobStep

LEMMA LatestWritten ==
  ASSUME Shape, NEW r \in Runs, RunStep(r)
  PROVE  \/ company'.latest = company.latest
         \/ pc[r] = "latest" /\ company'.latest = r
<1> USE DEF Goto, stored, AdvanceCompany, Shape
<1>1. CASE EnqueueRun(r) \/ EnqueueJob(r) \/ RefuseJob(r) \/ CreateCompanyRun(r)
  BY <1>1 DEF EnqueueRun, EnqueueJob, RefuseJob, CreateCompanyRun
<1>2. CASE StartRun(r) \/ ResolveHomepage(r) \/ ExtractHomepageLinks(r) \/ FetchRobots(r)
  BY <1>2 DEF StartRun, ResolveHomepage, ExtractHomepageLinks, FetchRobots
<1>3. CASE NextSitemap(r)  BY <1>3 DEF NextSitemap
<1>4. CASE EndSearch(r) \/ SaveUrls(r) \/ SaveSomeUrls(r) \/ FinishRun(r) \/ FailRun(r) \/ Die(r)
  BY <1>4 DEF EndSearch, SaveUrls, SaveSomeUrls, FinishRun, FailRun, Die
<1>5. CASE EnterDiscovering(r) \/ LeaveDiscovering(r)
  BY <1>5 DEF EnterDiscovering, LeaveDiscovering
<1>6. CASE SetLatestRun(r)  BY <1>6 DEF SetLatestRun
<1> QED  BY <1>1, <1>2, <1>3, <1>4, <1>5, <1>6 DEF RunStep, JobStep

\* The company's latest discovery run is one that completed, for any runs that
\* fail or die around it (LatestRunCompleted).
THEOREM LatestCompleted == Spec => []LatestRunCompleted
<1>1. Init => LatestInv
  <2> SUFFICES ASSUME Init PROVE Settled /\ company.latest = NoRun
    BY InitShape DEF LatestInv
  <2>1. company \in [status: InitialStatuses, latest: {NoRun}]  BY DEF Init
  <2> QED  BY <2>1 DEF Init, Settled, Completed
<1>2. LatestInv /\ [Next]_vars => LatestInv'
  <2> SUFFICES ASSUME LatestInv, [Next]_vars PROVE LatestInv'  OBVIOUS
  <2>1. CASE UNCHANGED vars
    BY <2>1, StepShape DEF vars, LatestInv, Settled, Completed
  <2>2. ASSUME NEW r \in Runs, RunStep(r) PROVE LatestInv'
    <3>1. Shape' /\ Settled' /\ \A q \in Runs : Completed(q) => Completed(q)'
      BY <2>2, OneRun, StepSettled DEF LatestInv
    <3>2. CASE company'.latest = company.latest
      BY <3>1, <3>2 DEF LatestInv, Completed
    <3>3. CASE pc[r] = "latest" /\ company'.latest = r
      <4>1. Completed(r)  BY <3>3 DEF LatestInv, Settled
      <4>2. Completed(r)'  BY <3>1, <4>1
      <4> QED  BY <3>1, <3>3, <4>2 DEF LatestInv, Completed
    <3> QED  BY <2>2, <3>2, <3>3, LatestWritten DEF LatestInv
  <2> QED  BY <2>1, <2>2 DEF Next, RunStep
<1>3. LatestInv => LatestRunCompleted  BY DEF LatestInv, LatestRunCompleted
<1> QED  BY <1>1, <1>2, <1>3, PTL DEF Spec

-----------------------------------------------------------------------------
(* Least and greatest numbers, and induction from them: the library's      *)
(* theorems about numbers take operators, this one takes a set.            *)

LEMMA LeastNat ==
  ASSUME NEW T, T \subseteq Nat, T # {}
  PROVE  \E x \in T : \A y \in T : x <= y
<1> DEFINE Less == {ss \in Nat \X Nat : ss[1] < ss[2]}
<1>1. IsWellFoundedOn(Less, Nat)  BY NatLessThanWellFounded DEF OpToRel
<1>2. PICK x \in T : \A y \in T : ~(<<y, x>> \in Less)  BY <1>1, WFMin
<1>3. ASSUME NEW y \in T, y < x PROVE FALSE
  <2>1. <<y, x>> \in Nat \X Nat /\ <<y, x>>[1] < <<y, x>>[2]  BY <1>3
  <2> QED  BY <1>2, <2>1
<1> QED  BY <1>3

LEMMA MinNat ==
  ASSUME NEW S, S \subseteq Nat, S # {}
  PROVE  Min(S) \in S /\ \A y \in S : Min(S) <= y
<1>1. \E x \in S : \A y \in S : x <= y  BY LeastNat
<1> QED  BY <1>1 DEF Min

LEMMA MaxNat ==
  ASSUME NEW n \in Nat, NEW S, S \subseteq 0..n, S # {}
  PROVE  Max(S) \in S /\ \A y \in S : Max(S) >= y
<1> DEFINE T == {n - y : y \in S}
<1>0. T \subseteq Nat /\ T # {}
  <2>1. PICK z : z \in S  OBVIOUS
  <2>2. n - z \in T  BY <2>1
  <2>3. ASSUME NEW y \in S PROVE n - y \in Nat
    <3>1. y \in 0..n  OBVIOUS
    <3> QED  BY <3>1
  <2> QED  BY <2>2, <2>3
<1>1. PICK x \in T : \A y \in T : x <= y
  <2> HIDE DEF T
  <2> QED  BY <1>0, LeastNat
<1>2. n - x \in S  BY <1>1
<1>3. \A y \in S : n - x >= y  BY <1>1
<1>4. \E z \in S : \A y \in S : z >= y  BY <1>2, <1>3
<1> QED  BY <1>4 DEF Max

-----------------------------------------------------------------------------
(* What the candidates of a search become.                                 *)

LEMMA MergedCandidates ==
  ASSUME NEW cands \in Seq(CandidateSet), NEW u \in UrlsOf(cands)
  PROVE  /\ Merged(cands, u) \in DiscoveredUrlSet
         /\ \A i \in DOMAIN cands : cands[i].url = u =>
              /\ cands[i].source \in Merged(cands, u).sources
              /\ Merged(cands, u).depth <= cands[i].depth
<1> DEFINE group == {i \in DOMAIN cands : cands[i].url = u}
           confidences == {cands[i].class.confidence : i \in group}
           winners == {i \in group : cands[i].class.confidence = Max(confidences)}
           priorities == {cands[i].priority : i \in group}
           depths == {cands[i].depth : i \in group}
<1>1. DOMAIN cands = 1..Len(cands) /\ Len(cands) \in Nat  BY LenProperties
<1>2. \A i \in DOMAIN cands : cands[i] \in CandidateSet  BY <1>1, ElementOfSeq
<1>3. group # {} /\ group \subseteq Nat /\ group \subseteq DOMAIN cands  BY <1>1 DEF UrlsOf
<1>4. u \in Urls  BY <1>2 DEF UrlsOf, CandidateSet
<1>5. Min(group) \in group  BY <1>3, MinNat
<1>6. confidences \subseteq 0..100 /\ confidences # {}
  <2>1. \A i \in group : cands[i].class \in Classes  BY <1>2, <1>3 DEF CandidateSet
  <2>2. \A i \in group : cands[i].class.confidence \in 0..100  BY <2>1 DEF Classes
  <2> QED  BY <1>3, <2>2
<1>7. Max(confidences) \in confidences  BY <1>6, MaxNat
<1>8. winners # {} /\ winners \subseteq Nat  BY <1>3, <1>7
<1>9. Min(winners) \in winners  BY <1>8, MinNat
<1>10. Winner(cands, group) \in group  BY <1>9 DEF Winner
<1>11. priorities \subseteq Priorities /\ priorities # {} /\ Priorities \subseteq Nat
  BY <1>2, <1>3 DEF CandidateSet, Priorities, Excluded
<1>12. Min(priorities) \in Priorities  BY <1>11, MinNat
<1>13. depths \subseteq {0, 1} /\ depths # {} /\ {0, 1} \subseteq Nat
  BY <1>2, <1>3 DEF CandidateSet
<1>14. Min(depths) \in {0, 1} /\ \A d \in depths : Min(depths) <= d
  BY <1>13, MinNat
<1>15. {cands[i].source : i \in group} \subseteq Sources  BY <1>2, <1>3 DEF CandidateSet
<1>16. Merged(cands, u) =
         [url |-> u, ref |-> cands[Min(group)].ref,
          type |-> cands[Winner(cands, group)].class.type,
          confidence |-> cands[Winner(cands, group)].class.confidence,
          priority |-> Min(priorities), sources |-> {cands[i].source : i \in group},
          depth |-> Min(depths)]
  BY DEF Merged
<1> HIDE DEF priorities, depths
<1>17. cands[Min(group)].ref \in Refs  BY <1>2, <1>3, <1>5 DEF CandidateSet
<1>18. /\ cands[Winner(cands, group)].class.type \in PageTypes
       /\ cands[Winner(cands, group)].class.confidence \in 0..100
  BY <1>2, <1>3, <1>10 DEF CandidateSet, Classes
<1>19. Merged(cands, u) \in DiscoveredUrlSet
  BY <1>4, <1>12, <1>14, <1>15, <1>16, <1>17, <1>18 DEF DiscoveredUrlSet
<1>20. ASSUME NEW i \in DOMAIN cands, cands[i].url = u
       PROVE  cands[i].source \in Merged(cands, u).sources /\ Merged(cands, u).depth <= cands[i].depth
  <2>1. i \in group  BY <1>20
  <2>2. cands[i].depth \in depths  BY <2>1 DEF depths
  <2> QED  BY <1>14, <1>16, <2>1, <2>2
<1> QED  BY <1>19, <1>20

\* There are at most as many discovered URLs as candidates.
LEMMA ReconciledCount ==
  ASSUME NEW cands \in Seq(CandidateSet)
  PROVE  /\ Reconcile(cands) \subseteq DiscoveredUrlSet
         /\ IsFiniteSet(Reconcile(cands))
         /\ Cardinality(Reconcile(cands)) \in 0..Len(cands)
<1> DEFINE f == [i \in 1..Len(cands) |-> Merged(cands, cands[i].url)]
<1>1. DOMAIN cands = 1..Len(cands) /\ Len(cands) \in Nat  BY LenProperties
<1>2. Reconcile(cands) \subseteq DiscoveredUrlSet  BY MergedCandidates DEF Reconcile
<1>3. \A u \in Reconcile(cands) : \E i \in 1..Len(cands) : f[i] = u
  BY <1>1 DEF Reconcile, UrlsOf
<1>4. f \in [1..Len(cands) -> Reconcile(cands)]
  BY <1>1 DEF Reconcile, UrlsOf
<1>5. f \in Surjection(1..Len(cands), Reconcile(cands))
  BY <1>3, <1>4 DEF Surjection
<1>6. IsFiniteSet(1..Len(cands)) /\ Cardinality(1..Len(cands)) = Len(cands)
  BY <1>1, FS_Interval
<1>7. /\ IsFiniteSet(Reconcile(cands))
      /\ Cardinality(Reconcile(cands)) <= Len(cands)
  BY <1>5, <1>6, FS_Surjection DEF ExistsSurjection
<1> QED  BY <1>1, <1>2, <1>7, FS_CardinalityType

-----------------------------------------------------------------------------
(* What a job holds, given the shape of the sites (SitesAreTyped, which    *)
(* TLC evaluates for the sites of its runs).                               *)

SitemapFiles == [ref: Refs, depth: Nat, viaIndex: BOOLEAN]
WorkSet == [cands: Seq(CandidateSet), files: Seq(SitemapFiles), visited: SUBSET Urls,
            fetched: Seq(Urls), sitemapUrls: Nat, warnings: Nat,
            results: SUBSET DiscoveredUrlSet, inHandler: BOOLEAN]
TypedWork == work \in [Runs -> WorkSet]

LEMMA PriorityTyped ==
  ASSUME NEW type, NEW page
  PROVE  AssignPriority(type, page) \in Priorities
<1>1. type \in DOMAIN Overrides => Overrides[type] \in Priorities  BY DiscoveredUrlsAssumption
<1>2. DefaultPriority(type) \in Priorities  BY DEF DefaultPriority, Priorities, Excluded
<1>3. Excluded \in Priorities  BY DEF Excluded, Priorities
<1> QED  BY <1>1, <1>2, <1>3 DEF AssignPriority

LEMMA CandidateTyped ==
  ASSUME NEW url \in Urls, NEW ref \in Refs, NEW source \in Sources, NEW depth \in {0, 1},
         NEW class \in Classes
  PROVE  Candidate(url, ref, source, depth, class) \in CandidateSet
BY PriorityTyped DEF Candidate, CandidateSet

LEMMA RefsAndUrls ==
  /\ \A ref \in Refs : NormalUrl(ref, TRUE) \in Urls
  /\ \A url \in Urls : AbsoluteRef(url) \in Refs
BY DEF Refs, Urls, NormalUrl, AbsoluteRef

\* A normalized URL, made a reference again, is accepted and normalized to itself.
LEMMA NormalizedAgain ==
  ASSUME NEW v \in Urls, v.bare = FALSE
  PROVE  NormalUrl(AbsoluteRef(v), TRUE) = v /\ Accepts(AbsoluteRef(v), FALSE)
<1>1. (v.query /\ TRUE) = v.query  BY DEF Urls
<1>2. NormalUrl(AbsoluteRef(v), TRUE) = [page |-> v.page, query |-> v.query, bare |-> FALSE]
  BY <1>1 DEF NormalUrl, AbsoluteRef
<1>3. v = [page |-> v.page, query |-> v.query, bare |-> FALSE]  BY DEF Urls
<1>4. Accepts(AbsoluteRef(v), FALSE)  BY DEF Accepts, Rejects, Raises, AbsoluteRef
<1> QED  BY <1>2, <1>3, <1>4

LEMMA MappedSeq ==
  ASSUME NEW S, NEW n \in Nat, NEW f, DOMAIN f = 1..n, f = [i \in 1..n |-> f[i]],
         \A i \in 1..n : f[i] \in S
  PROVE  f \in Seq(S) /\ Len(f) = n
<1>1. f \in [1..n -> S]  OBVIOUS
<1> QED  BY <1>1, IsASeq, LenProperties

LEMMA NestedTyped ==
  ASSUME NEW parsed, parsed.nested \in Seq(Refs), NEW file \in SitemapFiles
  PROVE  NestedFiles(parsed, file) \in Seq(SitemapFiles)
<1>1. DOMAIN parsed.nested = 1..Len(parsed.nested) /\ Len(parsed.nested) \in Nat  BY LenProperties
<1>2. ASSUME NEW i \in DOMAIN parsed.nested
      PROVE  SitemapFile(AbsoluteRef(NormalUrl(parsed.nested[i], TRUE)), file.depth + 1, TRUE) \in SitemapFiles
  <2>1. parsed.nested[i] \in Refs  BY <1>1, ElementOfSeq
  <2>2. AbsoluteRef(NormalUrl(parsed.nested[i], TRUE)) \in Refs  BY <2>1, RefsAndUrls
  <2>3. file.depth + 1 \in Nat  BY DEF SitemapFiles
  <2> QED  BY <2>2, <2>3 DEF SitemapFile, SitemapFiles
<1>3. NestedFiles(parsed, file) \in [1..Len(parsed.nested) -> SitemapFiles]
  BY <1>1, <1>2 DEF NestedFiles
<1> QED  BY <1>1, <1>3, IsASeq

LEMMA EntriesTyped ==
  ASSUME SitesAreTyped, NEW doc \in DOMAIN Parsed, NEW file \in SitemapFiles
  PROVE  EntryCandidates(Parsed[doc], file) \in Seq(CandidateSet)
<1> DEFINE entries == Parsed[doc].entries
<1>1. entries \in Seq(Refs)  BY DEF SitesAreTyped
<1>2. DOMAIN entries = 1..Len(entries) /\ Len(entries) \in Nat  BY <1>1, LenProperties
<1>3. Parsed[doc].product \in BOOLEAN
  BY DEF Parsed, ParseSitemapDocument, IsProductSitemap
<1>4. ASSUME NEW ref \in Refs
      PROVE  Candidate(NormalUrl(ref, TRUE), ref, IF file.viaIndex THEN "sitemap_index" ELSE "sitemap", 1,
                       ClassifyPageType(ref.page, {}, Parsed[doc].product)) \in CandidateSet
  <2>1. ClassifyPageType(ref.page, {}, Parsed[doc].product) \in Classes
    BY <1>3 DEF SitesAreTyped, Refs
  <2> QED  BY <2>1, RefsAndUrls, CandidateTyped DEF Sources
<1>5. \A i \in 1..Len(entries) : entries[i] \in Refs  BY <1>1, ElementOfSeq
<1>6. EntryCandidates(Parsed[doc], file) \in [1..Len(entries) -> CandidateSet]
  BY <1>2, <1>4, <1>5 DEF EntryCandidates
<1> QED  BY <1>2, <1>6, IsASeq

LEMMA WarnedTyped ==
  ASSUME NEW w \in WorkSet, NEW k \in Nat
  PROVE  Warned(w, k) \in WorkSet
<1>1. w.warnings + k \in Nat  BY DEF WorkSet
<1> QED  BY <1>1 DEF Warned, WorkSet

LEMMA VisitedTyped ==
  ASSUME NEW w \in WorkSet, w.files # <<>>, NEW url \in Urls
  PROVE  /\ Visited(w, url) \in WorkSet
         /\ Skipped(w) \in WorkSet
<1>1. Tail(w.files) \in Seq(SitemapFiles)  BY HeadTailProperties DEF WorkSet
<1>2. w.visited \cup {url} \in SUBSET Urls  BY DEF WorkSet
<1> QED  BY <1>1, <1>2 DEF Visited, Skipped, WorkSet

LEMMA ReadTyped ==
  ASSUME SitesAreTyped, NEW w \in WorkSet, NEW file \in SitemapFiles, NEW url \in Urls, site \in Sites
  PROVE  ReadSitemap(w, file, url) \in WorkSet
<1> DEFINE doc == site.sitemaps[url.page]
           counted == [w EXCEPT !.fetched = Append(@, url)]
           files == PushFiles(w.files, NestedFiles(Parsed[doc], file))
           cands == w.cands \o EntryCandidates(Parsed[doc], file)
<1>1. counted \in WorkSet /\ counted.files = w.files /\ counted.cands = w.cands
        /\ counted.sitemapUrls = w.sitemapUrls
  BY AppendProperties DEF WorkSet
<1>2. doc \in DOMAIN Parsed  BY DEF SitesAreTyped, Urls, Parsed
<1>3. Parsed[doc].nested \in Seq(Refs) /\ Parsed[doc].total \in Nat /\ Parsed[doc].warnings \in Nat
  BY <1>2 DEF SitesAreTyped
<1>4. files \in Seq(SitemapFiles)
  BY <1>3, NestedTyped, ConcatProperties DEF PushFiles, WorkSet
<1>5. cands \in Seq(CandidateSet)
  BY <1>2, EntriesTyped, ConcatProperties DEF WorkSet
<1>6. Warned(counted, 1) \in WorkSet  BY <1>1, WarnedTyped
<1>7. Warned([counted EXCEPT !.files = files, !.cands = cands,
                             !.sitemapUrls = w.sitemapUrls + Parsed[doc].total],
             Parsed[doc].warnings) \in WorkSet
  <2> HIDE DEF files, cands, counted, doc
  <2>1. w.sitemapUrls + Parsed[doc].total \in Nat  BY <1>3 DEF WorkSet
  <2>2. [counted EXCEPT !.files = files, !.cands = cands,
                        !.sitemapUrls = w.sitemapUrls + Parsed[doc].total] \in WorkSet
    BY <1>1, <1>4, <1>5, <2>1 DEF WorkSet
  <2> QED  BY <1>3, <2>2, WarnedTyped
<1> QED  BY <1>1, <1>6, <1>7 DEF ReadSitemap

\* The outcomes of a turn of the loop over the sitemaps.
LEMMA SearchTurn ==
  ASSUME TypedWork, NEW r \in Runs, NextSitemap(r)
  PROVE  LET w == work[r]
             file == Head(w.files)
             url == NormalUrl(file.ref, TRUE)
         IN \/ /\ Raises(file.ref, FALSE)
               /\ pc' = [pc EXCEPT ![r] = "dead"] /\ work'[r] = w
            \/ /\ ~Raises(file.ref, FALSE) /\ pc' = pc
               /\ \/ Rejects(file.ref, FALSE) /\ work'[r] = Warned(Skipped(w), 1)
                  \/ /\ Accepts(file.ref, FALSE)
                     /\ \/ url \in w.visited /\ work'[r] = Skipped(w)
                        \/ /\ url \notin w.visited
                           /\ \/ TooDeep(file) /\ work'[r] = Warned(Visited(w, url), 1)
                              \/ ~TooDeep(file) /\ work'[r] = ReadSitemap(Visited(w, url), file, url)
<1> DEFINE w == work[r]
           file == Head(w.files)
           url == NormalUrl(file.ref, TRUE)
<1>1. CASE Raises(file.ref, FALSE)  BY <1>1 DEF NextSitemap, Goto
<1>2. CASE ~Raises(file.ref, FALSE)
  <2>1. /\ pc' = pc
        /\ work' = [work EXCEPT ![r] =
                     IF Rejects(file.ref, FALSE) THEN Warned(Skipped(w), 1)
                     ELSE IF url \in w.visited THEN Skipped(w)
                     ELSE IF TooDeep(file) THEN Warned(Visited(w, url), 1)
                     ELSE ReadSitemap(Visited(w, url), file, url)]
    BY <1>2 DEF NextSitemap
  <2>2. work'[r] = IF Rejects(file.ref, FALSE) THEN Warned(Skipped(w), 1)
                   ELSE IF url \in w.visited THEN Skipped(w)
                   ELSE IF TooDeep(file) THEN Warned(Visited(w, url), 1)
                   ELSE ReadSitemap(Visited(w, url), file, url)
    BY <2>1 DEF TypedWork
  <2>3. ~Rejects(file.ref, FALSE) => Accepts(file.ref, FALSE)  BY <1>2 DEF Accepts
  <2> QED  BY <1>2, <2>1, <2>2, <2>3
<1> QED  BY <1>1, <1>2

LEMMA SearchTyped ==
  ASSUME SitesAreTyped, Shape, TypedWork, NEW r \in Runs, NextSitemap(r)
  PROVE  work'[r] \in WorkSet
<1> DEFINE w == work[r]
           file == Head(w.files)
           url == NormalUrl(file.ref, TRUE)
<1>1. w \in WorkSet /\ w.files # <<>> /\ w.files \in Seq(SitemapFiles)
  BY DEF TypedWork, NextSitemap, SearchGoesOn, WorkSet
<1>2. file \in SitemapFiles  BY <1>1, HeadTailProperties
<1>3. url \in Urls  BY <1>2, RefsAndUrls DEF SitemapFiles
<1>7. \/ work'[r] = w
      \/ work'[r] = Warned(Skipped(w), 1)
      \/ work'[r] = Skipped(w)
      \/ work'[r] = Warned(Visited(w, url), 1)
      \/ work'[r] = ReadSitemap(Visited(w, url), file, url)
  BY SearchTurn
<1> HIDE DEF file, url
<1>4. Skipped(w) \in WorkSet /\ Visited(w, url) \in WorkSet
  BY <1>1, <1>3, VisitedTyped
<1>5. Warned(Skipped(w), 1) \in WorkSet /\ Warned(Visited(w, url), 1) \in WorkSet
  BY <1>4, WarnedTyped
<1>6. ReadSitemap(Visited(w, url), file, url) \in WorkSet
  BY <1>2, <1>3, <1>4, ReadTyped DEF Shape
<1> QED  BY <1>1, <1>4, <1>5, <1>6, <1>7

LEMMA KeptCandidates ==
  ASSUME TypedWork, NEW r \in Runs
  PROVE  /\ Kept(r) \in Seq(CandidateSet)
         /\ Len(Kept(r)) <= Len(work[r].cands)
         /\ Len(Kept(r)) \in Nat /\ Len(work[r].cands) \in Nat
         /\ work[r].cands # <<>> => 1 \in DOMAIN Kept(r) /\ Kept(r)[1] = work[r].cands[1]
         /\ \A i \in DOMAIN Kept(r) : i \in DOMAIN work[r].cands /\ Kept(r)[i] = work[r].cands[i]
<1> DEFINE cands == work[r].cands
           n == Min({MaxUrlsPerRun, Len(cands)})
<1>1. cands \in Seq(CandidateSet)  BY DEF TypedWork, WorkSet
<1>2. Len(cands) \in Nat /\ \A i \in 1..Len(cands) : cands[i] \in CandidateSet
  BY <1>1, LenProperties, ElementOfSeq
<1>3. MaxUrlsPerRun \in Nat \ {0}  BY DiscoveryAssumption
<1>4. n \in {MaxUrlsPerRun, Len(cands)} /\ n <= MaxUrlsPerRun /\ n <= Len(cands)
  BY <1>2, <1>3, MinNat
<1>5. n \in 0..Len(cands)  BY <1>2, <1>3, <1>4
<1> HIDE DEF n
<1>6. /\ SubSeq(cands, 1, n) \in Seq(CandidateSet)
      /\ Len(SubSeq(cands, 1, n)) = n
      /\ \A i \in 1..n : SubSeq(cands, 1, n)[i] = cands[i]
  <2>1. \A i \in 1..n : cands[i] \in CandidateSet  BY <1>2, <1>5
  <2> HIDE DEF cands
  <2> QED  BY <1>5, <2>1, SubSeqProperties
<1>7. Kept(r) = SubSeq(cands, 1, n)  BY DEF Kept, n
<1>8. ASSUME cands # <<>> PROVE 1 \in DOMAIN Kept(r) /\ Kept(r)[1] = cands[1]
  <2>1. Len(cands) # 0  BY <1>1, <1>8, EmptySeq
  <2>2. n # 0  BY <1>3, <1>4, <2>1
  <2> QED  BY <1>5, <1>6, <1>7, <2>2, LenProperties
<1>9. \A i \in DOMAIN Kept(r) : i \in DOMAIN cands /\ Kept(r)[i] = cands[i]
  <2>1. DOMAIN Kept(r) = 1..n /\ DOMAIN cands = 1..Len(cands)
    BY <1>1, <1>6, <1>7, LenProperties
  <2> QED  BY <1>2, <1>5, <1>6, <1>7, <2>1
<1> QED  BY <1>2, <1>5, <1>6, <1>7, <1>8, <1>9

LEMMA StepTypedWork ==
  ASSUME SitesAreTyped, Shape, TypedWork, NEW r \in Runs, RunStep(r)
  PROVE  TypedWork'
<1>0. work[r] \in WorkSet /\ site \in Sites /\ DOMAIN work = Runs  BY DEF TypedWork, Shape
<1>1. SUFFICES work'[r] \in WorkSet
  <2>1. \A q \in Runs \ {r} : work'[q] = work[q]  BY OneRun
  <2>2. work' = [q \in Runs |-> work'[q]]  BY OneRun DEF Shape
  <2> QED  BY <2>1, <2>2 DEF TypedWork
<1>2. CASE work' = work  BY <1>0, <1>2
<1>3. CASE CreateCompanyRun(r)  BY <1>0, <1>3 DEF CreateCompanyRun, WorkSet
<1>4. CASE ResolveHomepage(r)
  <2>1. ASSUME NEW i \in DOMAIN site.homes PROVE <<HomepageCandidate(site.homes[i])>> \in Seq(CandidateSet)
    <3>1. site.homes[i] \in Urls  BY <1>0, <2>1, ElementOfSeq, LenProperties DEF SitesAreTyped
    <3>2. Class("homepage", 100) \in Classes
      BY DEF Class, Classes, PageTypes, Tier1
    <3>3. HomepageCandidate(site.homes[i]) \in CandidateSet
      BY <3>1, <3>2, CandidateTyped, RefsAndUrls DEF HomepageCandidate, Sources
    <3> QED  BY <3>3
  <2> QED  BY <1>0, <1>4, <2>1 DEF ResolveHomepage, WorkSet, stored
<1>5. CASE ExtractHomepageLinks(r)
  <2>1. work[r].cands \o HomeCandidates[site.home] \in Seq(CandidateSet)
    BY <1>0, ConcatProperties DEF SitesAreTyped, WorkSet
  <2>2. work'[r] = work[r] \/ work'[r] = [work[r] EXCEPT !.cands = work[r].cands \o HomeCandidates[site.home]]
    BY <1>0, <1>5 DEF ExtractHomepageLinks
  <2> QED  BY <1>0, <2>1, <2>2 DEF WorkSet
<1>6. CASE FetchRobots(r)
  <2> DEFINE found == SitemapsOf(RobotsLines(site))
             files == [i \in DOMAIN found |-> SitemapFile(found[i].ref, 0, FALSE)]
             warned == IF site.robots.outcome = "error" THEN 1 ELSE RobotsWarnings(RobotsLines(site))
  <2>1. /\ Len(found) \in Nat /\ DOMAIN found = 1..Len(found)
        /\ \A i \in DOMAIN found : found[i].ref \in Refs
        /\ warned \in Nat
    BY <1>0 DEF SitesAreTyped
  <2>2. files \in [1..Len(found) -> SitemapFiles]
    BY <2>1 DEF SitemapFile, SitemapFiles
  <2>3. files \in Seq(SitemapFiles)
    <3> HIDE DEF files
    <3> QED  BY <2>1, <2>2, IsASeq
  <2>4. work[r].warnings + warned \in Nat  BY <1>0, <2>1 DEF WorkSet
  <2>5. work'[r] = [work[r] EXCEPT !.files = files, !.warnings = work[r].warnings + warned]
    BY <1>0, <1>6 DEF FetchRobots
  <2> HIDE DEF files, warned
  <2> QED  BY <1>0, <2>3, <2>4, <2>5 DEF WorkSet
<1>7. CASE NextSitemap(r)  BY <1>7, SearchTyped
<1>8. CASE EndSearch(r)
  <2>1. Reconcile(Kept(r)) \in SUBSET DiscoveredUrlSet  BY KeptCandidates, ReconciledCount
  <2>2. work[r].warnings + (IF Len(Kept(r)) < Len(work[r].cands) THEN 1 ELSE 0) \in Nat
    BY <1>0 DEF WorkSet
  <2>3. work'[r] = [work[r] EXCEPT !.results = Reconcile(Kept(r)),
                                   !.warnings = work[r].warnings
                                     + (IF Len(Kept(r)) < Len(work[r].cands) THEN 1 ELSE 0)]
    BY <1>0, <1>8 DEF EndSearch
  <2> QED  BY <1>0, <2>1, <2>2, <2>3 DEF WorkSet
<1>9. CASE EnqueueRun(r) \/ EnqueueJob(r) \/ RefuseJob(r) \/ StartRun(r) \/ EnterDiscovering(r)
  BY <1>2, <1>9 DEF EnqueueRun, EnqueueJob, RefuseJob, StartRun, EnterDiscovering
<1>10. CASE SaveUrls(r) \/ SaveSomeUrls(r) \/ FinishRun(r) \/ FailRun(r) \/ Die(r)
  BY <1>2, <1>10 DEF SaveUrls, SaveSomeUrls, FinishRun, FailRun, Die
<1>11. CASE LeaveDiscovering(r) \/ SetLatestRun(r)
  BY <1>2, <1>11 DEF LeaveDiscovering, SetLatestRun
<1> QED
  BY <1>3, <1>4, <1>5, <1>6, <1>7, <1>8, <1>9, <1>10, <1>11 DEF RunStep, JobStep

-----------------------------------------------------------------------------
(* A run that reads completed is whole.                                    *)

HomepageFirst(cands) == cands # <<>> /\ cands[1].source = "homepage" /\ cands[1].depth = 0

Whole(r) ==
  /\ \E u \in urls[r] : "homepage" \in u.sources /\ u.depth = 0
  /\ runs[r].summary.excluded = Cardinality({u \in urls[r] : u.priority = Excluded})
  /\ runs[r].summary.accepted = Cardinality({u \in urls[r] : u.priority # Excluded})
  /\ runs[r].summary.found >= runs[r].summary.merged + Cardinality(urls[r])

\* What a job holds is what the steps behind it have made of the site.
WholeRun(r) ==
  /\ pc[r] \in {"links", "robots", "sitemaps", "saving", "finishing"} => HomepageFirst(work[r].cands)
  /\ pc[r] \in {"saving", "finishing"} => work[r].results = Reconcile(Kept(r))
  /\ pc[r] = "finishing" => urls[r] = work[r].results
  /\ Completed(r) => Whole(r)

LEMMA LongerCandidates ==
  ASSUME NEW s \in Seq(CandidateSet), NEW t \in Seq(CandidateSet), HomepageFirst(s)
  PROVE  HomepageFirst(s \o t)
<1>1. Len(s) \in Nat /\ Len(s) # 0 /\ Len(t) \in Nat  BY EmptySeq DEF HomepageFirst
<1>2. s \o t \in Seq(CandidateSet) /\ Len(s \o t) # 0 /\ (s \o t)[1] = s[1]
  BY <1>1, ConcatProperties
<1> QED  BY <1>2 DEF HomepageFirst

LEMMA SplitSet ==
  ASSUME NEW S, IsFiniteSet(S), NEW T, T \subseteq S
  PROVE  /\ Cardinality(S) \in Nat /\ Cardinality(T) \in Nat
         /\ Cardinality(S \ T) = Cardinality(S) - Cardinality(T)
         /\ Cardinality(S \ T) \in Nat
<1>1. IsFiniteSet(T) /\ S \cap T = T  BY FS_Subset
<1>2. IsFiniteSet(S \ T) /\ Cardinality(S \ T) = Cardinality(S) - Cardinality(S \cap T)  BY FS_Difference
<1> QED  BY <1>1, <1>2, FS_CardinalityType

LEMMA FinishedWhole ==
  ASSUME TypedWork, NEW r \in Runs, HomepageFirst(work[r].cands),
         work[r].results = Reconcile(Kept(r)), urls[r] = work[r].results
  PROVE  /\ \E u \in urls[r] : "homepage" \in u.sources /\ u.depth = 0
         /\ Summary(r).excluded = Cardinality({u \in urls[r] : u.priority = Excluded})
         /\ Summary(r).accepted = Cardinality({u \in urls[r] : u.priority # Excluded})
         /\ Summary(r).found >= Summary(r).merged + Cardinality(urls[r])
         /\ \A field \in DOMAIN NoSummary : Summary(r)[field] \in Nat
<1> DEFINE kept == Kept(r)
           results == work[r].results
           excluded == ExcludedResults(r)
<1>1. /\ kept \in Seq(CandidateSet) /\ Len(kept) \in Nat /\ Len(work[r].cands) \in Nat
      /\ Len(kept) <= Len(work[r].cands)
      /\ 1 \in DOMAIN kept /\ kept[1] = work[r].cands[1]
  BY KeptCandidates DEF HomepageFirst
<1>2. IsFiniteSet(results) /\ Cardinality(results) \in 0..Len(kept)
  BY <1>1, ReconciledCount
<1>3. \E u \in urls[r] : "homepage" \in u.sources /\ u.depth = 0
  <2>1. kept[1].url \in UrlsOf(kept)  BY <1>1 DEF UrlsOf
  <2>2. Merged(kept, kept[1].url) \in urls[r]  BY <2>1 DEF Reconcile
  <2>3. /\ Merged(kept, kept[1].url) \in DiscoveredUrlSet
        /\ "homepage" \in Merged(kept, kept[1].url).sources
        /\ Merged(kept, kept[1].url).depth <= 0
    BY <1>1, <2>1, MergedCandidates DEF HomepageFirst
  <2>4. Merged(kept, kept[1].url).depth \in {0, 1}  BY <2>3 DEF DiscoveredUrlSet
  <2> QED  BY <2>2, <2>3, <2>4
<1>4. excluded \subseteq results /\ excluded = {u \in urls[r] : u.priority = Excluded}
  BY DEF ExcludedResults
<1>5. results \ excluded = {u \in urls[r] : u.priority # Excluded} /\ results \cap excluded = excluded
  BY <1>4
<1>6. /\ Cardinality(results) \in Nat /\ Cardinality(excluded) \in Nat
      /\ Cardinality(results \ excluded) = Cardinality(results) - Cardinality(excluded)
      /\ Cardinality(results \ excluded) \in Nat
  <2> HIDE DEF results, excluded
  <2> QED  BY <1>2, <1>4, SplitSet
<1>8. work[r].sitemapUrls \in Nat /\ work[r].warnings \in Nat  BY DEF TypedWork, WorkSet
<1>9. Summary(r) = [found |-> Len(work[r].cands), accepted |-> Cardinality(results) - Cardinality(excluded),
                    excluded |-> Cardinality(excluded), merged |-> Len(kept) - Cardinality(results),
                    sitemapUrls |-> work[r].sitemapUrls, warnings |-> work[r].warnings]
  BY DEF Summary
<1> HIDE DEF kept, results, excluded
<1>10. Len(kept) - Cardinality(results) \in Nat  BY <1>1, <1>2
<1>11. \A field \in DOMAIN NoSummary : Summary(r)[field] \in Nat
  BY <1>1, <1>6, <1>8, <1>9, <1>10 DEF NoSummary
<1>12. Summary(r).found >= Summary(r).merged + Cardinality(results)
  BY <1>1, <1>2, <1>9
<1>13. results = urls[r]  BY DEF results
<1>14. Summary(r).excluded = Cardinality({u \in urls[r] : u.priority = Excluded})
  BY <1>4, <1>9
<1>15. Summary(r).accepted = Cardinality({u \in urls[r] : u.priority # Excluded})
  <2>1. Cardinality({u \in urls[r] : u.priority # Excluded}) = Cardinality(results \ excluded)
    BY <1>5
  <2>2. Summary(r).accepted = Cardinality(results) - Cardinality(excluded)  BY <1>9
  <2> QED  BY <1>6, <2>1, <2>2
<1>16. Summary(r).found >= Summary(r).merged + Cardinality(urls[r])  BY <1>12, <1>13
<1> QED  BY <1>3, <1>11, <1>14, <1>15, <1>16

\* A turn of the loop leaves the candidates alone, or adds those of a document.
LEMMA SearchCandidates ==
  ASSUME SitesAreTyped, Shape, TypedWork, NEW r \in Runs, NextSitemap(r)
  PROVE  \E doc \in DOMAIN Parsed, file \in SitemapFiles :
           work'[r].cands \in {work[r].cands, work[r].cands \o EntryCandidates(Parsed[doc], file)}
<1> DEFINE w == work[r]
           file == Head(w.files)
           url == NormalUrl(file.ref, TRUE)
           doc == site.sitemaps[url.page]
<1>1. w \in WorkSet /\ file \in SitemapFiles /\ url \in Urls
  <2>1. w \in WorkSet /\ w.files # <<>> /\ w.files \in Seq(SitemapFiles)
    BY DEF TypedWork, NextSitemap, SearchGoesOn, WorkSet
  <2>2. file \in SitemapFiles  BY <2>1, HeadTailProperties
  <2> QED  BY <2>1, <2>2, RefsAndUrls DEF SitemapFiles
<1>2. doc \in DOMAIN Parsed
  <2> HIDE DEF url
  <2>1. site \in Sites /\ url.page \in DOMAIN site.sitemaps
    BY <1>1 DEF SitesAreTyped, Urls, Shape
  <2> QED  BY <2>1 DEF Parsed
<1>3. work'[r].cands \in {w.cands, w.cands \o EntryCandidates(Parsed[doc], file)}
  <2>1. \/ work'[r] = w
        \/ work'[r] = Warned(Skipped(w), 1)
        \/ work'[r] = Skipped(w)
        \/ work'[r] = Warned(Visited(w, url), 1)
        \/ work'[r] = ReadSitemap(Visited(w, url), file, url)
    BY SearchTurn
  <2> HIDE DEF file, url
  <2>2. Skipped(w).cands = w.cands /\ Warned(Skipped(w), 1).cands = w.cands
        /\ Visited(w, url).cands = w.cands /\ Warned(Visited(w, url), 1).cands = w.cands
    BY <1>1 DEF Warned, Skipped, Visited, WorkSet
  <2>3. ReadSitemap(Visited(w, url), file, url).cands
          \in {w.cands, w.cands \o EntryCandidates(Parsed[doc], file)}
    BY <1>1 DEF Warned, Visited, ReadSitemap, WorkSet
  <2> QED  BY <2>1, <2>2, <2>3
<1> HIDE DEF doc, file
<1> QED  BY <1>1, <1>2, <1>3

LEMMA SearchKeepsHomepage ==
  ASSUME SitesAreTyped, Shape, TypedWork, NEW r \in Runs, HomepageFirst(work[r].cands), NextSitemap(r)
  PROVE  HomepageFirst(work'[r].cands)
<1>1. PICK doc \in DOMAIN Parsed, file \in SitemapFiles :
        work'[r].cands \in {work[r].cands, work[r].cands \o EntryCandidates(Parsed[doc], file)}
  BY SearchCandidates
<1>2. EntryCandidates(Parsed[doc], file) \in Seq(CandidateSet)  BY EntriesTyped
<1> QED  BY <1>1, <1>2, LongerCandidates DEF TypedWork, WorkSet

LEMMA StepWhole ==
  ASSUME SitesAreTyped, Shape, TypedWork, Settled, NEW r \in Runs, WholeRun(r), RunStep(r)
  PROVE  WholeRun(r)'
<1> USE DEF Goto, stored, AdvanceCompany
<1>0. work[r] \in WorkSet /\ DOMAIN work = Runs /\ site \in Sites  BY DEF TypedWork, Shape
<1>2. ASSUME pc[r] \in {"new", "created", "queued", "entering", "homepage", "links", "robots",
                        "sitemaps", "saving", "finishing", "failing"},
             runs'[r].status = runs[r].status
      PROVE  ~Completed(r)'
  BY <1>2 DEF Settled, Completed
<1>3. CASE EnqueueRun(r) \/ CreateCompanyRun(r)
  <2>1. pc'[r] \in {"created", "queued"} /\ runs'[r].status = "queued"
    BY <1>3 DEF EnqueueRun, CreateCompanyRun, Shape
  <2> QED  BY <2>1 DEF WholeRun, Completed
<1>4. CASE EnqueueJob(r) \/ RefuseJob(r)
  <2>1. pc'[r] \in {"queued", "ended"} /\ runs' = runs /\ pc[r] = "created"
    BY <1>4 DEF EnqueueJob, RefuseJob, Shape
  <2> QED  BY <1>2, <2>1 DEF WholeRun
<1>5. CASE StartRun(r)
  <2>1. pc'[r] = "entering" /\ runs'[r].status = "running"  BY <1>5 DEF StartRun, Shape
  <2> QED  BY <2>1 DEF WholeRun, Completed
<1>6. CASE EnterDiscovering(r)
  <2>1. pc'[r] = "homepage" /\ runs' = runs /\ pc[r] = "entering"
    BY <1>6 DEF EnterDiscovering, Shape
  <2> QED  BY <1>2, <2>1 DEF WholeRun
<1>7. CASE ResolveHomepage(r)
  <2>1. runs' = runs /\ pc[r] = "homepage" /\ ~Completed(r)'  BY <1>2, <1>7 DEF ResolveHomepage
  <2>2. CASE pc'[r] = "failing"  BY <2>1, <2>2 DEF WholeRun
  <2>3. CASE pc'[r] = "links"
    <3>1. PICK i \in DOMAIN site.homes : work'[r].cands = <<HomepageCandidate(site.homes[i])>>
      <4>1. PICK i \in DOMAIN site.homes :
              work' = [work EXCEPT ![r].cands = <<HomepageCandidate(site.homes[i])>>]
        BY <1>7, <2>3 DEF ResolveHomepage, Shape
      <4> QED  BY <1>0, <4>1 DEF WorkSet
    <3>2. HomepageFirst(work'[r].cands)
      BY <3>1 DEF HomepageFirst, HomepageCandidate, Candidate
    <3> QED  BY <2>1, <2>3, <3>2 DEF WholeRun
  <2> QED  BY <1>7, <2>2, <2>3 DEF ResolveHomepage, Shape
<1>8. CASE ExtractHomepageLinks(r)
  <2>1. runs' = runs /\ pc[r] = "links" /\ ~Completed(r)'  BY <1>2, <1>8 DEF ExtractHomepageLinks
  <2>2. CASE pc'[r] = "dead"  BY <2>1, <2>2 DEF WholeRun
  <2>3. CASE pc'[r] = "robots"
    <3>1. work'[r].cands = work[r].cands \o HomeCandidates[site.home]
      BY <1>0, <1>8, <2>3 DEF ExtractHomepageLinks, Shape, WorkSet
    <3>2. HomeCandidates[site.home] \in Seq(CandidateSet) /\ work[r].cands \in Seq(CandidateSet)
      BY <1>0 DEF SitesAreTyped, WorkSet
    <3>3. HomepageFirst(work'[r].cands)
      BY <2>1, <3>1, <3>2, LongerCandidates DEF WholeRun
    <3> QED  BY <2>1, <2>3, <3>3 DEF WholeRun
  <2> QED  BY <1>8, <2>2, <2>3 DEF ExtractHomepageLinks, Shape
<1>9. CASE FetchRobots(r)
  <2>1. runs' = runs /\ pc[r] = "robots" /\ ~Completed(r)' /\ pc'[r] = "sitemaps"
    BY <1>2, <1>9 DEF FetchRobots, Shape
  <2>2. work'[r].cands = work[r].cands  BY <1>0, <1>9 DEF FetchRobots, WorkSet
  <2> QED  BY <2>1, <2>2 DEF WholeRun
<1>10. CASE NextSitemap(r)
  <2>1. runs' = runs /\ pc[r] = "sitemaps" /\ ~Completed(r)' /\ pc'[r] \in {"sitemaps", "dead"}
    BY <1>2, <1>10 DEF NextSitemap, Shape
  <2>2. HomepageFirst(work'[r].cands)
    BY <1>10, <2>1, SearchKeepsHomepage DEF WholeRun
  <2> QED  BY <2>1, <2>2 DEF WholeRun
<1>11. CASE EndSearch(r)
  <2>1. runs' = runs /\ pc[r] = "sitemaps" /\ ~Completed(r)' /\ pc'[r] = "saving"
    BY <1>2, <1>11 DEF EndSearch, Shape
  <2>2. work'[r].cands = work[r].cands /\ work'[r].results = Reconcile(Kept(r))
    BY <1>0, <1>11 DEF EndSearch, WorkSet
  <2> QED  BY <2>1, <2>2 DEF WholeRun, Kept
<1>12. CASE SaveUrls(r)
  <2>1. runs' = runs /\ pc[r] = "saving" /\ ~Completed(r)' /\ pc'[r] = "finishing"
        /\ work' = work /\ urls'[r] = work[r].results
    BY <1>2, <1>12 DEF SaveUrls, Shape
  <2> QED  BY <2>1 DEF WholeRun, Kept
<1>13. CASE SaveSomeUrls(r)
  <2>1. runs' = runs /\ pc[r] = "saving" /\ ~Completed(r)' /\ pc'[r] = "dead"
    BY <1>2, <1>13 DEF SaveSomeUrls, Shape
  <2> QED  BY <2>1 DEF WholeRun
<1>14. CASE FinishRun(r)
  <2>1. pc[r] = "finishing" /\ pc'[r] = "leaving" /\ urls' = urls /\ runs'[r].summary = Summary(r)
    BY <1>14 DEF FinishRun, Shape
  <2>2. Whole(r)'
    BY <2>1, FinishedWhole DEF WholeRun, Whole
  <2> QED  BY <2>1, <2>2 DEF WholeRun
<1>15. CASE LeaveDiscovering(r) \/ SetLatestRun(r)
  <2>1. pc'[r] \in {"latest", "ended"} /\ urls' = urls /\ runs' = runs
    BY <1>15 DEF LeaveDiscovering, SetLatestRun, Shape
  <2> QED  BY <2>1 DEF WholeRun, Whole, Completed
<1>16. CASE FailRun(r)
  <2>1. pc'[r] = "leaving" /\ runs'[r].status = "failed"  BY <1>16 DEF FailRun, Shape
  <2> QED  BY <2>1 DEF WholeRun, Completed
<1>17. CASE Die(r)
  <2>1. pc'[r] = "dead" /\ urls' = urls /\ runs' = runs  BY <1>17 DEF Die, Shape
  <2> QED  BY <2>1 DEF WholeRun, Whole, Completed
<1> QED
  BY <1>3, <1>4, <1>5, <1>6, <1>7, <1>8, <1>9, <1>10, <1>11, <1>12, <1>13, <1>14, <1>15, <1>16, <1>17
     DEF RunStep, JobStep

WholeInv == Shape /\ TypedWork /\ Settled /\ \A r \in Runs : WholeRun(r)

LEMMA InitWhole ==
  ASSUME Init PROVE WholeInv
<1>1. EmptyWork \in WorkSet  BY DEF EmptyWork, WorkSet
<1>2. TypedWork  BY <1>1 DEF Init, TypedWork
<1>3. \A r \in Runs : pc[r] = "new" /\ runs[r].status = "none"  BY DEF Init
<1>4. Settled /\ \A r \in Runs : WholeRun(r)  BY <1>3 DEF Settled, Completed, WholeRun
<1> QED  BY <1>2, <1>4, InitShape DEF WholeInv

LEMMA NextWhole ==
  ASSUME SitesAreTyped, WholeInv, [Next]_vars
  PROVE  WholeInv'
<1>1. CASE UNCHANGED vars
  <2>1. Shape' /\ TypedWork' /\ Settled'
    BY <1>1, StepShape DEF vars, WholeInv, Settled, Completed, TypedWork
  <2>2. ASSUME NEW r \in Runs PROVE WholeRun(r)'
    <3>1. WholeRun(r)  BY DEF WholeInv
    <3> QED  BY <1>1, <3>1 DEF vars, WholeRun, Whole, Completed, Kept
  <2> QED  BY <2>1, <2>2 DEF WholeInv
<1>2. ASSUME NEW r \in Runs, RunStep(r) PROVE WholeInv'
  <2>1. Shape' /\ TypedWork' /\ Settled'
    BY <1>2, OneRun, StepTypedWork, StepSettled DEF WholeInv
  <2>2. WholeRun(r)'  BY <1>2, StepWhole DEF WholeInv
  <2>3. ASSUME NEW q \in Runs \ {r} PROVE WholeRun(q)'
    <3>1. pc'[q] = pc[q] /\ runs'[q] = runs[q] /\ urls'[q] = urls[q] /\ work'[q] = work[q]
      BY <1>2, OneRun DEF WholeInv
    <3>2. WholeRun(q)  BY DEF WholeInv
    <3> QED  BY <3>1, <3>2 DEF WholeRun, Whole, Completed, Kept
  <2> QED  BY <2>1, <2>2, <2>3 DEF WholeInv
<1> QED  BY <1>1, <1>2 DEF Next, RunStep

\* A run that reads completed has stored all it counts and its homepage, for
\* any sites, runs and deaths (CompletedRunsAreWhole).
THEOREM WholeRuns ==
  ASSUME SitesAreTyped
  PROVE  Spec => []CompletedRunsAreWhole
<1>1. Init => WholeInv  BY InitWhole
<1>2. WholeInv /\ [Next]_vars => WholeInv'  BY NextWhole
<1>3. WholeInv => CompletedRunsAreWhole
  BY DEF WholeInv, WholeRun, Whole, CompletedRunsAreWhole
<1> QED  BY <1>1, <1>2, <1>3, PTL DEF Spec

-----------------------------------------------------------------------------
(* The order of the candidates. A candidate's class is one of four, and    *)
(* two of them with the same confidence are the same.                      *)

\* The texts of a homepage's link to a URL.
HomeTexts(s, u) ==
  CHOOSE texts \in SUBSET DOMAIN KeywordsOf :
    \A i \in DOMAIN HomeCandidates[s.home] :
      HomeCandidates[s.home][i].url = u =>
        HomeCandidates[s.home][i].class \in {ClassifyPageType(u.page, texts, FALSE),
                                            ClassifyPageType(u.page, {}, FALSE)}

\* As the homepage, from its link, from no link, from a product sitemap.
ClassesFor(s, u) ==
  {Class("homepage", 100), ClassifyPageType(u.page, HomeTexts(s, u), FALSE),
   ClassifyPageType(u.page, {}, FALSE), ClassifyPageType(u.page, {}, TRUE)}

Classified(s, cands) == \A i \in DOMAIN cands : cands[i].class \in ClassesFor(s, cands[i].url)

\* No two candidates for a URL tie with different classes.
NoTies(cands, u) ==
  \A i, j \in DOMAIN cands :
    /\ cands[i].url = u /\ cands[j].url = u
    /\ cands[i].class.confidence = cands[j].class.confidence
    => cands[i].class = cands[j].class

LEMMA TextsChosen ==
  ASSUME OccurrencesAgree, NEW s \in Sites, NEW u \in Urls
  PROVE  /\ HomeTexts(s, u) \in SUBSET DOMAIN KeywordsOf
         /\ \A i \in DOMAIN HomeCandidates[s.home] :
              HomeCandidates[s.home][i].url = u => HomeCandidates[s.home][i].class \in ClassesFor(s, u)
<1> DEFINE P(texts) ==
             \A i \in DOMAIN HomeCandidates[s.home] :
               HomeCandidates[s.home][i].url = u =>
                 HomeCandidates[s.home][i].class \in {ClassifyPageType(u.page, texts, FALSE),
                                                     ClassifyPageType(u.page, {}, FALSE)}
<1>1. \E texts \in SUBSET DOMAIN KeywordsOf : P(texts)  BY DEF OccurrencesAgree
<1>2. HomeTexts(s, u) = CHOOSE texts \in SUBSET DOMAIN KeywordsOf : P(texts)  BY DEF HomeTexts
<1>3. HomeTexts(s, u) \in SUBSET DOMAIN KeywordsOf /\ P(HomeTexts(s, u))
  <2> HIDE DEF P
  <2> QED  BY <1>1, <1>2
<1> QED  BY <1>3 DEF ClassesFor

LEMMA ClassesAgree ==
  ASSUME OccurrencesAgree, NEW s \in Sites, NEW u \in Urls,
         NEW c \in ClassesFor(s, u), NEW d \in ClassesFor(s, u), c.confidence = d.confidence
  PROVE  c = d
<1> DEFINE path == PathOf[u.page]
           texts == HomeTexts(s, u)
           hit == AnchorClass[texts]
           linked == ClassifyPageType(u.page, texts, FALSE)
           bare == ClassifyPageType(u.page, {}, FALSE)
           listed == ClassifyPageType(u.page, {}, TRUE)
<1>1. hit.confidence \in 0..60  BY TextsChosen DEF OccurrencesAgree
<1>2. AnchorClass[{}] = Class("unknown", 0)  BY DEF OccurrencesAgree
<1>3. /\ c \in {Class("homepage", 100), linked, bare, listed}
      /\ d \in {Class("homepage", 100), linked, bare, listed}
  BY DEF ClassesFor
<1>4. ~(AnchorClass[{}].confidence > 0)  BY <1>2 DEF Class
<1> HIDE DEF path, texts, hit, linked, bare, listed
<1>5. CASE path.root
  <2>1. /\ linked = Class("homepage", 100)
        /\ bare = Class("homepage", 100)
        /\ listed = Class("homepage", 100)
    BY <1>5 DEF ClassifyPageType, path, linked, bare, listed
  <2> QED  BY <1>3, <2>1
<1>6. CASE ~path.root /\ path.slug # NoType
  <2>1. /\ linked = Class(path.slug, 95)
        /\ bare = Class(path.slug, 95)
        /\ listed = Class(path.slug, 95)
    BY <1>6 DEF ClassifyPageType, path, linked, bare, listed
  <2>2. /\ c \in {Class("homepage", 100), Class(path.slug, 95)}
        /\ d \in {Class("homepage", 100), Class(path.slug, 95)}
    BY <1>3, <2>1
  <2> QED  BY <2>2 DEF Class
<1>7. CASE ~path.root /\ path.slug = NoType /\ path.prefix # NoType
  <2>1. /\ linked = Class(path.prefix, 90)
        /\ bare = Class(path.prefix, 90)
        /\ listed = Class(path.prefix, 90)
    BY <1>7 DEF ClassifyPageType, path, linked, bare, listed
  <2>2. /\ c \in {Class("homepage", 100), Class(path.prefix, 90)}
        /\ d \in {Class("homepage", 100), Class(path.prefix, 90)}
    BY <1>3, <2>1
  <2> QED  BY <2>2 DEF Class
<1>8. CASE ~path.root /\ path.slug = NoType /\ path.prefix = NoType
  <2>1. listed = Class("product", 70)
    BY <1>4, <1>8 DEF ClassifyPageType, path, linked, bare, listed
  <2>2. bare = Class("unknown", 0)
    BY <1>4, <1>8 DEF ClassifyPageType, path, linked, bare, listed
  <2>3. \/ hit.confidence > 0 /\ linked = hit
        \/ linked = Class("unknown", 0)
    BY <1>8 DEF ClassifyPageType, path, hit, linked, bare, listed
  <2> QED  BY <1>1, <1>3, <2>1, <2>2, <2>3 DEF Class
<1> QED  BY <1>5, <1>6, <1>7, <1>8

LEMMA WinnerIsBest ==
  ASSUME NEW cands \in Seq(CandidateSet), NEW u \in UrlsOf(cands)
  PROVE  LET group == {i \in DOMAIN cands : cands[i].url = u}
         IN /\ Winner(cands, group) \in group
            /\ cands[Winner(cands, group)].class.confidence
                 = Max({cands[i].class.confidence : i \in group})
<1> DEFINE group == {i \in DOMAIN cands : cands[i].url = u}
           confidences == {cands[i].class.confidence : i \in group}
           winners == {i \in group : cands[i].class.confidence = Max(confidences)}
<1>1. DOMAIN cands = 1..Len(cands) /\ Len(cands) \in Nat  BY LenProperties
<1>2. \A i \in DOMAIN cands : cands[i] \in CandidateSet  BY <1>1, ElementOfSeq
<1>3. group # {} /\ group \subseteq Nat  BY <1>1 DEF UrlsOf
<1>4. confidences \subseteq 0..100 /\ confidences # {}
  <2>1. \A i \in group : cands[i].class.confidence \in 0..100  BY <1>2 DEF CandidateSet, Classes
  <2> QED  BY <1>3, <2>1
<1>5. Max(confidences) \in confidences  BY <1>4, MaxNat
<1>6. winners # {} /\ winners \subseteq Nat  BY <1>3, <1>5
<1>7. Min(winners) \in winners  BY <1>6, MinNat
<1> QED  BY <1>7 DEF Winner

\* A sequence backwards: the same elements, at other places.
LEMMA Backwards ==
  ASSUME NEW cands \in Seq(CandidateSet)
  PROVE  /\ Reverse(cands) \in Seq(CandidateSet)
         /\ \A i \in DOMAIN cands : \E j \in DOMAIN Reverse(cands) : Reverse(cands)[j] = cands[i]
         /\ \A j \in DOMAIN Reverse(cands) : \E i \in DOMAIN cands : Reverse(cands)[j] = cands[i]
<1> DEFINE n == Len(cands)
           rev == Reverse(cands)
<1>1. DOMAIN cands = 1..n /\ n \in Nat /\ \A i \in 1..n : cands[i] \in CandidateSet
  BY LenProperties, ElementOfSeq
<1>2. rev = [i \in 1..n |-> cands[(n - i) + 1]]  BY DEF Reverse
<1> HIDE DEF n, rev
<1>3. \A i \in 1..n : (n - i) + 1 \in 1..n /\ (n - ((n - i) + 1)) + 1 = i  BY <1>1
<1>4. rev \in [1..n -> CandidateSet]  BY <1>1, <1>2, <1>3
<1>5. rev \in Seq(CandidateSet) /\ DOMAIN rev = 1..n  BY <1>1, <1>4, IsASeq
<1>6. ASSUME NEW i \in 1..n PROVE \E j \in 1..n : rev[j] = cands[i]
  <2> DEFINE j == (n - i) + 1
  <2>1. j \in 1..n /\ (n - j) + 1 = i  BY <1>3
  <2> HIDE DEF j
  <2>2. rev[j] = cands[i]  BY <1>2, <2>1
  <2> QED  BY <2>1, <2>2
<1>7. \A j \in 1..n : \E i \in 1..n : rev[j] = cands[i]  BY <1>2, <1>3
<1> QED  BY <1>1, <1>5, <1>6, <1>7 DEF rev

\* Without ties, what becomes of a URL is the same backwards, but for the reference.
LEMMA MergedBackwards ==
  ASSUME NEW cands \in Seq(CandidateSet), NEW u \in UrlsOf(cands), NoTies(cands, u)
  PROVE  [Merged(Reverse(cands), u) EXCEPT !.ref = Merged(cands, u).ref] = Merged(cands, u)
<1> DEFINE rev == Reverse(cands)
           here == {i \in DOMAIN cands : cands[i].url = u}
           there == {i \in DOMAIN rev : rev[i].url = u}
           w == Winner(cands, here)
           v == Winner(rev, there)
<1>1. /\ rev \in Seq(CandidateSet)
      /\ \A i \in DOMAIN cands : \E j \in DOMAIN rev : rev[j] = cands[i]
      /\ \A j \in DOMAIN rev : \E i \in DOMAIN cands : rev[j] = cands[i]
  BY Backwards
<1>2. u \in UrlsOf(rev)  BY <1>1 DEF UrlsOf
<1>3. /\ w \in here
      /\ cands[w].class.confidence = Max({cands[i].class.confidence : i \in here})
  BY WinnerIsBest
<1> HIDE DEF rev
<1>4. /\ v \in there
      /\ rev[v].class.confidence = Max({rev[i].class.confidence : i \in there})
  BY <1>1, <1>2, WinnerIsBest
<1>5. /\ \A i \in here : \E j \in there : rev[j] = cands[i]
      /\ \A j \in there : \E i \in here : rev[j] = cands[i]
  BY <1>1
<1>6. /\ {rev[j].class.confidence : j \in there} = {cands[i].class.confidence : i \in here}
      /\ {rev[j].priority : j \in there} = {cands[i].priority : i \in here}
      /\ {rev[j].source : j \in there} = {cands[i].source : i \in here}
      /\ {rev[j].depth : j \in there} = {cands[i].depth : i \in here}
  <2> HIDE DEF here, there
  <2>1. {rev[j].class.confidence : j \in there} = {cands[i].class.confidence : i \in here}  BY <1>5
  <2>2. {rev[j].priority : j \in there} = {cands[i].priority : i \in here}  BY <1>5
  <2>3. {rev[j].source : j \in there} = {cands[i].source : i \in here}  BY <1>5
  <2>4. {rev[j].depth : j \in there} = {cands[i].depth : i \in here}  BY <1>5
  <2> QED  BY <2>1, <2>2, <2>3, <2>4
<1>7. rev[v].class = cands[w].class
  <2>1. PICK i \in here : rev[v] = cands[i]  BY <1>4, <1>5
  <2>2. cands[i].class.confidence = cands[w].class.confidence  BY <1>3, <1>4, <1>6, <2>1
  <2>3. cands[i].url = u /\ cands[w].url = u /\ i \in DOMAIN cands /\ w \in DOMAIN cands
    BY <1>3
  <2>4. cands[i].class = cands[w].class  BY <2>2, <2>3 DEF NoTies
  <2> QED  BY <2>1, <2>4
<1> DEFINE rank == Min({cands[i].priority : i \in here})
           sources == {cands[i].source : i \in here}
           depth == Min({cands[i].depth : i \in here})
           class == cands[w].class
           first == cands[Min(here)].ref
           last == rev[Min(there)].ref
<1>8. /\ Merged(cands, u) =
           [url |-> u, ref |-> first, type |-> class.type, confidence |-> class.confidence,
            priority |-> rank, sources |-> sources, depth |-> depth]
      /\ Merged(rev, u) =
           [url |-> u, ref |-> last, type |-> class.type, confidence |-> class.confidence,
            priority |-> rank, sources |-> sources, depth |-> depth]
  <2>1. /\ rank = Min({rev[i].priority : i \in there})
        /\ sources = {rev[i].source : i \in there}
        /\ depth = Min({rev[i].depth : i \in there})
        /\ class = rev[v].class
    BY <1>6, <1>7
  <2>2. Merged(rev, u) =
          [url |-> u, ref |-> last, type |-> rev[v].class.type, confidence |-> rev[v].class.confidence,
           priority |-> Min({rev[i].priority : i \in there}),
           sources |-> {rev[i].source : i \in there}, depth |-> Min({rev[i].depth : i \in there})]
    BY DEF Merged
  <2>3. Merged(cands, u) =
          [url |-> u, ref |-> first, type |-> class.type, confidence |-> class.confidence,
           priority |-> rank, sources |-> sources, depth |-> depth]
    BY DEF Merged
  <2> HIDE DEF rank, sources, depth, class, last
  <2> QED  BY <2>1, <2>2, <2>3
<1>9. [Merged(rev, u) EXCEPT !.ref = Merged(cands, u).ref] = Merged(cands, u)
  <2> HIDE DEF rank, sources, depth, class, first, last
  <2> QED  BY <1>8
<1> QED  BY <1>9 DEF rev

LEMMA EntriesClassified ==
  ASSUME SitesAreTyped, NEW s \in Sites, NEW doc \in DOMAIN Parsed, NEW file \in SitemapFiles
  PROVE  Classified(s, EntryCandidates(Parsed[doc], file))
<1> DEFINE entries == Parsed[doc].entries
           cands == EntryCandidates(Parsed[doc], file)
<1>1. Parsed[doc].product \in BOOLEAN
  BY DEF Parsed, ParseSitemapDocument, IsProductSitemap
<1>2. ASSUME NEW i \in DOMAIN cands
      PROVE  /\ cands[i].url.page = entries[i].page
             /\ cands[i].class = ClassifyPageType(entries[i].page, {}, Parsed[doc].product)
  BY DEF EntryCandidates, Candidate, NormalUrl
<1> QED  BY <1>1, <1>2 DEF Classified, ClassesFor

LEMMA ConcatClassified ==
  ASSUME NEW s, NEW a \in Seq(CandidateSet), NEW b \in Seq(CandidateSet), Classified(s, a), Classified(s, b)
  PROVE  Classified(s, a \o b)
<1>1. /\ Len(a) \in Nat /\ Len(b) \in Nat
      /\ DOMAIN a = 1..Len(a) /\ DOMAIN b = 1..Len(b)
  BY LenProperties
<1>2. /\ a \o b \in Seq(CandidateSet) /\ Len(a \o b) = Len(a) + Len(b)
      /\ \A i \in 1..(Len(a) + Len(b)) : (a \o b)[i] = IF i <= Len(a) THEN a[i] ELSE b[i - Len(a)]
  BY ConcatProperties
<1>3. DOMAIN (a \o b) = 1..(Len(a) + Len(b))  BY <1>2, LenProperties
<1>4. ASSUME NEW i \in 1..(Len(a) + Len(b))
      PROVE  (a \o b)[i].class \in ClassesFor(s, (a \o b)[i].url)
  <2>1. CASE i <= Len(a)  BY <1>1, <1>2, <2>1 DEF Classified
  <2>2. CASE ~(i <= Len(a))
    <3>1. i - Len(a) \in DOMAIN b /\ (a \o b)[i] = b[i - Len(a)]  BY <1>1, <1>2, <2>2
    <3> QED  BY <3>1 DEF Classified
  <2> QED  BY <2>1, <2>2
<1> QED  BY <1>3, <1>4 DEF Classified
LEMMA SearchClassified ==
  ASSUME SitesAreTyped, Shape, TypedWork, NEW r \in Runs, NextSitemap(r), Classified(site, work[r].cands)
  PROVE  Classified(site, work'[r].cands)
<1>1. PICK doc \in DOMAIN Parsed, file \in SitemapFiles :
        work'[r].cands \in {work[r].cands, work[r].cands \o EntryCandidates(Parsed[doc], file)}
  BY SearchCandidates
<1>2. EntryCandidates(Parsed[doc], file) \in Seq(CandidateSet)  BY EntriesTyped
<1>3. Classified(site, EntryCandidates(Parsed[doc], file))  BY EntriesClassified DEF Shape
<1>4. work[r].cands \in Seq(CandidateSet)  BY DEF TypedWork, WorkSet
<1>5. Classified(site, work[r].cands \o EntryCandidates(Parsed[doc], file))
  BY <1>2, <1>3, <1>4, ConcatClassified
<1> QED  BY <1>1, <1>5

LEMMA StepClassified ==
  ASSUME SitesAreTyped, OccurrencesAgree, Shape, TypedWork, NEW r \in Runs,
         Classified(site, work[r].cands), RunStep(r)
  PROVE  Classified(site', work'[r].cands)
<1> USE DEF Goto, stored, AdvanceCompany
<1>0. work[r] \in WorkSet /\ DOMAIN work = Runs /\ site \in Sites /\ site' = site
  BY OneRun DEF TypedWork, Shape
<1>1. SUFFICES Classified(site, work'[r].cands)  BY <1>0
<1>2. CASE work'[r].cands = work[r].cands  BY <1>2
<1>3. CASE ResolveHomepage(r)
  <2>1. CASE work' = work  BY <1>2, <2>1
  <2>2. ASSUME NEW i \in DOMAIN site.homes,
               work' = [work EXCEPT ![r].cands = <<HomepageCandidate(site.homes[i])>>]
        PROVE  Classified(site, work'[r].cands)
    <3>1. work'[r].cands = <<HomepageCandidate(site.homes[i])>>  BY <1>0, <2>2 DEF WorkSet
    <3>2. HomepageCandidate(site.homes[i]).class = Class("homepage", 100)
      BY DEF HomepageCandidate, Candidate
    <3>3. Class("homepage", 100) \in ClassesFor(site, work'[r].cands[1].url)  BY DEF ClassesFor
    <3> QED  BY <3>1, <3>2, <3>3 DEF Classified
  <2> QED  BY <1>3, <2>1, <2>2 DEF ResolveHomepage
<1>4. CASE ExtractHomepageLinks(r)
  <2>1. CASE work' = work  BY <1>2, <2>1
  <2>2. CASE work' = [work EXCEPT ![r].cands = @ \o HomeCandidates[site.home]]
    <3>1. work'[r].cands = work[r].cands \o HomeCandidates[site.home]  BY <1>0, <2>2 DEF WorkSet
    <3>2. HomeCandidates[site.home] \in Seq(CandidateSet) /\ work[r].cands \in Seq(CandidateSet)
      BY <1>0 DEF SitesAreTyped, WorkSet
    <3>3. ASSUME NEW i \in DOMAIN HomeCandidates[site.home]
          PROVE  HomeCandidates[site.home][i].class
                   \in ClassesFor(site, HomeCandidates[site.home][i].url)
      <4>1. HomeCandidates[site.home][i] \in CandidateSet  BY <3>2, LenProperties, ElementOfSeq
      <4>2. HomeCandidates[site.home][i].url \in Urls  BY <4>1 DEF CandidateSet
      <4> QED  BY <1>0, <4>2, TextsChosen
    <3>4. Classified(site, HomeCandidates[site.home])  BY <3>3 DEF Classified
    <3> QED  BY <3>1, <3>2, <3>4, ConcatClassified
  <2> QED  BY <1>4, <2>1, <2>2 DEF ExtractHomepageLinks
<1>5. CASE NextSitemap(r)  BY <1>5, SearchClassified
<1>6. CASE CreateCompanyRun(r)  BY <1>0, <1>2, <1>6 DEF CreateCompanyRun, WorkSet
<1>7. CASE FetchRobots(r)  BY <1>0, <1>2, <1>7 DEF FetchRobots, WorkSet
<1>8. CASE EndSearch(r)  BY <1>0, <1>2, <1>8 DEF EndSearch, WorkSet
<1>9. CASE EnqueueRun(r) \/ EnqueueJob(r) \/ RefuseJob(r) \/ StartRun(r) \/ EnterDiscovering(r)
  BY <1>2, <1>9 DEF EnqueueRun, EnqueueJob, RefuseJob, StartRun, EnterDiscovering
<1>10. CASE SaveUrls(r) \/ SaveSomeUrls(r) \/ FinishRun(r) \/ FailRun(r) \/ Die(r)
  BY <1>2, <1>10 DEF SaveUrls, SaveSomeUrls, FinishRun, FailRun, Die
<1>11. CASE LeaveDiscovering(r) \/ SetLatestRun(r)
  BY <1>2, <1>11 DEF LeaveDiscovering, SetLatestRun
<1> QED
  BY <1>3, <1>4, <1>5, <1>6, <1>7, <1>8, <1>9, <1>10, <1>11 DEF RunStep, JobStep

LEMMA KeptWithoutTies ==
  ASSUME OccurrencesAgree, TypedWork, site \in Sites, NEW r \in Runs, Classified(site, work[r].cands),
         NEW u \in Urls
  PROVE  NoTies(Kept(r), u)
<1>1. ASSUME NEW i \in DOMAIN Kept(r), Kept(r)[i].url = u PROVE Kept(r)[i].class \in ClassesFor(site, u)
  BY <1>1, KeptCandidates DEF Classified
<1> QED  BY <1>1, ClassesAgree DEF NoTies

\* What is stored of a URL is the same whether its occurrences are met in one
\* order or in the other, but for the reference, for any sites and sitemaps
\* (MergeIsOrderFree).
THEOREM MergeOrderFree ==
  ASSUME SitesAreTyped, OccurrencesAgree
  PROVE  Spec => []MergeIsOrderFree
<1> DEFINE Inv == WholeInv /\ \A r \in Runs : Classified(site, work[r].cands)
<1>1. Init => Inv
  <2> SUFFICES ASSUME Init PROVE \A r \in Runs : Classified(site, work[r].cands)  BY InitWhole
  <2>1. \A r \in Runs : work[r].cands = <<>>  BY DEF Init, EmptyWork
  <2> QED  BY <2>1 DEF Classified
<1>2. Inv /\ [Next]_vars => Inv'
  <2>1. SUFFICES ASSUME Inv, [Next]_vars PROVE \A r \in Runs : Classified(site', work'[r].cands)
    BY NextWhole
  <2>2. CASE UNCHANGED vars  BY <2>1, <2>2 DEF vars
  <2>3. ASSUME NEW r \in Runs, RunStep(r) PROVE \A q \in Runs : Classified(site', work'[q].cands)
    <3>1. Shape /\ TypedWork  BY <2>1 DEF WholeInv
    <3>2. Classified(site', work'[r].cands)  BY <2>1, <2>3, <3>1, StepClassified
    <3>3. ASSUME NEW q \in Runs \ {r} PROVE Classified(site', work'[q].cands)
      <4>1. work'[q] = work[q] /\ site' = site  BY <2>3, <3>1, OneRun
      <4> QED  BY <2>1, <4>1
    <3> QED  BY <3>2, <3>3
  <2> QED  BY <2>1, <2>2, <2>3 DEF Next, RunStep
<1>3. Inv => MergeIsOrderFree
  <2> SUFFICES ASSUME Inv, NEW r \in Runs, pc[r] = "saving", NEW u \in work[r].results
               PROVE  [Merged(Reverse(Kept(r)), u.url) EXCEPT !.ref = u.ref] = u
    BY DEF MergeIsOrderFree
  <2>1. work[r].results = Reconcile(Kept(r)) /\ TypedWork /\ site \in Sites
    BY DEF WholeInv, WholeRun, Shape
  <2>2. Kept(r) \in Seq(CandidateSet)  BY <2>1, KeptCandidates
  <2>3. PICK url \in UrlsOf(Kept(r)) : u = Merged(Kept(r), url)  BY <2>1 DEF Reconcile
  <2>4. url \in Urls /\ u.url = url
    <3>1. \A i \in DOMAIN Kept(r) : Kept(r)[i] \in CandidateSet  BY <2>2, LenProperties, ElementOfSeq
    <3> QED  BY <2>3, <3>1 DEF UrlsOf, CandidateSet, Merged
  <2>5. NoTies(Kept(r), url)  BY <2>1, <2>4, KeptWithoutTies
  <2> QED  BY <2>2, <2>3, <2>4, <2>5, MergedBackwards
<1> QED  BY <1>1, <1>2, <1>3, PTL DEF Spec

-----------------------------------------------------------------------------
(* The sitemaps within a distance of robots.txt. SitemapsWithin is a       *)
(* recursive function: that there is one with its equation is proved from  *)
(* its finite beginnings.                                                  *)

LEMMA Induction ==
  ASSUME NEW S, 0 \in S, \A n \in Nat : n \in S => n + 1 \in S
  PROVE  Nat \subseteq S
<1>1. SUFFICES ASSUME Nat \ S # {} PROVE FALSE  OBVIOUS
<1>2. PICK n \in Nat \ S : \A m \in Nat \ S : n <= m  BY <1>1, LeastNat
<1>3. n - 1 \in Nat /\ n - 1 \in S  BY <1>2
<1> QED  BY <1>2, <1>3

Beginnings(V, a, G, n) ==
  {g \in [0..n -> V] : g[0] = a /\ \A i \in 0..n : i + 1 \in 0..n => g[i + 1] = G[g[i]]}

LEMMA Iterates ==
  ASSUME NEW V, NEW a \in V, NEW G \in [V -> V]
  PROVE  \E f \in [Nat -> V] : f[0] = a /\ \A n \in Nat : f[n + 1] = G[f[n]]
<1> DEFINE Starts(n) == Beginnings(V, a, G, n)
           f == [n \in Nat |-> (CHOOSE g : g \in Starts(n))[n]]
<1>1. ASSUME NEW n \in Nat PROVE Starts(n) # {}
  <2> DEFINE S == {k \in Nat : Starts(k) # {}}
  <2>1. 0 \in S
    <3>1. [i \in 0..0 |-> a] \in Starts(0)  BY DEF Beginnings
    <3> QED  BY <3>1
  <2>2. ASSUME NEW k \in Nat, k \in S PROVE k + 1 \in S
    <3>1. PICK g : g \in Starts(k)  BY <2>2
    <3> DEFINE h == [i \in 0..(k + 1) |-> IF i = k + 1 THEN G[g[k]] ELSE g[i]]
    <3>2. h \in [0..(k + 1) -> V]  BY <3>1 DEF Beginnings
    <3>3. h[0] = a  BY <3>1 DEF Beginnings
    <3>4. ASSUME NEW i \in 0..(k + 1), i + 1 \in 0..(k + 1) PROVE h[i + 1] = G[h[i]]
      <4>1. CASE i = k  BY <4>1
      <4>2. CASE i # k
        <5>1. i \in 0..k /\ i + 1 \in 0..k  BY <3>4, <4>2
        <5> QED  BY <3>1, <5>1 DEF Beginnings
      <4> QED  BY <4>1, <4>2
    <3>5. h \in Starts(k + 1)
      <4> HIDE DEF h
      <4> QED  BY <3>2, <3>3, <3>4 DEF Beginnings
    <3> QED  BY <3>5
  <2> HIDE DEF S
  <2>3. Nat \subseteq S  BY <2>1, <2>2, Induction
  <2> QED  BY <2>3 DEF S
<1>2. ASSUME NEW n \in Nat, NEW m \in Nat, NEW g \in Starts(n), NEW h \in Starts(m), NEW i \in Nat, i <= n, i <= m
      PROVE  g[i] = h[i]
  <2> DEFINE S == {k \in Nat : k <= n /\ k <= m => g[k] = h[k]}
  <2>1. 0 \in S  BY <1>2 DEF Beginnings
  <2>2. ASSUME NEW k \in Nat, k \in S PROVE k + 1 \in S
    <3>1. SUFFICES ASSUME k + 1 <= n, k + 1 <= m PROVE g[k + 1] = h[k + 1]  OBVIOUS
    <3>2. k \in 0..n /\ k \in 0..m /\ k + 1 \in 0..n /\ k + 1 \in 0..m  BY <3>1
    <3>3. g[k] = h[k]  BY <2>2, <3>2
    <3>4. g[k + 1] = G[g[k]] /\ h[k + 1] = G[h[k]]  BY <3>2 DEF Beginnings
    <3> QED  BY <3>3, <3>4
  <2> HIDE DEF S
  <2>3. Nat \subseteq S  BY <2>1, <2>2, Induction
  <2> QED  BY <1>2, <2>3 DEF S
<1>3. \A n \in Nat : (CHOOSE g : g \in Starts(n)) \in Starts(n)  BY <1>1
<1> HIDE DEF Starts
<1>4. f \in [Nat -> V]
  <2>1. ASSUME NEW n \in Nat, NEW g \in Starts(n) PROVE g[n] \in V  BY DEF Starts, Beginnings
  <2> QED  BY <1>3, <2>1
<1>5. f[0] = a
  <2>1. \A g \in Starts(0) : g[0] = a  BY DEF Starts, Beginnings
  <2> QED  BY <1>3, <2>1
<1>6. ASSUME NEW n \in Nat PROVE f[n + 1] = G[f[n]]
  <2>1. PICK g : g = (CHOOSE x : x \in Starts(n))  OBVIOUS
  <2>2. PICK h : h = (CHOOSE x : x \in Starts(n + 1))  OBVIOUS
  <2>3. g \in Starts(n) /\ h \in Starts(n + 1)  BY <1>3, <2>1, <2>2
  <2>4. g[n] = h[n]  BY <1>2, <2>3
  <2>5. h[n + 1] = G[h[n]]  BY <2>3 DEF Starts, Beginnings
  <2>6. f[n] = g[n] /\ f[n + 1] = h[n + 1]  BY <2>1, <2>2
  <2> QED  BY <2>4, <2>5, <2>6
<1> QED  BY <1>4, <1>5, <1>6

\* The levels of a site.
Levels(s, W) ==
  /\ W \in [Nat -> SUBSET Urls]
  /\ W[0] = NamedSitemaps(s)
  /\ \A d \in Nat : W[d + 1] = W[d] \cup IndexedBy(s, W[d])

LEMMA IndexedTyped ==
  ASSUME SitesAreTyped, NEW s \in Sites
  PROVE  /\ NamedSitemaps(s) \subseteq Urls
         /\ \A sitemaps \in SUBSET Urls : IndexedBy(s, sitemaps) \subseteq Urls
<1>1. ASSUME NEW line \in ToSet(SitemapsOf(RobotsLines(s))) PROVE line.ref \in Refs
  BY DEF SitesAreTyped, ToSet
<1>2. ASSUME NEW u \in Urls, NEW ref \in ToSet(UsableRefs(s.sitemaps[u.page].refs)) PROVE ref \in Refs
  <2>1. s.sitemaps[u.page] \in DOMAIN Parsed  BY DEF SitesAreTyped, Urls, Parsed
  <2>2. UsableRefs(s.sitemaps[u.page].refs) \in Seq(Refs)  BY <2>1 DEF SitesAreTyped
  <2> QED  BY <2>2, ElementOfSeq, LenProperties DEF ToSet
<1>3. NamedSitemaps(s) \subseteq Urls  BY <1>1, RefsAndUrls DEF NamedSitemaps
<1>4. ASSUME NEW sitemaps \in SUBSET Urls PROVE IndexedBy(s, sitemaps) \subseteq Urls
  BY <1>2, RefsAndUrls DEF IndexedBy
<1> QED  BY <1>3, <1>4

LEMMA SiteLevels ==
  ASSUME SitesAreTyped, NEW s \in Sites
  PROVE  Levels(s, SitemapsWithin(s))
<1> DEFINE G == [sitemaps \in SUBSET Urls |-> sitemaps \cup IndexedBy(s, sitemaps)]
           Equation(W) == W = [d \in Nat |-> IF d = 0 THEN NamedSitemaps(s)
                                             ELSE W[d - 1] \cup IndexedBy(s, W[d - 1])]
<1>1. NamedSitemaps(s) \in SUBSET Urls /\ G \in [SUBSET Urls -> SUBSET Urls]  BY IndexedTyped
<1>2. PICK f \in [Nat -> SUBSET Urls] : f[0] = NamedSitemaps(s) /\ \A n \in Nat : f[n + 1] = G[f[n]]
  <2> HIDE DEF G
  <2>1. PICK V : V = SUBSET Urls  OBVIOUS
  <2>2. PICK a : a = NamedSitemaps(s)  OBVIOUS
  <2>3. a \in V /\ G \in [V -> V]  BY <1>1, <2>1, <2>2
  <2>4. \E f \in [Nat -> V] : f[0] = a /\ \A n \in Nat : f[n + 1] = G[f[n]]  BY <2>3, Iterates
  <2> QED  BY <2>1, <2>2, <2>4
<1>3. Equation(f)
  <2>1. ASSUME NEW d \in Nat, d # 0 PROVE f[d] = f[d - 1] \cup IndexedBy(s, f[d - 1])
    <3>1. d - 1 \in Nat /\ (d - 1) + 1 = d  BY <2>1
    <3> QED  BY <1>2, <3>1
  <2> QED  BY <1>2, <2>1
<1>4. SitemapsWithin(s) = CHOOSE W : Equation(W)  BY DEF SitemapsWithin
<1>5. Equation(SitemapsWithin(s))  BY <1>3, <1>4
<1>6. PICK W : W = SitemapsWithin(s)  OBVIOUS
<1>7. Equation(W)  BY <1>5, <1>6
<1>8. W[0] = NamedSitemaps(s)  BY <1>7
<1>9. ASSUME NEW d \in Nat PROVE W[d + 1] = W[d] \cup IndexedBy(s, W[d])
  <2>1. d + 1 \in Nat /\ d + 1 # 0 /\ (d + 1) - 1 = d  OBVIOUS
  <2>2. PICK e : e = d + 1  OBVIOUS
  <2>3. W[e] = W[e - 1] \cup IndexedBy(s, W[e - 1])  BY <1>7, <2>1, <2>2
  <2> QED  BY <2>1, <2>2, <2>3
<1>10. W \in [Nat -> SUBSET Urls]
  <2> DEFINE S == {d \in Nat : W[d] \in SUBSET Urls}
  <2>1. 0 \in S  BY <1>1, <1>8
  <2>2. \A n \in Nat : n \in S => n + 1 \in S  BY <1>9, IndexedTyped
  <2>3. Nat \subseteq S
    <3> HIDE DEF S
    <3> QED  BY <2>1, <2>2, Induction
  <2>4. W = [d \in Nat |-> W[d]]  BY <1>7
  <2> QED  BY <2>3, <2>4
<1> QED  BY <1>6, <1>8, <1>9, <1>10 DEF Levels

\* The levels grow.
LEMMA LevelsGrow ==
  ASSUME NEW s, NEW W, Levels(s, W), NEW d \in Nat, NEW e \in Nat, d <= e
  PROVE  W[d] \subseteq W[e]
<1> DEFINE S == {k \in Nat : W[d] \subseteq W[d + k]}
<1>1. 0 \in S  OBVIOUS
<1>2. ASSUME NEW k \in Nat, k \in S PROVE k + 1 \in S
  <2>1. W[(d + k) + 1] = W[d + k] \cup IndexedBy(s, W[d + k])  BY DEF Levels
  <2>2. (d + k) + 1 = d + (k + 1)  OBVIOUS
  <2> QED  BY <1>2, <2>1, <2>2
<1>3. Nat \subseteq S
  <2> HIDE DEF S
  <2> QED  BY <1>1, <1>2, Induction
<1>4. e - d \in Nat /\ d + (e - d) = e  OBVIOUS
<1> QED  BY <1>3, <1>4

\* What some sitemaps name, one of them names.
LEMMA IndexedByOne ==
  ASSUME NEW s, NEW sitemaps, NEW x \in IndexedBy(s, sitemaps)
  PROVE  \E u \in sitemaps : x \in IndexedBy(s, {u})
<1>1. PICK doc \in {s.sitemaps[u.page] : u \in sitemaps} :
        /\ doc.kind = "index" /\ ~Unreadable(doc)
        /\ \E ref \in ToSet(UsableRefs(doc.refs)) : x = NormalUrl(ref, TRUE)
  BY DEF IndexedBy
<1>2. PICK u \in sitemaps : doc = s.sitemaps[u.page]  OBVIOUS
<1>3. x \in IndexedBy(s, {u})  BY <1>1, <1>2 DEF IndexedBy
<1> QED  BY <1>3

LEMMA IndexedBySome ==
  ASSUME NEW s, NEW sitemaps, NEW u \in sitemaps
  PROVE  IndexedBy(s, {u}) \subseteq IndexedBy(s, sitemaps)
<1>1. {doc \in {s.sitemaps[v.page] : v \in {u}} : doc.kind = "index" /\ ~Unreadable(doc)}
        \subseteq {doc \in {s.sitemaps[v.page] : v \in sitemaps} : doc.kind = "index" /\ ~Unreadable(doc)}
  OBVIOUS
<1> QED  BY <1>1 DEF IndexedBy

-----------------------------------------------------------------------------
(* The search, breadth first: what it has visited, fetched and still has   *)
(* to read, against the levels W of the site.                              *)

\* File i leads to sitemap u.
LeadsTo(file, u) == Accepts(file.ref, FALSE) /\ NormalUrl(file.ref, TRUE) = u

\* The sitemap is visited, or waits behind at most d documents.
Known(files, visited, u, d) ==
  u \in visited \/ \E i \in 1..Len(files) : files[i].depth <= d /\ LeadsTo(files[i], u)

\* The queue spans two levels at most, the shallower first.
Ordered(files) ==
  \A i, j \in 1..Len(files) : i <= j =>
    files[i].depth <= files[j].depth /\ files[j].depth <= files[i].depth + 1

\* What waits is where it says, what an index named is known no deeper than that.
Tracked(s, W, files, visited, fetched) ==
  /\ \A i \in 1..Len(files), u \in Urls : LeadsTo(files[i], u) => u \in W[files[i].depth]
  /\ \A u \in W[0] : Known(files, visited, u, 0)
  /\ \A u \in ToSet(fetched), d \in Nat :
       u \in W[d] => \A x \in IndexedBy(s, {u}) : Known(files, visited, x, d + 1)

\* Within the permitted depth, visited means fetched; the shallowest were fetched first.
Shallowest(W, files, visited, fetched) ==
  /\ ToSet(fetched) \subseteq visited
  /\ visited \cap W[MaxSitemapDepth] \subseteq ToSet(fetched)
  /\ ToSet(fetched) \subseteq W[MaxSitemapDepth]
  /\ \A i \in 1..Len(files) : ToSet(fetched) \subseteq W[files[i].depth]
  /\ \A i, j \in 1..Len(fetched) : i < j =>
       /\ fetched[i] # fetched[j]
       /\ \A d \in 0..MaxSitemapDepth : fetched[j] \in W[d] => fetched[i] \in W[d]

Searched(s, W, files, visited, fetched) ==
  /\ files \in Seq(SitemapFiles) /\ visited \in SUBSET Urls /\ fetched \in Seq(Urls)
  /\ Len(fetched) <= MaxSitemapFiles
  /\ Ordered(files)
  /\ Tracked(s, W, files, visited, fetched)
  /\ Shallowest(W, files, visited, fetched)

\* When only deeper files wait, a level is visited.
LEMMA Frontier ==
  ASSUME NEW s, NEW W, Levels(s, W), NEW files, NEW visited, NEW fetched,
         Searched(s, W, files, visited, fetched),
         NEW d \in 0..MaxSitemapDepth, \A i \in 1..Len(files) : files[i].depth > d
  PROVE  W[d] \subseteq visited
<1>0. MaxSitemapDepth \in Nat  BY DiscoveryAssumption
<1>1. \A i \in 1..Len(files) : files[i].depth \in Nat
  <2>1. files \in Seq(SitemapFiles)  BY DEF Searched
  <2>2. \A i \in 1..Len(files) : files[i] \in SitemapFiles  BY <2>1, ElementOfSeq
  <2> QED  BY <2>2 DEF SitemapFiles
<1> DEFINE S == {k \in Nat : k <= d => W[k] \subseteq visited}
<1>2. 0 \in S
  <2>1. ASSUME NEW u \in W[0] PROVE u \in visited
    <3>1. Known(files, visited, u, 0)  BY DEF Searched, Tracked
    <3> QED  BY <1>0, <1>1, <3>1 DEF Known
  <2> QED  BY <2>1
<1>3. ASSUME NEW k \in Nat, k \in S PROVE k + 1 \in S
  <2>1. SUFFICES ASSUME k + 1 <= d, NEW x \in W[k + 1] PROVE x \in visited  OBVIOUS
  <2>2. W[k] \subseteq visited  BY <1>0, <1>3, <2>1
  <2>3. CASE x \in W[k]  BY <2>2, <2>3
  <2>4. CASE x \in IndexedBy(s, W[k])
    <3>1. PICK u \in W[k] : x \in IndexedBy(s, {u})  BY <2>4, IndexedByOne
    <3>2. k <= MaxSitemapDepth  BY <1>0, <2>1
    <3>3. u \in W[MaxSitemapDepth]  BY <1>0, <3>2, LevelsGrow
    <3>4. u \in ToSet(fetched)  BY <2>2, <3>3 DEF Searched, Shallowest
    <3>5. Known(files, visited, x, k + 1)  BY <3>1, <3>4 DEF Searched, Tracked
    <3> QED  BY <1>0, <1>1, <2>1, <3>5 DEF Known
  <2> QED  BY <2>1, <2>3, <2>4 DEF Levels
<1>4. Nat \subseteq S
  <2> HIDE DEF S
  <2> QED  BY <1>2, <1>3, Induction
<1> QED  BY <1>0, <1>4

LEMMA QueueTail ==
  ASSUME NEW files \in Seq(SitemapFiles), files # <<>>
  PROVE  /\ Tail(files) \in Seq(SitemapFiles) /\ Head(files) = files[1]
         /\ Len(files) \in Nat \ {0} /\ Len(Tail(files)) = Len(files) - 1
         /\ \A i \in 1..(Len(files) - 1) : Tail(files)[i] = files[i + 1]
         /\ \A i \in 1..Len(files) : files[i] \in SitemapFiles /\ files[i].depth \in Nat
<1>1. Len(files) \in Nat /\ Len(files) # 0  BY EmptySeq, LenProperties
<1>2. \A i \in 1..Len(files) : files[i] \in SitemapFiles /\ files[i].depth \in Nat
  <2>1. \A i \in 1..Len(files) : files[i] \in SitemapFiles  BY ElementOfSeq
  <2> QED  BY <2>1 DEF SitemapFiles
<1>3. Tail(files) \in Seq(SitemapFiles) /\ Head(files) = files[1] /\ Len(Tail(files)) = Len(files) - 1
  BY HeadTailProperties
<1>4. \A i \in 1..(Len(files) - 1) : Tail(files)[i] = files[i + 1]
  BY <1>1, <1>3, HeadTailProperties
<1> QED  BY <1>1, <1>2, <1>3, <1>4

\* What is known stays known when the head of the queue has become visited.
LEMMA StillKnown ==
  ASSUME NEW files \in Seq(SitemapFiles), files # <<>>, NEW visited, NEW more, visited \subseteq more,
         \A v \in Urls : LeadsTo(Head(files), v) => v \in more,
         NEW u \in Urls, NEW d \in Nat, Known(files, visited, u, d)
  PROVE  Known(Tail(files), more, u, d)
<1>1. CASE u \in visited  BY <1>1 DEF Known
<1>2. ASSUME NEW i \in 1..Len(files), files[i].depth <= d, LeadsTo(files[i], u)
      PROVE  Known(Tail(files), more, u, d)
  <2>1. CASE i = 1  BY <1>2, <2>1, QueueTail DEF Known
  <2>2. CASE i # 1
    <3>1. i - 1 \in 1..(Len(files) - 1) /\ (i - 1) + 1 = i  BY <2>2, QueueTail
    <3>2. Tail(files)[i - 1] = files[i] /\ i - 1 \in 1..Len(Tail(files))  BY <3>1, QueueTail
    <3> QED  BY <1>2, <3>2 DEF Known
  <2> QED  BY <2>1, <2>2
<1> QED  BY <1>1, <1>2 DEF Known

\* A turn that fetches nothing.
LEMMA PoppedSearch ==
  ASSUME NEW s, NEW W, Levels(s, W), NEW files, NEW visited, NEW fetched,
         Searched(s, W, files, visited, fetched), files # <<>>,
         NEW more \in SUBSET Urls, visited \subseteq more,
         \A v \in Urls : LeadsTo(Head(files), v) => v \in more,
         more \cap W[MaxSitemapDepth] \subseteq ToSet(fetched),
         \A u \in Urls : IndexedBy(s, {u}) \subseteq Urls
  PROVE  Searched(s, W, Tail(files), more, fetched)
<1> DEFINE rest == Tail(files)
<1>0. files \in Seq(SitemapFiles) /\ fetched \in Seq(Urls)  BY DEF Searched
<1>1. /\ rest \in Seq(SitemapFiles) /\ Len(files) \in Nat /\ Len(rest) = Len(files) - 1
      /\ \A i \in 1..Len(rest) : i + 1 \in 1..Len(files) /\ rest[i] = files[i + 1]
      /\ \A i \in 1..Len(files) : files[i].depth \in Nat
  BY <1>0, QueueTail
<1> HIDE DEF rest
<1>2. Ordered(rest)
  <2>1. SUFFICES ASSUME NEW i \in 1..Len(rest), NEW j \in 1..Len(rest), i <= j
                 PROVE  rest[i].depth <= rest[j].depth /\ rest[j].depth <= rest[i].depth + 1
    BY DEF Ordered
  <2>2. i + 1 <= j + 1 /\ i + 1 \in 1..Len(files) /\ j + 1 \in 1..Len(files)  BY <1>1, <2>1
  <2>3. files[i + 1].depth <= files[j + 1].depth /\ files[j + 1].depth <= files[i + 1].depth + 1
    BY <2>2 DEF Searched, Ordered
  <2> QED  BY <1>1, <2>3
<1>3. \A u \in Urls, d \in Nat : Known(files, visited, u, d) => Known(rest, more, u, d)
  BY <1>0, StillKnown DEF rest
<1>4. Tracked(s, W, rest, more, fetched)
  <2>1. \A i \in 1..Len(rest), u \in Urls : LeadsTo(rest[i], u) => u \in W[rest[i].depth]
    BY <1>1 DEF Searched, Tracked
  <2>2. \A u \in W[0] : Known(rest, more, u, 0)
    BY <1>3 DEF Searched, Tracked, Levels
  <2>3. \A u \in ToSet(fetched), d \in Nat :
          u \in W[d] => \A x \in IndexedBy(s, {u}) : Known(rest, more, x, d + 1)
    <3>1. SUFFICES ASSUME NEW u \in ToSet(fetched), NEW d \in Nat, u \in W[d], NEW x \in IndexedBy(s, {u})
                   PROVE  Known(rest, more, x, d + 1)
      OBVIOUS
    <3>2. u \in Urls /\ x \in Urls  BY <3>1 DEF Levels
    <3>3. Known(files, visited, x, d + 1)  BY <3>1 DEF Searched, Tracked
    <3> QED  BY <1>3, <3>2, <3>3
  <2> QED  BY <2>1, <2>2, <2>3 DEF Tracked
<1>5. Shallowest(W, rest, more, fetched)
  <2>1. \A i \in 1..Len(rest) : ToSet(fetched) \subseteq W[rest[i].depth]
    BY <1>1 DEF Searched, Shallowest
  <2> QED  BY <2>1 DEF Searched, Shallowest
<1> QED  BY <1>0, <1>1, <1>2, <1>4, <1>5 DEF Searched, rest

\* A turn that fetches the sitemap at the head and queues what it names.
LEMMA FetchedSearch ==
  ASSUME NEW s, NEW W, Levels(s, W), NEW files, NEW visited, NEW fetched,
         Searched(s, W, files, visited, fetched), files # <<>>, Len(fetched) < MaxSitemapFiles,
         \A u \in Urls : IndexedBy(s, {u}) \subseteq Urls,
         NEW url \in Urls, LeadsTo(Head(files), url), url \notin visited,
         Head(files).depth <= MaxSitemapDepth,
         NEW nested \in Seq(SitemapFiles),
         \A i \in 1..Len(nested) : nested[i].depth = Head(files).depth + 1,
         \A i \in 1..Len(nested), x \in Urls : LeadsTo(nested[i], x) => x \in IndexedBy(s, {url}),
         \A x \in IndexedBy(s, {url}) : \E i \in 1..Len(nested) : LeadsTo(nested[i], x)
  PROVE  Searched(s, W, Tail(files) \o nested, visited \cup {url}, Append(fetched, url))
<1> DEFINE D == Head(files).depth
           new == Tail(files) \o nested
           more == visited \cup {url}
           got == Append(fetched, url)
           n == Len(files) - 1
<1>0. files \in Seq(SitemapFiles) /\ fetched \in Seq(Urls) /\ visited \in SUBSET Urls
      /\ MaxSitemapDepth \in Nat /\ MaxSitemapFiles \in Nat
  BY DiscoveryAssumption DEF Searched
<1>1. /\ n \in Nat /\ Len(files) = n + 1 /\ Head(files) = files[1]
      /\ \A i \in 1..Len(files) : files[i].depth \in Nat
      /\ Tail(files) \in Seq(SitemapFiles) /\ Len(Tail(files)) = n
      /\ \A i \in 1..n : Tail(files)[i] = files[i + 1]
      /\ D \in Nat /\ D = files[1].depth
  BY <1>0, QueueTail
<1>2. /\ new \in Seq(SitemapFiles) /\ Len(nested) \in Nat /\ Len(new) = n + Len(nested)
      /\ \A i \in 1..Len(new) : new[i] = IF i <= n THEN Tail(files)[i] ELSE nested[i - n]
  <2>1. Len(nested) \in Nat  BY LenProperties
  <2>2. PICK rest \in Seq(SitemapFiles) : rest = Tail(files)  BY <1>1
  <2>3. Len(rest) = n  BY <1>1, <2>2
  <2>4. rest \o nested \in Seq(SitemapFiles) /\ Len(rest \o nested) = Len(rest) + Len(nested)
        /\ \A i \in 1..(Len(rest) + Len(nested)) :
             (rest \o nested)[i] = IF i <= Len(rest) THEN rest[i] ELSE nested[i - Len(rest)]
    BY ConcatProperties
  <2> QED  BY <2>1, <2>2, <2>3, <2>4
<1>3. /\ \A i \in 1..n : i \in 1..Len(new) /\ i + 1 \in 1..Len(files) /\ new[i] = files[i + 1]
      /\ \A i \in 1..Len(nested) : n + i \in 1..Len(new) /\ new[n + i] = nested[i]
      /\ \A i \in 1..Len(new) : i \in 1..n \/ i - n \in 1..Len(nested)
  BY <1>1, <1>2
<1>4. \A i \in 1..Len(files) : D <= files[i].depth /\ files[i].depth <= D + 1
  BY <1>1 DEF Searched, Ordered
<1>5. /\ got \in Seq(Urls) /\ Len(fetched) \in Nat /\ Len(got) = Len(fetched) + 1
      /\ \A i \in 1..Len(fetched) : got[i] = fetched[i] /\ fetched[i] \in Urls
      /\ got[Len(fetched) + 1] = url
  BY <1>0, AppendProperties, LenProperties, ElementOfSeq
<1>6. ToSet(got) = ToSet(fetched) \cup {url}
  <2>1. DOMAIN got = 1..(Len(fetched) + 1) /\ DOMAIN fetched = 1..Len(fetched)
    BY <1>0, <1>5, LenProperties
  <2>2. \A i \in 1..(Len(fetched) + 1) : i \in 1..Len(fetched) \/ i = Len(fetched) + 1  BY <1>5
  <2>3. 1..Len(fetched) \subseteq 1..(Len(fetched) + 1) /\ Len(fetched) + 1 \in 1..(Len(fetched) + 1)  BY <1>5
  <2> HIDE DEF got
  <2>4. \A x \in ToSet(got) : x \in ToSet(fetched) \cup {url}  BY <1>5, <2>1, <2>2 DEF ToSet
  <2>5. \A x \in ToSet(fetched) \cup {url} : x \in ToSet(got)  BY <1>5, <2>1, <2>3 DEF ToSet
  <2> QED  BY <2>4, <2>5
<1>7. url \in W[D]  BY <1>1 DEF Searched, Tracked
<1>8. \A d \in Nat : url \in W[d] => D <= d
  <2>1. SUFFICES ASSUME NEW d \in Nat, url \in W[d], d < D PROVE FALSE  BY <1>1
  <2>2. d \in 0..MaxSitemapDepth  BY <1>0, <1>1, <2>1
  <2>3. \A i \in 1..Len(files) : files[i].depth > d  BY <1>1, <1>4, <2>1
  <2>4. W[d] \subseteq visited  BY <2>2, <2>3, Frontier
  <2> QED  BY <2>1, <2>4
<1>9. ToSet(fetched) \subseteq W[D]  BY <1>1 DEF Searched, Shallowest
<1>10. W[D] \subseteq W[D + 1] /\ W[D] \subseteq W[MaxSitemapDepth]
       /\ IndexedBy(s, {url}) \subseteq W[D + 1]
  <2>1. W[D] \subseteq W[D + 1] /\ W[D] \subseteq W[MaxSitemapDepth]
    BY <1>0, <1>1, LevelsGrow
  <2>2. IndexedBy(s, {url}) \subseteq IndexedBy(s, W[D])
    BY <1>7, IndexedBySome
  <2> QED  BY <1>1, <2>1, <2>2 DEF Levels
<1>11. \A u \in Urls : LeadsTo(Head(files), u) => u = url  BY DEF LeadsTo
<1>12. \A u \in Urls, d \in Nat : Known(files, visited, u, d) => Known(new, more, u, d)
  <2>1. SUFFICES ASSUME NEW u \in Urls, NEW d \in Nat, Known(files, visited, u, d)
                 PROVE  Known(new, more, u, d)
    OBVIOUS
  <2>2. Known(Tail(files), more, u, d)  BY <1>0, <1>11, <2>1, StillKnown
  <2>3. \A i \in 1..n : new[i] = Tail(files)[i]  BY <1>1, <1>3
  <2> HIDE DEF new, more, n
  <2> QED  BY <1>1, <1>3, <2>2, <2>3 DEF Known
<1> HIDE DEF new, more, got, n, D
<1>13. Ordered(new)
  <2>1. SUFFICES ASSUME NEW i \in 1..Len(new), NEW j \in 1..Len(new), i <= j
                 PROVE  new[i].depth <= new[j].depth /\ new[j].depth <= new[i].depth + 1
    BY DEF Ordered
  <2>2. CASE i \in 1..n /\ j \in 1..n
    <3>1. i + 1 <= j + 1 /\ i + 1 \in 1..Len(files) /\ j + 1 \in 1..Len(files)  BY <1>3, <2>1, <2>2
    <3>2. files[i + 1].depth <= files[j + 1].depth /\ files[j + 1].depth <= files[i + 1].depth + 1
      BY <3>1 DEF Searched, Ordered
    <3> QED  BY <1>3, <2>2, <3>2
  <2>3. CASE i \in 1..n /\ j - n \in 1..Len(nested)
    <3>1. new[i] = files[i + 1] /\ D <= files[i + 1].depth /\ files[i + 1].depth <= D + 1
          /\ files[i + 1].depth \in Nat
      BY <1>1, <1>3, <1>4, <2>3
    <3>2. new[j] = nested[j - n]  BY <1>1, <1>3, <2>3
    <3>3. new[j].depth = D + 1  BY <2>3, <3>2 DEF D
    <3> QED  BY <1>1, <3>1, <3>3
  <2>4. CASE i - n \in 1..Len(nested) /\ j - n \in 1..Len(nested)
    <3>1. new[i] = nested[i - n] /\ new[j] = nested[j - n]  BY <1>1, <1>3, <2>4
    <3>2. new[i].depth = D + 1 /\ new[j].depth = D + 1  BY <2>4, <3>1 DEF D
    <3> QED  BY <1>1, <3>2
  <2>5. ~(i - n \in 1..Len(nested) /\ j \in 1..n)  BY <1>1, <1>2, <2>1
  <2> QED  BY <1>3, <2>2, <2>3, <2>4, <2>5
<1>14. Tracked(s, W, new, more, got)
  <2>1. ASSUME NEW i \in 1..Len(new), NEW u \in Urls, LeadsTo(new[i], u)
        PROVE  u \in W[new[i].depth]
    <3>1. CASE i \in 1..n  BY <1>3, <2>1, <3>1 DEF Searched, Tracked
    <3>2. CASE i - n \in 1..Len(nested)
      <4>1. new[i] = nested[i - n]  BY <1>1, <1>3, <2>1, <3>2
      <4>2. u \in IndexedBy(s, {url}) /\ new[i].depth = D + 1  BY <2>1, <3>2, <4>1 DEF D
      <4> QED  BY <1>10, <4>2
    <3> QED  BY <1>3, <3>1, <3>2
  <2>2. \A u \in W[0] : Known(new, more, u, 0)
    BY <1>12 DEF Searched, Tracked, Levels
  <2>3. ASSUME NEW u \in ToSet(got), NEW d \in Nat, u \in W[d], NEW x \in IndexedBy(s, {u})
        PROVE  Known(new, more, x, d + 1)
    <3>1. u \in Urls /\ x \in Urls  BY <2>3 DEF Levels
    <3>2. CASE u \in ToSet(fetched)
      <4>1. Known(files, visited, x, d + 1)  BY <2>3, <3>2 DEF Searched, Tracked
      <4> QED  BY <1>12, <3>1, <4>1
    <3>3. CASE u = url
      <4>1. PICK i \in 1..Len(nested) : LeadsTo(nested[i], x)  BY <2>3, <3>3
      <4>2. n + i \in 1..Len(new) /\ new[n + i] = nested[i]  BY <1>3
      <4>3. nested[i].depth = D + 1 /\ D <= d  BY <1>8, <2>3, <3>3 DEF D
      <4>4. new[n + i].depth <= d + 1 /\ LeadsTo(new[n + i], x)  BY <1>1, <4>1, <4>2, <4>3
      <4> QED  BY <4>2, <4>4 DEF Known
    <3> QED  BY <1>6, <2>3, <3>2, <3>3
  <2> QED  BY <2>1, <2>2, <2>3 DEF Tracked
<1>15. Shallowest(W, new, more, got)
  <2>1. ToSet(got) \subseteq more /\ more \cap W[MaxSitemapDepth] \subseteq ToSet(got)
        /\ ToSet(got) \subseteq W[MaxSitemapDepth]
    BY <1>6, <1>7, <1>10 DEF Searched, Shallowest, more
  <2>2. ASSUME NEW i \in 1..Len(new) PROVE ToSet(got) \subseteq W[new[i].depth]
    <3>1. CASE i \in 1..n
      <4>1. i + 1 \in 1..Len(files) /\ new[i] = files[i + 1]  BY <1>3, <3>1
      <4>2. ToSet(fetched) \subseteq W[files[i + 1].depth]  BY <4>1 DEF Searched, Shallowest
      <4>3. W[D] \subseteq W[files[i + 1].depth]  BY <1>1, <1>4, <4>1, LevelsGrow
      <4> QED  BY <1>6, <1>7, <4>1, <4>2, <4>3
    <3>2. CASE i - n \in 1..Len(nested)
      <4>1. new[i] = nested[i - n]  BY <1>1, <1>3, <3>2
      <4>2. new[i].depth = D + 1  BY <3>2, <4>1 DEF D
      <4> QED  BY <1>6, <1>7, <1>9, <1>10, <4>2
    <3> QED  BY <1>3, <3>1, <3>2
  <2>3. ASSUME NEW i \in 1..Len(got), NEW j \in 1..Len(got), i < j
        PROVE  /\ got[i] # got[j]
               /\ \A d \in 0..MaxSitemapDepth : got[j] \in W[d] => got[i] \in W[d]
    <3>1. i \in 1..Len(fetched) /\ got[i] = fetched[i]  BY <1>5, <2>3
    <3>2. CASE j \in 1..Len(fetched)  BY <1>5, <2>3, <3>1, <3>2 DEF Searched, Shallowest
    <3>3. CASE j = Len(fetched) + 1
      <4>1. fetched[i] \in ToSet(fetched)  BY <1>0, <3>1, LenProperties DEF ToSet
      <4>2. fetched[i] \in visited  BY <4>1 DEF Searched, Shallowest
      <4>3. got[j] = url  BY <1>5, <3>3
      <4>4. ASSUME NEW d \in 0..MaxSitemapDepth, url \in W[d] PROVE fetched[i] \in W[d]
        <5>1. W[D] \subseteq W[d]  BY <1>0, <1>1, <1>8, <4>4, LevelsGrow
        <5> QED  BY <1>9, <4>1, <5>1
      <4> QED  BY <3>1, <4>2, <4>3, <4>4
    <3> QED  BY <1>5, <3>2, <3>3
  <2> QED  BY <2>1, <2>2, <2>3 DEF Shallowest
<1>16. more \in SUBSET Urls  BY <1>0 DEF more
<1>17. Len(got) <= MaxSitemapFiles  BY <1>0, <1>5
<1>18. Searched(s, W, new, more, got)
  BY <1>2, <1>5, <1>13, <1>14, <1>15, <1>16, <1>17 DEF Searched
<1> QED  BY <1>18 DEF new, more, got

\* The files a fetched document pushes.
Pushed(s, url, file) ==
  LET doc == s.sitemaps[url.page] IN
  IF doc.kind = "unfetchable" \/ ~Parsed[doc].readable THEN <<>> ELSE NestedFiles(Parsed[doc], file)

\* They lead to the sitemaps it names, one document further.
LEMMA PushedFiles ==
  ASSUME SitesAreTyped, NEW s \in Sites, NEW url \in Urls, NEW file \in SitemapFiles
  PROVE  /\ Pushed(s, url, file) \in Seq(SitemapFiles)
         /\ \A i \in 1..Len(Pushed(s, url, file)) : Pushed(s, url, file)[i].depth = file.depth + 1
         /\ \A i \in 1..Len(Pushed(s, url, file)), x \in Urls :
              LeadsTo(Pushed(s, url, file)[i], x) => x \in IndexedBy(s, {url})
         /\ \A x \in IndexedBy(s, {url}) :
              \E i \in 1..Len(Pushed(s, url, file)) : LeadsTo(Pushed(s, url, file)[i], x)
<1>0. SUFFICES ASSUME NEW nested, nested = Pushed(s, url, file)
               PROVE  /\ nested \in Seq(SitemapFiles)
                      /\ \A i \in 1..Len(nested) : nested[i].depth = file.depth + 1
                      /\ \A i \in 1..Len(nested), x \in Urls :
                           LeadsTo(nested[i], x) => x \in IndexedBy(s, {url})
                      /\ \A x \in IndexedBy(s, {url}) : \E i \in 1..Len(nested) : LeadsTo(nested[i], x)
  OBVIOUS
<1>1. PICK doc : doc = s.sitemaps[url.page]  OBVIOUS
<1>2. doc \in DOMAIN Parsed  BY <1>1 DEF SitesAreTyped, Urls, Parsed
<1>3. PICK usable : usable = UsableRefs(doc.refs)  OBVIOUS
<1>4. usable \in Seq(Refs) /\ DOMAIN usable = 1..Len(usable) /\ Len(usable) \in Nat
      /\ \A i \in 1..Len(usable) : usable[i] \in Refs
  BY <1>2, <1>3, LenProperties, ElementOfSeq DEF SitesAreTyped
<1>5. /\ Parsed[doc].nested = IF doc.kind = "index" THEN usable ELSE <<>>
      /\ Parsed[doc].readable = ~Unreadable(doc)
  <2>1. Parsed[doc] = ParseSitemapDocument(doc)  BY <1>2 DEF Parsed
  <2> QED  BY <1>3, <2>1 DEF ParseSitemapDocument
<1>6. CASE doc.kind = "index" /\ ~Unreadable(doc)
  <2>1. nested = [i \in 1..Len(usable) |->
                    SitemapFile(AbsoluteRef(NormalUrl(usable[i], TRUE)), file.depth + 1, TRUE)]
    BY <1>0, <1>1, <1>4, <1>5, <1>6 DEF Pushed, NestedFiles
  <2>2. nested \in Seq(SitemapFiles)
    BY <1>0, <1>1, <1>2, <1>4, <1>5, <1>6, NestedTyped DEF Pushed
  <2>3. Len(nested) = Len(usable)
    <3>1. DOMAIN nested = 1..Len(usable)  BY <2>1
    <3>2. DOMAIN nested = 1..Len(nested) /\ Len(nested) \in Nat  BY <2>2, LenProperties
    <3> QED  BY <1>4, <3>1, <3>2
  <2>4. ASSUME NEW i \in 1..Len(usable)
        PROVE  /\ nested[i].depth = file.depth + 1
               /\ \A x : LeadsTo(nested[i], x) <=> x = NormalUrl(usable[i], TRUE)
    <3>1. nested[i] = SitemapFile(AbsoluteRef(NormalUrl(usable[i], TRUE)), file.depth + 1, TRUE)
      BY <2>1
    <3>2. PICK v : v = NormalUrl(usable[i], TRUE)  OBVIOUS
    <3>3. usable[i] \in Refs  BY <1>4
    <3>4. v \in Urls /\ v.bare = FALSE  BY <3>2, <3>3, RefsAndUrls DEF NormalUrl
    <3>5. NormalUrl(AbsoluteRef(v), TRUE) = v /\ Accepts(AbsoluteRef(v), FALSE)  BY <3>4, NormalizedAgain
    <3>6. nested[i].ref = AbsoluteRef(v) /\ nested[i].depth = file.depth + 1
      <4>1. nested[i] = SitemapFile(AbsoluteRef(v), file.depth + 1, TRUE)  BY <3>1, <3>2
      <4> QED  BY <4>1 DEF SitemapFile
    <3> QED  BY <3>2, <3>5, <3>6 DEF LeadsTo
  <2>5. IndexedBy(s, {url}) = {NormalUrl(ref, TRUE) : ref \in ToSet(usable)}
    <3>1. {d \in {s.sitemaps[u.page] : u \in {url}} : d.kind = "index" /\ ~Unreadable(d)} = {doc}
      BY <1>1, <1>6
    <3> QED  BY <1>3, <3>1 DEF IndexedBy
  <2>6. ToSet(usable) = {usable[i] : i \in 1..Len(usable)}  BY <1>4 DEF ToSet
  <2>7. PICK m : m = Len(usable)  OBVIOUS
  <2>8. \A i \in 1..m : nested[i].depth = file.depth + 1  BY <2>4, <2>7
  <2>9. ASSUME NEW i \in 1..m, NEW x, LeadsTo(nested[i], x) PROVE x \in IndexedBy(s, {url})
    <3>1. x = NormalUrl(usable[i], TRUE)  BY <2>4, <2>7, <2>9
    <3>2. usable[i] \in ToSet(usable)  BY <2>6, <2>7
    <3> QED  BY <2>5, <3>1, <3>2
  <2>10. ASSUME NEW x \in IndexedBy(s, {url}) PROVE \E i \in 1..m : LeadsTo(nested[i], x)
    <3>1. PICK i \in 1..m : x = NormalUrl(usable[i], TRUE)  BY <2>5, <2>6, <2>7
    <3> QED  BY <2>4, <2>7, <3>1
  <2> QED  BY <2>2, <2>3, <2>7, <2>8, <2>9, <2>10
<1>7. CASE ~(doc.kind = "index" /\ ~Unreadable(doc))
  <2>1. nested = <<>>
    <3>1. doc.kind # "index" => NestedFiles(Parsed[doc], file) = <<>>
      BY <1>5 DEF NestedFiles
    <3> QED  BY <1>0, <1>1, <1>5, <1>7, <3>1 DEF Pushed
  <2>2. IndexedBy(s, {url}) = {}
    <3>1. {d \in {s.sitemaps[u.page] : u \in {url}} : d.kind = "index" /\ ~Unreadable(d)} = {}
      BY <1>1, <1>7
    <3> QED  BY <3>1 DEF IndexedBy
  <2>3. nested \in Seq(SitemapFiles)
    <3>1. <<>> \in Seq(SitemapFiles)  BY EmptySeq
    <3> QED  BY <2>1, <3>1
  <2>4. Len(nested) = 0  BY <2>1
  <2>5. 1..Len(nested) = {}  BY <2>4
  <2> QED  BY <2>2, <2>3, <2>5
<1> QED  BY <1>6, <1>7

\* Each turn of the loop keeps what is known of the search.
LEMMA SearchTurned ==
  ASSUME SitesAreTyped, Shape, TypedWork, NEW r \in Runs, NextSitemap(r), pc'[r] = "sitemaps",
         NEW W, Levels(site, W),
         Searched(site, W, work[r].files, work[r].visited, work[r].fetched)
  PROVE  Searched(site, W, work'[r].files, work'[r].visited, work'[r].fetched)
<1> DEFINE w == work[r]
           file == Head(w.files)
           url == NormalUrl(file.ref, TRUE)
<1>1. w \in WorkSet /\ w.files # <<>> /\ w.files \in Seq(SitemapFiles) /\ site \in Sites
      /\ Len(w.fetched) < MaxSitemapFiles /\ pc[r] = "sitemaps"
  BY DEF TypedWork, NextSitemap, SearchGoesOn, WorkSet, Shape
<1>2. file \in SitemapFiles  BY <1>1, HeadTailProperties
<1>3. url \in Urls  BY <1>2, RefsAndUrls DEF SitemapFiles
<1>4. \A u \in Urls : IndexedBy(site, {u}) \subseteq Urls  BY <1>1, IndexedTyped
<1>5. \A v \in Urls : LeadsTo(file, v) => v = url /\ Accepts(file.ref, FALSE)  BY DEF LeadsTo
<1>6. MaxSitemapDepth \in Nat  BY DiscoveryAssumption
<1>7. \/ Rejects(file.ref, FALSE) /\ work'[r] = Warned(Skipped(w), 1)
      \/ url \in w.visited /\ work'[r] = Skipped(w)
      \/ url \notin w.visited /\ TooDeep(file) /\ work'[r] = Warned(Visited(w, url), 1)
      \/ /\ Accepts(file.ref, FALSE) /\ url \notin w.visited /\ ~TooDeep(file)
         /\ work'[r] = ReadSitemap(Visited(w, url), file, url)
  <2>1. pc'[r] # "dead"  OBVIOUS
  <2> HIDE DEF file, url
  <2>2. ~ pc' = [pc EXCEPT ![r] = "dead"]  BY <2>1 DEF Shape
  <2> QED  BY <2>2, SearchTurn DEF file, url
<1> HIDE DEF file, url
<1>8. CASE \/ Rejects(file.ref, FALSE) /\ work'[r] = Warned(Skipped(w), 1)
           \/ url \in w.visited /\ work'[r] = Skipped(w)
  <2>1. work'[r].files = Tail(w.files) /\ work'[r].visited = w.visited /\ work'[r].fetched = w.fetched
    BY <1>1, <1>8 DEF Warned, Skipped, WorkSet
  <2>2. \A v \in Urls : LeadsTo(file, v) => v \in w.visited  BY <1>5, <1>8 DEF Accepts
  <2>3. w.visited \cap W[MaxSitemapDepth] \subseteq ToSet(w.fetched) /\ w.visited \in SUBSET Urls
    BY DEF Searched, Shallowest
  <2>4. Searched(site, W, Tail(w.files), w.visited, w.fetched)
    BY <1>1, <1>4, <2>2, <2>3, PoppedSearch DEF file
  <2> QED  BY <2>1, <2>4
<1>9. CASE url \notin w.visited /\ TooDeep(file) /\ work'[r] = Warned(Visited(w, url), 1)
  <2>1. /\ work'[r].files = Tail(w.files) /\ work'[r].visited = w.visited \cup {url}
        /\ work'[r].fetched = w.fetched
    BY <1>1, <1>9 DEF Warned, Visited, WorkSet
  <2>2. \A i \in 1..Len(w.files) : w.files[i].depth > MaxSitemapDepth
    <3>1. file = w.files[1] /\ \A i \in 1..Len(w.files) : w.files[i].depth \in Nat
      BY <1>1, QueueTail DEF file
    <3>2. \A i \in 1..Len(w.files) : w.files[1].depth <= w.files[i].depth
      <4>1. Len(w.files) \in Nat \ {0}  BY <1>1, QueueTail
      <4> QED  BY <4>1 DEF Searched, Ordered
    <3> QED  BY <1>1, <1>6, <1>9, <3>1, <3>2, QueueTail DEF TooDeep
  <2>3. W[MaxSitemapDepth] \subseteq w.visited  BY <1>6, <2>2, Frontier
  <2>4. (w.visited \cup {url}) \cap W[MaxSitemapDepth] \subseteq ToSet(w.fetched)
    BY <1>9, <2>3 DEF Searched, Shallowest
  <2>5. w.visited \cup {url} \in SUBSET Urls  BY <1>3 DEF Searched
  <2>6. Searched(site, W, Tail(w.files), w.visited \cup {url}, w.fetched)
    BY <1>1, <1>4, <1>5, <2>4, <2>5, PoppedSearch DEF file
  <2> QED  BY <2>1, <2>6
<1>10. CASE /\ Accepts(file.ref, FALSE) /\ url \notin w.visited /\ ~TooDeep(file)
            /\ work'[r] = ReadSitemap(Visited(w, url), file, url)
  <2>1. PICK doc : doc = site.sitemaps[url.page]  OBVIOUS
  <2>2. PICK nested : nested = Pushed(site, url, file)  OBVIOUS
  <2>3. /\ nested \in Seq(SitemapFiles)
        /\ \A i \in 1..Len(nested) : nested[i].depth = file.depth + 1
        /\ \A i \in 1..Len(nested), x \in Urls : LeadsTo(nested[i], x) => x \in IndexedBy(site, {url})
        /\ \A x \in IndexedBy(site, {url}) : \E i \in 1..Len(nested) : LeadsTo(nested[i], x)
    BY <1>1, <1>2, <1>3, <2>2, PushedFiles
  <2>4. Tail(w.files) \in Seq(SitemapFiles)  BY <1>1, HeadTailProperties
  <2>5. /\ work'[r].files = Tail(w.files) \o nested /\ work'[r].visited = w.visited \cup {url}
        /\ work'[r].fetched = Append(w.fetched, url)
    <3>1. /\ Visited(w, url).files = Tail(w.files) /\ Visited(w, url).visited = w.visited \cup {url}
          /\ Visited(w, url).fetched = w.fetched /\ Visited(w, url) \in WorkSet
      <4>1. Visited(w, url) \in WorkSet  BY <1>1, <1>3, VisitedTyped
      <4> QED  BY <1>1, <4>1 DEF Visited, WorkSet
    <3>2. PICK v \in WorkSet : v = Visited(w, url)  BY <3>1
    <3>3. /\ ReadSitemap(v, file, url).visited = v.visited
          /\ ReadSitemap(v, file, url).fetched = Append(v.fetched, url)
      BY <3>2 DEF ReadSitemap, Warned, WorkSet
    <3>4. ReadSitemap(v, file, url).files =
            IF doc.kind = "unfetchable" \/ ~Parsed[doc].readable THEN v.files ELSE v.files \o nested
      BY <2>1, <2>2, <3>2 DEF ReadSitemap, Warned, WorkSet, PushFiles, Pushed
    <3>5. Tail(w.files) \o <<>> = Tail(w.files)  BY <2>4, ConcatEmptySeq
    <3> QED  BY <1>10, <2>1, <2>2, <3>1, <3>2, <3>3, <3>4, <3>5 DEF Pushed
  <2>6. LeadsTo(file, url)  BY <1>10 DEF LeadsTo, url
  <2>7. file.depth <= MaxSitemapDepth  BY <1>2, <1>6, <1>10 DEF TooDeep, SitemapFiles
  <2>8. Searched(site, W, Tail(w.files) \o nested, w.visited \cup {url}, Append(w.fetched, url))
    BY <1>1, <1>3, <1>4, <1>10, <2>3, <2>6, <2>7, FetchedSearch DEF file
  <2> QED  BY <2>5, <2>8
<1> QED  BY <1>7, <1>8, <1>9, <1>10

\* What the search of a run has come to.
SearchOf(r) ==
  /\ pc[r] \in {"new", "created", "queued", "entering", "homepage", "links", "robots"} =>
       work[r].visited = {} /\ work[r].fetched = <<>>
  /\ pc[r] \in {"sitemaps", "saving"} =>
       Searched(site, SitemapsWithin(site), work[r].files, work[r].visited, work[r].fetched)
  /\ pc[r] = "saving" => work[r].files = <<>> \/ Len(work[r].fetched) >= MaxSitemapFiles

\* The files robots.txt names.
NamedFiles(s) ==
  [i \in DOMAIN SitemapsOf(RobotsLines(s)) |-> SitemapFile(SitemapsOf(RobotsLines(s))[i].ref, 0, FALSE)]

LEMMA SearchStarts ==
  ASSUME SitesAreTyped, NEW s \in Sites, NEW W, Levels(s, W), NEW files \in Seq(SitemapFiles),
         files = NamedFiles(s)
  PROVE  Searched(s, W, files, {}, <<>>)
<1>1. PICK found : found = SitemapsOf(RobotsLines(s))  OBVIOUS
<1>2. Len(found) \in Nat /\ DOMAIN found = 1..Len(found) /\ \A i \in DOMAIN found : found[i].ref \in Refs
  BY <1>1 DEF SitesAreTyped
<1>3. /\ DOMAIN files = 1..Len(found)
      /\ \A i \in 1..Len(found) : files[i] = SitemapFile(found[i].ref, 0, FALSE)
  BY <1>1, <1>2 DEF NamedFiles
<1>4. Len(files) = Len(found)
  <2>1. DOMAIN files = 1..Len(found)  BY <1>3
  <2>2. DOMAIN files = 1..Len(files) /\ Len(files) \in Nat  BY LenProperties
  <2> QED  BY <1>2, <2>1, <2>2
<1>5. \A i \in 1..Len(files) : files[i].ref = found[i].ref /\ files[i].depth = 0
  <2>1. ASSUME NEW i \in 1..Len(files) PROVE files[i].ref = found[i].ref /\ files[i].depth = 0
    <3>1. files[i] = SitemapFile(found[i].ref, 0, FALSE)  BY <1>3, <1>4
    <3> QED  BY <3>1 DEF SitemapFile
  <2> QED  BY <2>1
<1>6. ToSet(<<>>) = {}  BY DEF ToSet
<1>7. \A x : x \in W[0] <=> \E i \in 1..Len(files) : LeadsTo(files[i], x)
  <2>1. W[0] = NamedSitemaps(s)  BY DEF Levels
  <2>2. ToSet(found) = {found[i] : i \in 1..Len(found)}  BY <1>2 DEF ToSet
  <2>3. ASSUME NEW x \in NamedSitemaps(s) PROVE \E i \in 1..Len(files) : LeadsTo(files[i], x)
    <3>1. PICK line \in ToSet(found) : Accepts(line.ref, FALSE) /\ x = NormalUrl(line.ref, TRUE)
      BY <1>1, <2>3 DEF NamedSitemaps
    <3>2. PICK i \in 1..Len(found) : line = found[i]  BY <2>2
    <3> QED  BY <1>4, <1>5, <3>1, <3>2 DEF LeadsTo
  <2>4. ASSUME NEW x, NEW i \in 1..Len(files), LeadsTo(files[i], x) PROVE x \in NamedSitemaps(s)
    <3>1. found[i] \in ToSet(found) /\ Accepts(found[i].ref, FALSE) /\ x = NormalUrl(found[i].ref, TRUE)
      BY <1>4, <1>5, <2>2, <2>4 DEF LeadsTo
    <3> QED  BY <1>1, <3>1 DEF NamedSitemaps
  <2> QED  BY <2>1, <2>3, <2>4
<1>8. Ordered(files)
  <2>1. ASSUME NEW i \in 1..Len(files), NEW j \in 1..Len(files)
        PROVE  files[i].depth <= files[j].depth /\ files[j].depth <= files[i].depth + 1
    <3>1. files[i].depth = 0 /\ files[j].depth = 0  BY <1>5
    <3> QED  BY <3>1
  <2> QED  BY <2>1 DEF Ordered
<1>9. Tracked(s, W, files, {}, <<>>)
  <2>1. \A i \in 1..Len(files), u \in Urls : LeadsTo(files[i], u) => u \in W[files[i].depth]
    BY <1>5, <1>7
  <2>2. ASSUME NEW u \in W[0] PROVE Known(files, {}, u, 0)
    <3>1. PICK i \in 1..Len(files) : LeadsTo(files[i], u)  BY <1>7
    <3>2. files[i].depth <= 0  BY <1>5
    <3> QED  BY <3>1, <3>2 DEF Known
  <2> QED  BY <1>6, <2>1, <2>2 DEF Tracked
<1>10. Shallowest(W, files, {}, <<>>)
  <2>1. 1..Len(<<>>) = {}  BY EmptySeq
  <2> QED  BY <1>6, <2>1 DEF Shallowest
<1>11. <<>> \in Seq(Urls) /\ Len(<<>>) <= MaxSitemapFiles
  <2>1. <<>> \in Seq(Urls) /\ Len(<<>>) = 0  BY EmptySeq
  <2> QED  BY <2>1, DiscoveryAssumption
<1> QED  BY <1>8, <1>9, <1>10, <1>11 DEF Searched

LEMMA StepSearch ==
  ASSUME SitesAreTyped, Shape, TypedWork, NEW r \in Runs, SearchOf(r), RunStep(r)
  PROVE  SearchOf(r)'
<1> USE DEF Goto, stored
<1>0. work[r] \in WorkSet /\ DOMAIN work = Runs /\ site \in Sites /\ site' = site
  BY OneRun DEF TypedWork, Shape
<1>1. ASSUME work' = work, pc'[r] \notin {"sitemaps", "saving"},
             \/ pc'[r] \notin {"new", "created", "queued", "entering", "homepage", "links", "robots"}
             \/ pc[r] \in {"new", "created", "queued", "entering", "homepage", "links", "robots"}
      PROVE  SearchOf(r)'
  BY <1>1 DEF SearchOf
<1>2. CASE EnqueueRun(r) \/ EnqueueJob(r) \/ RefuseJob(r)
  BY <1>1, <1>2 DEF EnqueueRun, EnqueueJob, RefuseJob, Shape
<1>3. CASE StartRun(r) \/ EnterDiscovering(r)
  BY <1>1, <1>3 DEF StartRun, EnterDiscovering, Shape
<1>4. CASE SaveUrls(r) \/ SaveSomeUrls(r) \/ FinishRun(r)
  BY <1>1, <1>4 DEF SaveUrls, SaveSomeUrls, FinishRun, Shape
<1>5. CASE LeaveDiscovering(r) \/ SetLatestRun(r) \/ FailRun(r) \/ Die(r)
  BY <1>1, <1>5 DEF LeaveDiscovering, SetLatestRun, FailRun, Die, Shape
<1>6. CASE CreateCompanyRun(r)
  <2>1. pc[r] = "new" /\ pc'[r] = "queued"  BY <1>6 DEF CreateCompanyRun, Shape
  <2>2. work'[r].visited = work[r].visited /\ work'[r].fetched = work[r].fetched
    BY <1>0, <1>6 DEF CreateCompanyRun, WorkSet
  <2> QED  BY <2>1, <2>2 DEF SearchOf
<1>7. CASE ResolveHomepage(r)
  <2>1. pc[r] = "homepage" /\ pc'[r] \in {"links", "failing"}  BY <1>7 DEF ResolveHomepage, Shape
  <2>2. work'[r].visited = work[r].visited /\ work'[r].fetched = work[r].fetched
    BY <1>0, <1>7 DEF ResolveHomepage, WorkSet
  <2> QED  BY <2>1, <2>2 DEF SearchOf
<1>8. CASE ExtractHomepageLinks(r)
  <2>1. pc[r] = "links" /\ pc'[r] \in {"robots", "dead"}  BY <1>8 DEF ExtractHomepageLinks, Shape
  <2>2. work'[r].visited = work[r].visited /\ work'[r].fetched = work[r].fetched
    BY <1>0, <1>8 DEF ExtractHomepageLinks, WorkSet
  <2> QED  BY <2>1, <2>2 DEF SearchOf
<1>9. CASE FetchRobots(r)
  <2>1. pc[r] = "robots" /\ pc'[r] = "sitemaps"  BY <1>9 DEF FetchRobots, Shape
  <2>2. work'[r].files = NamedFiles(site) /\ work'[r].visited = {} /\ work'[r].fetched = <<>>
    BY <1>0, <1>9, <2>1 DEF FetchRobots, NamedFiles, WorkSet, SearchOf
  <2>3. work'[r].files \in Seq(SitemapFiles)
    <3>1. TypedWork'  BY StepTypedWork
    <3> QED  BY <3>1 DEF TypedWork, WorkSet
  <2>4. Searched(site, SitemapsWithin(site), work'[r].files, {}, <<>>)
    BY <1>0, <2>2, <2>3, SiteLevels, SearchStarts
  <2> QED  BY <1>0, <2>1, <2>2, <2>4 DEF SearchOf
<1>10. CASE NextSitemap(r)
  <2>1. pc[r] = "sitemaps" /\ pc'[r] \in {"sitemaps", "dead"}  BY <1>10 DEF NextSitemap, Shape
  <2>2. CASE pc'[r] = "dead"  BY <2>2 DEF SearchOf
  <2>3. CASE pc'[r] = "sitemaps"
    <3>1. Levels(site, SitemapsWithin(site))  BY <1>0, SiteLevels
    <3>2. Searched(site, SitemapsWithin(site), work'[r].files, work'[r].visited, work'[r].fetched)
      BY <1>10, <2>1, <2>3, <3>1, SearchTurned DEF SearchOf
    <3> QED  BY <1>0, <2>3, <3>2 DEF SearchOf
  <2> QED  BY <2>1, <2>2, <2>3
<1>11. CASE EndSearch(r)
  <2>1. pc[r] = "sitemaps" /\ pc'[r] = "saving" /\ ~SearchGoesOn(r)  BY <1>11 DEF EndSearch, Shape
  <2>2. work'[r].files = work[r].files /\ work'[r].visited = work[r].visited
        /\ work'[r].fetched = work[r].fetched
    BY <1>0, <1>11 DEF EndSearch, WorkSet
  <2>3. work[r].files = <<>> \/ Len(work[r].fetched) >= MaxSitemapFiles
    <3>1. Len(work[r].fetched) \in Nat /\ MaxSitemapFiles \in Nat
      BY <1>0, LenProperties, DiscoveryAssumption DEF WorkSet
    <3> QED  BY <2>1, <3>1 DEF SearchGoesOn
  <2> QED  BY <1>0, <2>1, <2>2, <2>3 DEF SearchOf
<1> QED
  BY <1>2, <1>3, <1>4, <1>5, <1>6, <1>7, <1>8, <1>9, <1>10, <1>11 DEF RunStep, JobStep

SearchInv == Shape /\ TypedWork /\ \A r \in Runs : SearchOf(r)

LEMMA NextSearch ==
  ASSUME SitesAreTyped, SearchInv, [Next]_vars
  PROVE  SearchInv'
<1>1. CASE UNCHANGED vars
  <2>1. Shape' /\ TypedWork'  BY <1>1, StepShape DEF vars, SearchInv, TypedWork
  <2>2. ASSUME NEW r \in Runs PROVE SearchOf(r)'
    <3>1. SearchOf(r)  BY DEF SearchInv
    <3> QED  BY <1>1, <3>1 DEF vars, SearchOf
  <2> QED  BY <2>1, <2>2 DEF SearchInv
<1>2. ASSUME NEW r \in Runs, RunStep(r) PROVE SearchInv'
  <2>1. Shape' /\ TypedWork'  BY <1>2, OneRun, StepTypedWork DEF SearchInv
  <2>2. SearchOf(r)'  BY <1>2, StepSearch DEF SearchInv
  <2>3. ASSUME NEW q \in Runs \ {r} PROVE SearchOf(q)'
    <3>1. pc'[q] = pc[q] /\ work'[q] = work[q] /\ site' = site  BY <1>2, OneRun DEF SearchInv
    <3>2. SearchOf(q)  BY DEF SearchInv
    <3> QED  BY <3>1, <3>2 DEF SearchOf
  <2> QED  BY <2>1, <2>2, <2>3 DEF SearchInv
<1> QED  BY <1>1, <1>2 DEF Next, RunStep

LEMMA InitSearch ==
  ASSUME Init PROVE SearchInv
<1>1. EmptyWork \in WorkSet /\ EmptyWork.visited = {} /\ EmptyWork.fetched = <<>>
  BY DEF EmptyWork, WorkSet
<1>2. TypedWork  BY <1>1 DEF Init, TypedWork
<1>3. \A r \in Runs : pc[r] = "new" /\ work[r] = EmptyWork  BY DEF Init
<1>4. \A r \in Runs : SearchOf(r)  BY <1>1, <1>3 DEF SearchOf
<1> QED  BY <1>2, <1>4, InitShape DEF SearchInv

\* No sitemap is fetched twice, none beyond the permitted depth and none after
\* a deeper one, for any sitemaps however they refer to each other
\* (ShallowestSitemapsFirst).
THEOREM SitemapsInOrder ==
  ASSUME SitesAreTyped
  PROVE  Spec => []ShallowestSitemapsFirst
<1>1. Init => SearchInv  BY InitSearch
<1>2. SearchInv /\ [Next]_vars => SearchInv'  BY NextSearch
<1>3. SearchInv => ShallowestSitemapsFirst
  <2>1. SUFFICES ASSUME SearchInv, NEW r \in Runs, pc[r] = "saving",
                        NEW fetched, fetched = work[r].fetched,
                        NEW W, W = SitemapsWithin(site)
                 PROVE  /\ Len(fetched) <= MaxSitemapFiles
                        /\ ToSet(fetched) \subseteq [d \in 0..MaxSitemapDepth |-> W[d]][MaxSitemapDepth]
                        /\ \A i, j \in DOMAIN fetched : i < j =>
                             /\ fetched[i] # fetched[j]
                             /\ \A d \in 0..MaxSitemapDepth : fetched[j] \in W[d] => fetched[i] \in W[d]
    BY DEF ShallowestSitemapsFirst
  <2>2. Searched(site, W, work[r].files, work[r].visited, fetched)  BY <2>1 DEF SearchInv, SearchOf
  <2>3. DOMAIN fetched = 1..Len(fetched)  BY <2>2, LenProperties DEF Searched
  <2>4. MaxSitemapDepth \in 0..MaxSitemapDepth  BY DiscoveryAssumption
  <2> QED  BY <2>2, <2>3, <2>4 DEF Searched, Shallowest
<1> QED  BY <1>1, <1>2, <1>3, PTL DEF Spec

\* A search that the limit on files did not cut off has read exactly the
\* sitemaps within the permitted depth (SearchIsComplete).
THEOREM SitemapsComplete ==
  ASSUME SitesAreTyped
  PROVE  Spec => []SearchIsComplete
<1>1. Init => SearchInv  BY InitSearch
<1>2. SearchInv /\ [Next]_vars => SearchInv'  BY NextSearch
<1>3. SearchInv => SearchIsComplete
  <2>1. SUFFICES ASSUME SearchInv, NEW r \in Runs, pc[r] = "saving",
                        Len(work[r].fetched) < MaxSitemapFiles
                 PROVE  ToSet(work[r].fetched) = SitemapsWithin(site)[MaxSitemapDepth]
    BY DEF SearchIsComplete
  <2>2. PICK W : W = SitemapsWithin(site)  OBVIOUS
  <2>3. Levels(site, W)  BY <2>1, <2>2, SiteLevels DEF SearchInv, Shape
  <2>4. Searched(site, W, work[r].files, work[r].visited, work[r].fetched)
    BY <2>1, <2>2 DEF SearchInv, SearchOf
  <2>5. Len(work[r].fetched) \in Nat /\ MaxSitemapFiles \in Nat /\ MaxSitemapDepth \in Nat
    BY <2>4, LenProperties, DiscoveryAssumption DEF Searched
  <2>6. work[r].files = <<>>  BY <2>1, <2>5 DEF SearchInv, SearchOf
  <2>7. \A i \in 1..Len(work[r].files) : work[r].files[i].depth > MaxSitemapDepth
    <3>1. Len(work[r].files) = 0  BY <2>6, EmptySeq
    <3> QED  BY <3>1
  <2>8. W[MaxSitemapDepth] \subseteq work[r].visited
    BY <2>3, <2>4, <2>5, <2>7, Frontier
  <2> QED  BY <2>2, <2>4, <2>8 DEF Searched, Shallowest
<1> QED  BY <1>1, <1>2, <1>3, PTL DEF Spec

-----------------------------------------------------------------------------
(* Types.                                                                  *)

TypedRun(r) ==
  /\ runs[r].status \in {"none", "queued", "running"} \cup Finals
  /\ \A field \in DOMAIN NoSummary : runs[r].summary[field] \in Nat
  /\ urls[r] \in SUBSET DiscoveredUrlSet

TypedRest ==
  /\ company \in [status: ProcessingStatuses, latest: Runs \cup {NoRun}]
  /\ queue \in Seq(Runs)
  /\ crashes \in 0..MaxCrashes

LEMMA StepTypedRun ==
  ASSUME SitesAreTyped, WholeInv, NEW r \in Runs, TypedRun(r), RunStep(r)
  PROVE  TypedRun(r)'
<1> USE DEF Goto, stored
<1>0. /\ DOMAIN runs = Runs /\ {"status", "summary"} \subseteq DOMAIN runs[r] /\ DOMAIN urls = Runs
      /\ work[r] \in WorkSet
  BY DEF WholeInv, Shape, TypedWork
<1>1. CASE runs' = runs /\ urls' = urls  BY <1>1 DEF TypedRun
<1>2. ASSUME NEW status \in {"queued", "running", "failed"},
             runs' = [runs EXCEPT ![r].status = status], urls' = urls
      PROVE  TypedRun(r)'
  <2>1. runs'[r].status = status /\ runs'[r].summary = runs[r].summary  BY <1>0, <1>2
  <2>2. status \in {"none", "queued", "running"} \cup Finals  BY DEF Finals
  <2> QED  BY <1>2, <2>1, <2>2 DEF TypedRun
<1>3. CASE EnqueueRun(r) \/ CreateCompanyRun(r)  BY <1>2, <1>3 DEF EnqueueRun, CreateCompanyRun
<1>4. CASE StartRun(r) \/ FailRun(r)  BY <1>2, <1>4 DEF StartRun, FailRun
<1>5. CASE EnqueueJob(r) \/ RefuseJob(r) \/ EnterDiscovering(r) \/ ResolveHomepage(r)
  BY <1>1, <1>5 DEF EnqueueJob, RefuseJob, EnterDiscovering, ResolveHomepage
<1>6. CASE ExtractHomepageLinks(r) \/ FetchRobots(r) \/ EndSearch(r)
  BY <1>1, <1>6 DEF ExtractHomepageLinks, FetchRobots, EndSearch
<1>7. CASE NextSitemap(r)  BY <1>1, <1>7 DEF NextSitemap
<1>8. CASE LeaveDiscovering(r) \/ SetLatestRun(r) \/ Die(r)
  BY <1>1, <1>8 DEF LeaveDiscovering, SetLatestRun, Die
<1>9. CASE SaveUrls(r) \/ SaveSomeUrls(r)
  <2>1. urls'[r] \subseteq work[r].results /\ runs' = runs
    BY <1>0, <1>9 DEF SaveUrls, SaveSomeUrls, FirstResults
  <2>2. work[r].results \subseteq DiscoveredUrlSet  BY <1>0 DEF WorkSet
  <2> QED  BY <2>1, <2>2 DEF TypedRun
<1>10. CASE FinishRun(r)
  <2>1. urls' = urls /\ runs'[r].summary = Summary(r)
        /\ runs'[r].status \in {"completed", "completed_with_warnings"}
    BY <1>0, <1>10 DEF FinishRun
  <2>2. WholeRun(r) /\ pc[r] = "finishing" /\ TypedWork  BY <1>10 DEF WholeInv, FinishRun
  <2>3. \A field \in DOMAIN NoSummary : Summary(r)[field] \in Nat
    BY <2>2, FinishedWhole DEF WholeRun
  <2> QED  BY <2>1, <2>3 DEF TypedRun, Finals
<1> QED
  BY <1>3, <1>4, <1>5, <1>6, <1>7, <1>8, <1>9, <1>10 DEF RunStep, JobStep

LEMMA StepTypedRest ==
  ASSUME Shape, TypedRest, NEW r \in Runs, RunStep(r)
  PROVE  TypedRest'
<1> USE DEF Goto, stored
<1>0. MaxCrashes \in Nat  BY DiscoveryAssumption
<1>1. ASSUME NEW status \in ProcessingStatuses, AdvanceCompany(status), queue' = queue, crashes' = crashes
      PROVE  TypedRest'
  <2>1. AdvancedProcessing(company.status, status) \in ProcessingStatuses
    BY DEF AdvancedProcessing, TypedRest
  <2> QED  BY <1>1, <2>1 DEF TypedRest, AdvanceCompany
<1>2. CASE company' = company /\ queue' = queue /\ crashes' = crashes  BY <1>2 DEF TypedRest
<1>3. CASE company' = company /\ queue' = queue /\ crashes < MaxCrashes /\ crashes' = crashes + 1
  BY <1>0, <1>3 DEF TypedRest
<1>4. CASE EnqueueRun(r) \/ RefuseJob(r) \/ CreateCompanyRun(r) \/ ResolveHomepage(r)
  BY <1>2, <1>4 DEF EnqueueRun, RefuseJob, CreateCompanyRun, ResolveHomepage
<1>5. CASE ExtractHomepageLinks(r) \/ FetchRobots(r) \/ EndSearch(r)
  BY <1>2, <1>5 DEF ExtractHomepageLinks, FetchRobots, EndSearch
<1>6. CASE NextSitemap(r)  BY <1>2, <1>6 DEF NextSitemap
<1>7. CASE SaveUrls(r) \/ FinishRun(r) \/ FailRun(r)  BY <1>2, <1>7 DEF SaveUrls, FinishRun, FailRun
<1>8. CASE SaveSomeUrls(r) \/ Die(r)  BY <1>3, <1>8 DEF SaveSomeUrls, Die
<1>9. CASE EnqueueJob(r)
  <2>1. queue' \in Seq(Runs)  BY <1>9, AppendProperties DEF EnqueueJob, TypedRest
  <2> QED  BY <1>9, <2>1 DEF EnqueueJob, TypedRest
<1>10. CASE StartRun(r)
  <2>1. queue' = queue \/ (queue # <<>> /\ queue' = Tail(queue))  BY <1>10 DEF StartRun
  <2>2. queue \in Seq(Runs)  BY DEF TypedRest
  <2>3. queue # <<>> => Tail(queue) \in Seq(Runs)  BY <2>2, HeadTailProperties
  <2>4. queue' \in Seq(Runs)  BY <2>1, <2>2, <2>3
  <2> QED  BY <1>10, <2>4 DEF StartRun, TypedRest
<1>11. CASE EnterDiscovering(r)
  <2>1. "discovering" \in ProcessingStatuses  BY DEF ProcessingStatuses
  <2> QED  BY <1>1, <1>11, <2>1 DEF EnterDiscovering
<1>12. CASE LeaveDiscovering(r)
  <2>1. PICK status : status = IF runs[r].status = "failed" THEN "failed" ELSE "discovered"  OBVIOUS
  <2>2. status \in ProcessingStatuses  BY <2>1 DEF ProcessingStatuses
  <2>3. AdvanceCompany(status) /\ queue' = queue /\ crashes' = crashes
    BY <1>12, <2>1 DEF LeaveDiscovering
  <2> QED  BY <1>1, <2>2, <2>3
<1>13. CASE SetLatestRun(r)  BY <1>13 DEF SetLatestRun, TypedRest
<1> QED
  BY <1>4, <1>5, <1>6, <1>7, <1>8, <1>9, <1>10, <1>11, <1>12, <1>13 DEF RunStep, JobStep

\* The state keeps its types, for any runs and sites (TypeOK): what a run
\* counts is never negative.
THEOREM TypeCorrect ==
  ASSUME SitesAreTyped
  PROVE  Spec => []TypeOK
<1> DEFINE Inv == WholeInv /\ TypedRest /\ \A r \in Runs : TypedRun(r)
<1>1. Init => Inv
  <2> SUFFICES ASSUME Init PROVE TypedRest /\ \A r \in Runs : TypedRun(r)  BY InitWhole
  <2>1. \A field \in DOMAIN NoSummary : NoSummary[field] \in Nat  BY DEF NoSummary
  <2>2. \A r \in Runs : runs[r].status = "none" /\ runs[r].summary = NoSummary /\ urls[r] = {}
    BY DEF Init
  <2>3. <<>> \in Seq(Runs)  BY EmptySeq
  <2>4. InitialStatuses \subseteq ProcessingStatuses /\ MaxCrashes \in Nat  BY DiscoveryAssumption
  <2> QED  BY <2>1, <2>2, <2>3, <2>4 DEF Init, TypedRest, TypedRun
<1>2. Inv /\ [Next]_vars => Inv'
  <2>1. SUFFICES ASSUME Inv, [Next]_vars PROVE TypedRest' /\ \A r \in Runs : TypedRun(r)'
    BY NextWhole
  <2>2. CASE UNCHANGED vars
    <3>1. TypedRest'  BY <2>1, <2>2 DEF vars, TypedRest
    <3>2. \A r \in Runs : TypedRun(r)'  BY <2>1, <2>2 DEF vars, TypedRun
    <3> QED  BY <3>1, <3>2
  <2>3. ASSUME NEW r \in Runs, RunStep(r) PROVE TypedRest' /\ \A q \in Runs : TypedRun(q)'
    <3>1. Shape  BY <2>1 DEF WholeInv
    <3>2. TypedRest' /\ TypedRun(r)'  BY <2>1, <2>3, <3>1, StepTypedRest, StepTypedRun
    <3>3. ASSUME NEW q \in Runs \ {r} PROVE TypedRun(q)'
      <4>1. runs'[q] = runs[q] /\ urls'[q] = urls[q]  BY <2>3, <3>1, OneRun
      <4>2. TypedRun(q)  BY <2>1
      <4> QED  BY <4>1, <4>2 DEF TypedRun
    <3> QED  BY <3>2, <3>3
  <2> QED  BY <2>1, <2>2, <2>3 DEF Next, RunStep
<1>3. Inv => TypeOK
  <2> SUFFICES ASSUME Inv PROVE TypeOK  OBVIOUS
  <2>1. urls \in [Runs -> SUBSET DiscoveredUrlSet]  BY DEF WholeInv, Shape, TypedRun
  <2> QED  BY <2>1 DEF WholeInv, Shape, TypedRun, TypedRest, TypeOK
<1> QED  BY <1>1, <1>2, <1>3, PTL DEF Spec
=============================================================================
