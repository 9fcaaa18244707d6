-------------------------- MODULE SiteCrawl_proofs --------------------------
(***************************************************************************)
(* Theorems about SiteCrawl and RobotsPolicy. For every robots.txt and     *)
(* every path, the parser and the evaluation together say what the         *)
(* standard says. For any site, scenarios and configuration: what is       *)
(* stored of a page, what a retry leaves alone, and the pacing of the      *)
(* requests.                                                               *)
(***************************************************************************)
EXTENDS SiteCrawl, FiniteSetTheorems, WellFoundedInduction, TLAPS

-----------------------------------------------------------------------------
(* Numbers, and functions defined from one to the next.                    *)

LEMMA LeastNat ==
  ASSUME NEW T, T \subseteq Nat, T # {}
  PROVE  \E x \in T : \A y \in T : x <= y
<1> DEFINE Less == {ss \in Nat \X Nat : ss[1] < ss[2]}
<1>1. IsWellFoundedOn(Less, Nat)  BY NatLessThanWellFounded DEF OpToRel
<1>2. PICK x \in T : \A y \in T : ~(<<y, x>> \in Less)  BY <1>1, WFMin
<1>3. ASSUME NEW y \in T, y < x PROVE FALSE
  <2>1. <<y, x>> \in Nat \X Nat /\ <<y, x>>[1] < <<y, x>>[2]  BY <1>3
  <2> QED  BY <1>2, <2>1
<1> QED  BY <1>3

LEMMA Counting ==
  ASSUME NEW N \in Nat, NEW S, 0 \in S, \A n \in 0..N : n \in S /\ n < N => n + 1 \in S
  PROVE  0..N \subseteq S
<1> SUFFICES ASSUME (0..N) \ S # {} PROVE FALSE  OBVIOUS
<1>1. PICK x \in (0..N) \ S : \A y \in (0..N) \ S : x <= y
  <2>1. PICK T : T = (0..N) \ S  OBVIOUS
  <2>2. T \subseteq Nat /\ T # {}  BY <2>1
  <2> QED  BY <2>1, <2>2, LeastNat
<1>2. x - 1 \in 0..N /\ x - 1 \in S /\ x - 1 < N  BY <1>1
<1> QED  BY <1>1, <1>2

LEMMA GreatestOf ==
  ASSUME NEW n \in Nat, NEW S, S \subseteq 0..n, S # {}
  PROVE  Max(S) \in S /\ \A y \in S : Max(S) >= y
<1> DEFINE T == {n - y : y \in S}
<1>1. T \subseteq Nat /\ T # {}
  <2>1. PICK z : z \in S  OBVIOUS
  <2>2. n - z \in T  BY <2>1
  <2>3. ASSUME NEW y \in S PROVE n - y \in Nat
    <3>1. y \in 0..n  OBVIOUS
    <3> QED  BY <3>1
  <2> QED  BY <2>2, <2>3
<1>2. PICK x \in T : \A y \in T : x <= y
  <2> HIDE DEF T
  <2> QED  BY <1>1, LeastNat
<1>3. n - x \in S /\ \A y \in S : n - x >= y  BY <1>2
<1>4. \E z \in S : \A y \in S : z >= y  BY <1>3
<1> QED  BY <1>4 DEF Max

\* The functions each of whose values is made of the one before.
Successions(k, V, a, G) ==
  {f \in [0..k -> V] : f[0] = a /\ \A n \in 1..k : f[n] = G[n][f[n - 1]]}

LEMMA Successive ==
  ASSUME NEW N \in Nat, NEW V, NEW a \in V, NEW G \in [1..N -> [V -> V]]
  PROVE  Successions(N, V, a, G) # {}
<1> USE DEF Successions
<1> DEFINE Starts(k) == Successions(k, V, a, G)
           S == {k \in 0..N : Starts(k) # {}}
<1>1. 0 \in S
  <2>1. [i \in 0..0 |-> a] \in Starts(0)  OBVIOUS
  <2> QED  BY <2>1
<1>2. ASSUME NEW k \in 0..N, k \in S, k < N PROVE k + 1 \in S
  <2>1. PICK f : f \in Starts(k)  BY <1>2
  <2> DEFINE h == [i \in 0..(k + 1) |-> IF i = k + 1 THEN G[k + 1][f[k]] ELSE f[i]]
  <2>2. k + 1 \in 1..N /\ k \in 0..k /\ f[k] \in V  BY <1>2, <2>1
  <2>3. h \in [0..(k + 1) -> V]  BY <2>1, <2>2
  <2>4. h[0] = a  BY <2>1
  <2>5. ASSUME NEW n \in 1..(k + 1) PROVE h[n] = G[n][h[n - 1]]
    <3>1. CASE n = k + 1  BY <2>2, <3>1
    <3>2. CASE n # k + 1
      <4>1. n \in 1..k /\ n - 1 \in 0..k  BY <3>2
      <4> QED  BY <2>1, <4>1
    <3> QED  BY <3>1, <3>2
  <2> HIDE DEF h
  <2>6. h \in Starts(k + 1)  BY <2>3, <2>4, <2>5
  <2>7. k + 1 \in 0..N  BY <2>2
  <2> QED  BY <2>6, <2>7
<1>3. 0..N \subseteq S
  <2> HIDE DEF S
  <2> QED  BY <1>1, <1>2, Counting
<1>4. Starts(N) # {}  BY <1>3
<1> QED  BY <1>4

-----------------------------------------------------------------------------
(* The lines: which agents the rules of a line are for.                    *)

\* The agent of line j is among those of the group that line n leaves open.
Current(lines, j, n) ==
  /\ IsAgent(lines[j])
  /\ ~\E k \in (j + 1)..n : IsRule(lines[k]) /\ \E l \in (k + 1)..n : IsAgent(lines[l])

NamedBy(lines, n, a) == \E j \in 1..n : IsAgent(lines[j]) /\ lines[j].value = a
OpenFor(lines, n, a) == \E j \in 1..n : Current(lines, j, n) /\ lines[j].value = a
RuleFor(lines, n, a, d, v) ==
  \E j, i \in 1..n : Governs(lines, j, i) /\ lines[j].value = a
                     /\ lines[i].directive = d /\ lines[i].value = v
\* The last of the lines that are agents or rules is a rule.
EndsInRule(lines, n) == \E k \in 1..n : IsRule(lines[k]) /\ \A l \in (k + 1)..n : ~IsAgent(lines[l])

LEMMA NotBoth == ASSUME NEW line PROVE ~(IsAgent(line) /\ IsRule(line))
BY DEF IsAgent, IsRule

LEMMA GovernsCurrent ==
  ASSUME NEW lines, NEW j \in Nat, NEW i \in Nat
  PROVE  Governs(lines, j, i) <=> j < i /\ Current(lines, j, i - 1) /\ IsRule(lines[i])
BY DEF Governs, Current

\* A line that is no agent leaves the open group as it is.
LEMMA CurrentStays ==
  ASSUME NEW lines, NEW n \in Nat, ~IsAgent(lines[n + 1]), NEW j \in 1..n
  PROVE  Current(lines, j, n + 1) <=> Current(lines, j, n)
<1>1. ASSUME NEW k \in (j + 1)..(n + 1), IsRule(lines[k]), NEW l \in (k + 1)..(n + 1), IsAgent(lines[l])
      PROVE  k \in (j + 1)..n /\ l \in (k + 1)..n
  BY <1>1
<1>2. Current(lines, j, n) => Current(lines, j, n + 1)  BY <1>1 DEF Current
<1>3. ASSUME NEW k \in (j + 1)..n, NEW l \in (k + 1)..n
      PROVE  k \in (j + 1)..(n + 1) /\ l \in (k + 1)..(n + 1)
  OBVIOUS
<1>4. Current(lines, j, n + 1) => Current(lines, j, n)  BY <1>3 DEF Current
<1> QED  BY <1>2, <1>4

LEMMA AfterOther ==
  ASSUME NEW lines, NEW n \in Nat, ~IsAgent(lines[n + 1]), ~IsRule(lines[n + 1])
  PROVE  /\ \A a : NamedBy(lines, n + 1, a) <=> NamedBy(lines, n, a)
         /\ \A a : OpenFor(lines, n + 1, a) <=> OpenFor(lines, n, a)
         /\ \A a, d, v : RuleFor(lines, n + 1, a, d, v) <=> RuleFor(lines, n, a, d, v)
         /\ EndsInRule(lines, n + 1) <=> EndsInRule(lines, n)
<1>1. \A j \in 1..(n + 1) : j \in 1..n \/ j = n + 1  OBVIOUS
<1>2. \A j \in 1..n : j \in 1..(n + 1)  OBVIOUS
<1>3. \A a : NamedBy(lines, n + 1, a) <=> NamedBy(lines, n, a)  BY <1>1, <1>2 DEF NamedBy
<1>4. \A a : OpenFor(lines, n + 1, a) <=> OpenFor(lines, n, a)
  <2>1. ~Current(lines, n + 1, n + 1)  BY DEF Current
  <2> QED  BY <1>1, <1>2, <2>1, CurrentStays DEF OpenFor
<1>5. \A a, d, v : RuleFor(lines, n + 1, a, d, v) <=> RuleFor(lines, n, a, d, v)
  <2>1. ASSUME NEW j \in 1..(n + 1), NEW i \in 1..(n + 1), Governs(lines, j, i)
        PROVE  j \in 1..n /\ i \in 1..n
    BY <1>1, <2>1 DEF Governs
  <2> QED  BY <1>2, <2>1 DEF RuleFor
<1>6. EndsInRule(lines, n + 1) <=> EndsInRule(lines, n)
  <2>1. ASSUME NEW k \in 1..(n + 1), IsRule(lines[k])
        PROVE  /\ k \in 1..n
               /\ (\A l \in (k + 1)..(n + 1) : ~IsAgent(lines[l]))
                    <=> (\A l \in (k + 1)..n : ~IsAgent(lines[l]))
    <3>1. k \in 1..n  BY <1>1, <2>1
    <3>2. \A l \in (k + 1)..(n + 1) : l \in (k + 1)..n \/ l = n + 1  OBVIOUS
    <3>3. \A l \in (k + 1)..n : l \in (k + 1)..(n + 1)  OBVIOUS
    <3> QED  BY <3>1, <3>2, <3>3
  <2> QED  BY <1>2, <2>1 DEF EndsInRule
<1> QED  BY <1>3, <1>4, <1>5, <1>6

LEMMA AfterRule ==
  ASSUME NEW lines, NEW n \in Nat, IsRule(lines[n + 1])
  PROVE  /\ \A a : NamedBy(lines, n + 1, a) <=> NamedBy(lines, n, a)
         /\ \A a : OpenFor(lines, n + 1, a) <=> OpenFor(lines, n, a)
         /\ \A a, d, v : RuleFor(lines, n + 1, a, d, v)
              <=> (RuleFor(lines, n, a, d, v)
                   \/ (OpenFor(lines, n, a) /\ lines[n + 1].directive = d /\ lines[n + 1].value = v))
         /\ EndsInRule(lines, n + 1)
<1>0. ~IsAgent(lines[n + 1])  BY NotBoth
<1>1. \A j \in 1..(n + 1) : j \in 1..n \/ j = n + 1  OBVIOUS
<1>2. \A j \in 1..n : j \in 1..(n + 1)  OBVIOUS
<1>3. \A a : NamedBy(lines, n + 1, a) <=> NamedBy(lines, n, a)  BY <1>0, <1>1, <1>2 DEF NamedBy
<1>4. \A a : OpenFor(lines, n + 1, a) <=> OpenFor(lines, n, a)
  <2>1. ~Current(lines, n + 1, n + 1)  BY <1>0 DEF Current
  <2> QED  BY <1>0, <1>1, <1>2, <2>1, CurrentStays DEF OpenFor
<1>5. ASSUME NEW a, NEW d, NEW v
      PROVE  RuleFor(lines, n + 1, a, d, v)
               <=> (RuleFor(lines, n, a, d, v)
                    \/ (OpenFor(lines, n, a) /\ lines[n + 1].directive = d /\ lines[n + 1].value = v))
  <2>1. ASSUME NEW j \in 1..(n + 1), NEW i \in 1..(n + 1), Governs(lines, j, i)
        PROVE  j \in 1..n /\ (i \in 1..n \/ (i = n + 1 /\ Current(lines, j, n)))
    <3>1. j < i /\ Current(lines, j, i - 1)  BY <2>1, GovernsCurrent
    <3>2. j \in 1..n  BY <3>1
    <3>3. i = n + 1 => i - 1 = n  OBVIOUS
    <3> QED  BY <1>1, <3>1, <3>2, <3>3
  <2>2. ASSUME NEW j \in 1..n, Current(lines, j, n) PROVE Governs(lines, j, n + 1)
    <3>1. (n + 1) - 1 = n /\ j < n + 1 /\ n + 1 \in Nat /\ j \in Nat  OBVIOUS
    <3> QED  BY <2>2, <3>1, GovernsCurrent
  <2>3. n + 1 \in 1..(n + 1)  OBVIOUS
  <2>4. RuleFor(lines, n + 1, a, d, v)
          => (RuleFor(lines, n, a, d, v)
              \/ (OpenFor(lines, n, a) /\ lines[n + 1].directive = d /\ lines[n + 1].value = v))
    BY <2>1 DEF RuleFor, OpenFor
  <2>5. RuleFor(lines, n, a, d, v) => RuleFor(lines, n + 1, a, d, v)  BY <1>2 DEF RuleFor
  <2>6. OpenFor(lines, n, a) /\ lines[n + 1].directive = d /\ lines[n + 1].value = v
          => RuleFor(lines, n + 1, a, d, v)
    BY <1>2, <2>2, <2>3 DEF RuleFor, OpenFor
  <2> QED  BY <2>4, <2>5, <2>6
<1>6. EndsInRule(lines, n + 1)
  <2>1. n + 1 \in 1..(n + 1) /\ ((n + 1) + 1)..(n + 1) = {}  OBVIOUS
  <2> QED  BY <2>1 DEF EndsInRule
<1> QED  BY <1>3, <1>4, <1>5, <1>6

LEMMA AfterAgent ==
  ASSUME NEW lines, NEW n \in Nat, IsAgent(lines[n + 1])
  PROVE  /\ \A a : NamedBy(lines, n + 1, a) <=> (NamedBy(lines, n, a) \/ a = lines[n + 1].value)
         /\ \A a : OpenFor(lines, n + 1, a)
              <=> ((OpenFor(lines, n, a) /\ ~EndsInRule(lines, n)) \/ a = lines[n + 1].value)
         /\ \A a, d, v : RuleFor(lines, n + 1, a, d, v) <=> RuleFor(lines, n, a, d, v)
         /\ ~EndsInRule(lines, n + 1)
<1>0. ~IsRule(lines[n + 1]) /\ n + 1 \in 1..(n + 1)  BY NotBoth
<1>1. \A j \in 1..(n + 1) : j \in 1..n \/ j = n + 1  OBVIOUS
<1>2. \A j \in 1..n : j \in 1..(n + 1)  OBVIOUS
<1>3. \A a : NamedBy(lines, n + 1, a) <=> (NamedBy(lines, n, a) \/ a = lines[n + 1].value)
  BY <1>0, <1>1, <1>2 DEF NamedBy
<1>4. Current(lines, n + 1, n + 1)
  <2>1. ((n + 1) + 1)..(n + 1) = {}  OBVIOUS
  <2> QED  BY <2>1 DEF Current
<1>5. ASSUME NEW j \in 1..n
      PROVE  Current(lines, j, n + 1) <=> (Current(lines, j, n) /\ ~EndsInRule(lines, n))
  <2>1. ASSUME Current(lines, j, n + 1) PROVE Current(lines, j, n)
    <3>1. ASSUME NEW k \in (j + 1)..n, NEW l \in (k + 1)..n
          PROVE  k \in (j + 1)..(n + 1) /\ l \in (k + 1)..(n + 1)
      OBVIOUS
    <3> QED  BY <2>1, <3>1 DEF Current
  <2>2. ASSUME Current(lines, j, n + 1), EndsInRule(lines, n) PROVE FALSE
    <3>1. PICK k \in 1..n : IsRule(lines[k]) /\ \A l \in (k + 1)..n : ~IsAgent(lines[l])
      BY <2>2 DEF EndsInRule
    <3>2. IsAgent(lines[j])  BY <2>2 DEF Current
    <3>3. j # k  BY <3>1, <3>2, NotBoth
    <3>4. k \in (j + 1)..(n + 1)  BY <3>1, <3>2, <3>3
    <3>5. n + 1 \in (k + 1)..(n + 1)  OBVIOUS
    <3> QED  BY <2>2, <3>1, <3>4, <3>5 DEF Current
  <2>3. ASSUME Current(lines, j, n), ~EndsInRule(lines, n) PROVE Current(lines, j, n + 1)
    <3>1. ASSUME NEW k \in (j + 1)..(n + 1), IsRule(lines[k]) PROVE FALSE
      <4>1. k \in (j + 1)..n /\ k \in 1..n  BY <1>0, <3>1
      <4>2. PICK l \in (k + 1)..n : IsAgent(lines[l])  BY <2>3, <3>1, <4>1 DEF EndsInRule
      <4> QED  BY <2>3, <3>1, <4>1, <4>2 DEF Current
    <3> QED  BY <2>3, <3>1 DEF Current
  <2> QED  BY <2>1, <2>2, <2>3
<1>6. \A a : OpenFor(lines, n + 1, a)
        <=> ((OpenFor(lines, n, a) /\ ~EndsInRule(lines, n)) \/ a = lines[n + 1].value)
  BY <1>0, <1>1, <1>2, <1>4, <1>5 DEF OpenFor
<1>7. \A a, d, v : RuleFor(lines, n + 1, a, d, v) <=> RuleFor(lines, n, a, d, v)
  <2>1. ASSUME NEW j \in 1..(n + 1), NEW i \in 1..(n + 1), Governs(lines, j, i)
        PROVE  j \in 1..n /\ i \in 1..n
    BY <1>0, <1>1, <2>1 DEF Governs
  <2> QED  BY <1>2, <2>1 DEF RuleFor
<1>8. ~EndsInRule(lines, n + 1)
  <2>1. ASSUME NEW k \in 1..(n + 1), IsRule(lines[k]) PROVE n + 1 \in (k + 1)..(n + 1)
    BY <1>0, <1>1, <2>1
  <2> QED  BY <2>1 DEF EndsInRule
<1> QED  BY <1>3, <1>6, <1>7, <1>8

-----------------------------------------------------------------------------
(* The groups the parser makes of the lines.                               *)

Groups(V) == [agents: SUBSET V, allow: SUBSET V, disallow: SUBSET V]
HasRules(g) == g.allow \cup g.disallow # {}

NamedIn(groups, a) == \E k \in DOMAIN groups : a \in groups[k].agents
AllowedIn(groups, a, v) == \E k \in DOMAIN groups : a \in groups[k].agents /\ v \in groups[k].allow
DisallowedIn(groups, a, v) ==
  \E k \in DOMAIN groups : a \in groups[k].agents /\ v \in groups[k].disallow

\* The groups say what the first n lines say, and the last of them is the open one.
Reads(lines, n, groups) ==
  /\ \A a : NamedIn(groups, a) <=> NamedBy(lines, n, a)
  /\ \A a, v : AllowedIn(groups, a, v) <=> RuleFor(lines, n, a, "allow", v)
  /\ \A a, v : DisallowedIn(groups, a, v) <=> RuleFor(lines, n, a, "disallow", v)
  /\ \A a : OpenFor(lines, n, a) <=> (groups # <<>> /\ a \in Last(groups).agents)
  /\ EndsInRule(lines, n) <=> (groups # <<>> /\ HasRules(Last(groups)))

LEMMA NewTyped == ASSUME NEW V PROVE NewGroup \in Groups(V)
BY DEF NewGroup, Groups

LEMMA ReadsNothing == ASSUME NEW lines PROVE Reads(lines, 0, <<>>)
BY DEF Reads, NamedIn, AllowedIn, DisallowedIn, NamedBy, OpenFor, RuleFor, EndsInRule

LEMMA ReadsOther ==
  ASSUME NEW lines, NEW n \in Nat, NEW groups, Reads(lines, n, groups),
         ~IsAgent(lines[n + 1]), ~IsRule(lines[n + 1])
  PROVE  Reads(lines, n + 1, groups)
BY AfterOther DEF Reads

\* An agent behind a rule, or the first line that counts, begins a group.
LEMMA ReadsNewAgent ==
  ASSUME NEW V, NEW lines, NEW n \in Nat, NEW groups \in Seq(Groups(V)), Reads(lines, n, groups),
         IsAgent(lines[n + 1]), lines[n + 1].value \in V,
         groups = <<>> \/ HasRules(Last(groups)),
         NEW after, after = Append(groups, [NewGroup EXCEPT !.agents = {lines[n + 1].value}])
  PROVE  after \in Seq(Groups(V)) /\ Reads(lines, n + 1, after)
<1>1. PICK g : g = [NewGroup EXCEPT !.agents = {lines[n + 1].value}]  OBVIOUS
<1>2. PICK v : v = lines[n + 1].value  OBVIOUS
<1>3. g \in Groups(V) /\ g.agents = {v} /\ g.allow = {} /\ g.disallow = {}
  BY <1>1, <1>2 DEF NewGroup, Groups
<1>4. after = Append(groups, g)  BY <1>1
<1>5. PICK m \in Nat : m = Len(groups)  OBVIOUS
<1>6. /\ after \in Seq(Groups(V)) /\ after # <<>> /\ Last(after) = g /\ Len(after) = m + 1
      /\ DOMAIN after = 1..(m + 1) /\ DOMAIN groups = 1..m /\ after[m + 1] = g
      /\ \A k \in 1..m : after[k] = groups[k]
  <2>1. groups \in Seq(Groups(V)) /\ g \in Groups(V) /\ m = Len(groups) /\ after = Append(groups, g)
    BY <1>3, <1>4, <1>5
  <2>2. after \in Seq(Groups(V)) /\ Len(after) = m + 1  BY <2>1
  <2>3. DOMAIN after = 1..(m + 1) /\ DOMAIN groups = 1..m  BY <2>1, <2>2
  <2>4. after[m + 1] = g /\ \A k \in 1..m : after[k] = groups[k]  BY <2>1
  <2>5. after # <<>>  BY <2>2
  <2> QED  BY <2>2, <2>3, <2>4, <2>5 DEF Last
<1>7. \A k \in 1..(m + 1) : k \in 1..m \/ k = m + 1  OBVIOUS
<1>8. m + 1 \in 1..(m + 1) /\ \A k \in 1..m : k \in 1..(m + 1)  OBVIOUS
<1>9. ASSUME NEW a PROVE NamedIn(after, a) <=> (NamedIn(groups, a) \/ a = v)
  <2>1. ASSUME NEW k \in 1..(m + 1), a \in after[k].agents PROVE NamedIn(groups, a) \/ a = v
    <3>1. CASE k \in 1..m  BY <1>6, <2>1, <3>1 DEF NamedIn
    <3>2. CASE k = m + 1
      <4>1. after[k] = g /\ g.agents = {v}  BY <1>3, <1>6, <3>2
      <4> QED  BY <2>1, <4>1
    <3> QED  BY <1>7, <3>1, <3>2
  <2>2. ASSUME NEW k \in 1..m, a \in groups[k].agents PROVE NamedIn(after, a)
    BY <1>6, <1>8, <2>2 DEF NamedIn
  <2>3. ASSUME a = v PROVE NamedIn(after, a)
    BY <1>3, <1>6, <1>8, <2>3 DEF NamedIn
  <2>4. NamedIn(after, a) => NamedIn(groups, a) \/ a = v  BY <1>6, <2>1 DEF NamedIn
  <2>5. NamedIn(groups, a) => NamedIn(after, a)  BY <1>6, <2>2 DEF NamedIn
  <2> QED  BY <2>3, <2>4, <2>5
<1>10. \A a, w : AllowedIn(after, a, w) <=> AllowedIn(groups, a, w)
  BY <1>3, <1>6, <1>7, <1>8 DEF AllowedIn
<1>11. \A a, w : DisallowedIn(after, a, w) <=> DisallowedIn(groups, a, w)
  BY <1>3, <1>6, <1>7, <1>8 DEF DisallowedIn
<1>12. \A a : ~(OpenFor(lines, n, a) /\ ~EndsInRule(lines, n))  BY DEF Reads
<1>13. \A a : OpenFor(lines, n + 1, a) <=> a = v  BY <1>2, <1>12, AfterAgent
<1>14. ~HasRules(g)  BY <1>3 DEF HasRules
<1>15. \A a : NamedIn(after, a) <=> NamedBy(lines, n + 1, a)  BY <1>2, <1>9, AfterAgent DEF Reads
<1>16. \A a, w : AllowedIn(after, a, w) <=> RuleFor(lines, n + 1, a, "allow", w)
  BY <1>10, AfterAgent DEF Reads
<1>17. \A a, w : DisallowedIn(after, a, w) <=> RuleFor(lines, n + 1, a, "disallow", w)
  BY <1>11, AfterAgent DEF Reads
<1>18. \A a : OpenFor(lines, n + 1, a) <=> (after # <<>> /\ a \in Last(after).agents)
  BY <1>3, <1>6, <1>13
<1>19. EndsInRule(lines, n + 1) <=> (after # <<>> /\ HasRules(Last(after)))
  BY <1>6, <1>14, AfterAgent
<1> QED  BY <1>6, <1>15, <1>16, <1>17, <1>18, <1>19 DEF Reads

\* What becomes of the groups when the last of them changes.
WithLast(groups, g) == [groups EXCEPT ![Len(groups)] = g]

LEMMA LastChanged ==
  ASSUME NEW V, NEW groups \in Seq(Groups(V)), groups # <<>>, NEW g \in Groups(V)
  PROVE  /\ WithLast(groups, g) \in Seq(Groups(V)) /\ WithLast(groups, g) # <<>>
         /\ Last(WithLast(groups, g)) = g
         /\ Len(groups) \in DOMAIN groups /\ DOMAIN WithLast(groups, g) = DOMAIN groups
         /\ \A k \in DOMAIN groups : k # Len(groups) => WithLast(groups, g)[k] = groups[k]
         /\ WithLast(groups, g)[Len(groups)] = g
<1>1. PICK m \in Nat : m = Len(groups) /\ m > 0  OBVIOUS
<1>2. DOMAIN groups = 1..m /\ m \in 1..m  BY <1>1
<1>3. PICK after : after = WithLast(groups, g)  OBVIOUS
<1>4. after = [groups EXCEPT ![m] = g]  BY <1>1, <1>3 DEF WithLast
<1>5. after \in [1..m -> Groups(V)]  BY <1>2, <1>4
<1>6. after \in Seq(Groups(V)) /\ Len(after) = m  BY <1>1, <1>5
<1>7. after[m] = g /\ \A k \in 1..m : k # m => after[k] = groups[k]  BY <1>2, <1>4
<1> QED  BY <1>1, <1>2, <1>3, <1>5, <1>6, <1>7 DEF Last

LEMMA ReadsOldAgent ==
  ASSUME NEW V, NEW lines, NEW n \in Nat, NEW groups \in Seq(Groups(V)), Reads(lines, n, groups),
         IsAgent(lines[n + 1]), lines[n + 1].value \in V,
         groups # <<>>, ~HasRules(Last(groups)),
         NEW after, after = [groups EXCEPT ![Len(groups)].agents = @ \cup {lines[n + 1].value}]
  PROVE  after \in Seq(Groups(V)) /\ Reads(lines, n + 1, after)
<1>1. PICK o : o = Last(groups)  OBVIOUS
<1>2. PICK v : v = lines[n + 1].value  OBVIOUS
<1>3. PICK g : g = [o EXCEPT !.agents = o.agents \cup {v}]  OBVIOUS
<1>4. PICK m : m = Len(groups)  OBVIOUS
<1>5. o \in Groups(V) /\ o = groups[m]  BY <1>1, <1>4 DEF Last
<1>6. g \in Groups(V) /\ g.agents = o.agents \cup {v} /\ g.allow = o.allow /\ g.disallow = o.disallow
  BY <1>2, <1>3, <1>5 DEF Groups
<1>7. after = WithLast(groups, g)  BY <1>2, <1>3, <1>4, <1>5 DEF WithLast
<1>8. /\ after \in Seq(Groups(V)) /\ after # <<>> /\ Last(after) = g
      /\ m \in DOMAIN groups /\ DOMAIN after = DOMAIN groups
      /\ \A k \in DOMAIN groups : k # m => after[k] = groups[k]
      /\ after[m] = g
  <2>1. g \in Groups(V)  BY <1>6
  <2>2. /\ WithLast(groups, g) \in Seq(Groups(V)) /\ WithLast(groups, g) # <<>>
        /\ Last(WithLast(groups, g)) = g
        /\ Len(groups) \in DOMAIN groups /\ DOMAIN WithLast(groups, g) = DOMAIN groups
        /\ \A k \in DOMAIN groups : k # Len(groups) => WithLast(groups, g)[k] = groups[k]
        /\ WithLast(groups, g)[Len(groups)] = g
    BY <2>1, LastChanged
  <2> QED  BY <1>4, <1>7, <2>2
<1>9. o.allow = {} /\ o.disallow = {}  BY <1>1, <1>5 DEF HasRules, Groups
<1>10. \A a : NamedIn(after, a) <=> (NamedIn(groups, a) \/ a = v)
  BY <1>5, <1>6, <1>8 DEF NamedIn
<1>11. \A a, w : AllowedIn(after, a, w) <=> AllowedIn(groups, a, w)
  BY <1>5, <1>6, <1>8, <1>9 DEF AllowedIn
<1>12. \A a, w : DisallowedIn(after, a, w) <=> DisallowedIn(groups, a, w)
  BY <1>5, <1>6, <1>8, <1>9 DEF DisallowedIn
<1>13. \A a : OpenFor(lines, n + 1, a) <=> a \in g.agents
  BY <1>1, <1>2, <1>6, AfterAgent DEF Reads
<1>14. ~HasRules(g)  BY <1>6, <1>9 DEF HasRules
<1> QED
  BY <1>2, <1>8, <1>10, <1>11, <1>12, <1>13, <1>14, AfterAgent DEF Reads

\* The rules of one directive, behind a line with a rule.
LEMMA RuleAdded ==
  ASSUME NEW lines, NEW n \in Nat, IsRule(lines[n + 1]), NEW d
  PROVE  /\ lines[n + 1].directive = d =>
              \A a, w : RuleFor(lines, n + 1, a, d, w)
                <=> (RuleFor(lines, n, a, d, w) \/ (OpenFor(lines, n, a) /\ w = lines[n + 1].value))
         /\ lines[n + 1].directive # d =>
              \A a, w : RuleFor(lines, n + 1, a, d, w) <=> RuleFor(lines, n, a, d, w)
<1>1. \A a, w : RuleFor(lines, n + 1, a, d, w)
        <=> (RuleFor(lines, n, a, d, w)
             \/ (OpenFor(lines, n, a) /\ lines[n + 1].directive = d /\ lines[n + 1].value = w))
  BY AfterRule
<1> QED  BY <1>1

\* A rule joins the open group; one before any agent is for nobody.
LEMMA ReadsRule ==
  ASSUME NEW V, NEW lines, NEW n \in Nat, NEW groups \in Seq(Groups(V)), Reads(lines, n, groups),
         IsRule(lines[n + 1]), lines[n + 1].value \in V,
         NEW after, after = AddRule(groups, lines[n + 1])
  PROVE  after \in Seq(Groups(V)) /\ Reads(lines, n + 1, after)
<1>1. PICK line : line = lines[n + 1]  OBVIOUS
<1>2. PICK v : v = line.value  OBVIOUS
<1>3. PICK open : open = IF groups = <<>> THEN <<NewGroup>> ELSE groups  OBVIOUS
<1>4. open \in Seq(Groups(V)) /\ open # <<>>  BY <1>3, NewTyped
<1>5. PICK o : o = Last(open)  OBVIOUS
<1>6. PICK m : m = Len(open)  OBVIOUS
<1>7. o \in Groups(V) /\ o = open[m] /\ m \in DOMAIN open  BY <1>4, <1>5, <1>6 DEF Last
<1>8. /\ \A a : NamedIn(open, a) <=> NamedIn(groups, a)
      /\ \A a, w : AllowedIn(open, a, w) <=> AllowedIn(groups, a, w)
      /\ \A a, w : DisallowedIn(open, a, w) <=> DisallowedIn(groups, a, w)
      /\ \A a : a \in o.agents <=> OpenFor(lines, n, a)
  <2>1. CASE groups = <<>>
    <3>1. NewGroup.agents = {}  BY DEF NewGroup
    <3>2. open = <<NewGroup>> /\ o = NewGroup  BY <1>3, <1>5, <2>1 DEF Last
    <3>3. DOMAIN open = {1} /\ open[1] = NewGroup /\ DOMAIN groups = {}  BY <2>1, <3>2
    <3> QED  BY <2>1, <3>1, <3>2, <3>3 DEF NamedIn, AllowedIn, DisallowedIn, Reads
  <2>2. CASE groups # <<>>  BY <1>3, <1>5, <2>2 DEF Reads
  <2> QED  BY <2>1, <2>2
<1>9. v \in V /\ line.directive \in {"allow", "disallow"}  BY <1>1, <1>2 DEF IsRule
<1>10. CASE line.directive = "allow"
  <2>1. PICK g : g = [o EXCEPT !.allow = o.allow \cup {v}]  OBVIOUS
  <2>2. g \in Groups(V) /\ g.agents = o.agents /\ g.allow = o.allow \cup {v} /\ g.disallow = o.disallow
    BY <1>7, <1>9, <2>1 DEF Groups
  <2>3. after = WithLast(open, g)
    BY <1>1, <1>2, <1>3, <1>6, <1>7, <1>10, <2>1 DEF AddRule, WithLast
  <2>4. /\ after \in Seq(Groups(V)) /\ after # <<>> /\ Last(after) = g
        /\ DOMAIN after = DOMAIN open /\ after[m] = g
        /\ \A k \in DOMAIN open : k # m => after[k] = open[k]
    <3>1. g \in Groups(V)  BY <2>2
    <3>2. /\ WithLast(open, g) \in Seq(Groups(V)) /\ WithLast(open, g) # <<>>
          /\ Last(WithLast(open, g)) = g
          /\ Len(open) \in DOMAIN open /\ DOMAIN WithLast(open, g) = DOMAIN open
          /\ \A k \in DOMAIN open : k # Len(open) => WithLast(open, g)[k] = open[k]
          /\ WithLast(open, g)[Len(open)] = g
      BY <1>4, <3>1, LastChanged
    <3> QED  BY <1>6, <2>3, <3>2
  <2>5. \A a : NamedIn(after, a) <=> NamedIn(open, a)  BY <1>7, <2>2, <2>4 DEF NamedIn
  <2>6. \A a, w : AllowedIn(after, a, w) <=> (AllowedIn(open, a, w) \/ (a \in o.agents /\ w = v))
    BY <1>7, <2>2, <2>4 DEF AllowedIn
  <2>7. \A a, w : DisallowedIn(after, a, w) <=> DisallowedIn(open, a, w)
    BY <1>7, <2>2, <2>4 DEF DisallowedIn
  <2>8. HasRules(g)  BY <2>2 DEF HasRules
  <2>9. \A a, w : RuleFor(lines, n + 1, a, "allow", w)
          <=> (RuleFor(lines, n, a, "allow", w) \/ (OpenFor(lines, n, a) /\ w = v))
    BY <1>1, <1>2, <1>10, RuleAdded
  <2>10. \A a, w : RuleFor(lines, n + 1, a, "disallow", w) <=> RuleFor(lines, n, a, "disallow", w)
    BY <1>1, <1>10, RuleAdded
  <2>11. \A a : NamedIn(after, a) <=> NamedBy(lines, n + 1, a)  BY <1>8, <2>5, AfterRule DEF Reads
  <2>12. \A a, w : AllowedIn(after, a, w) <=> RuleFor(lines, n + 1, a, "allow", w)
    BY <1>8, <2>6, <2>7, <2>9, <2>10 DEF Reads
  <2>13. \A a, w : DisallowedIn(after, a, w) <=> RuleFor(lines, n + 1, a, "disallow", w)
    BY <1>8, <2>6, <2>7, <2>9, <2>10 DEF Reads
  <2>14. \A a : OpenFor(lines, n + 1, a) <=> (after # <<>> /\ a \in Last(after).agents)
    BY <1>8, <2>2, <2>4, AfterRule
  <2>15. EndsInRule(lines, n + 1) <=> (after # <<>> /\ HasRules(Last(after)))
    BY <2>4, <2>8, AfterRule
  <2> QED  BY <2>4, <2>11, <2>12, <2>13, <2>14, <2>15 DEF Reads
<1>11. CASE line.directive = "disallow"
  <2>1. PICK g : g = [o EXCEPT !.disallow = o.disallow \cup {v}]  OBVIOUS
  <2>2. g \in Groups(V) /\ g.agents = o.agents /\ g.disallow = o.disallow \cup {v} /\ g.allow = o.allow
    BY <1>7, <1>9, <2>1 DEF Groups
  <2>3. after = WithLast(open, g)
    BY <1>1, <1>2, <1>3, <1>6, <1>7, <1>11, <2>1 DEF AddRule, WithLast
  <2>4. /\ after \in Seq(Groups(V)) /\ after # <<>> /\ Last(after) = g
        /\ DOMAIN after = DOMAIN open /\ after[m] = g
        /\ \A k \in DOMAIN open : k # m => after[k] = open[k]
    <3>1. g \in Groups(V)  BY <2>2
    <3>2. /\ WithLast(open, g) \in Seq(Groups(V)) /\ WithLast(open, g) # <<>>
          /\ Last(WithLast(open, g)) = g
          /\ Len(open) \in DOMAIN open /\ DOMAIN WithLast(open, g) = DOMAIN open
          /\ \A k \in DOMAIN open : k # Len(open) => WithLast(open, g)[k] = open[k]
          /\ WithLast(open, g)[Len(open)] = g
      BY <1>4, <3>1, LastChanged
    <3> QED  BY <1>6, <2>3, <3>2
  <2>5. \A a : NamedIn(after, a) <=> NamedIn(open, a)  BY <1>7, <2>2, <2>4 DEF NamedIn
  <2>6. \A a, w : DisallowedIn(after, a, w)
          <=> (DisallowedIn(open, a, w) \/ (a \in o.agents /\ w = v))
    BY <1>7, <2>2, <2>4 DEF DisallowedIn
  <2>7. \A a, w : AllowedIn(after, a, w) <=> AllowedIn(open, a, w)
    BY <1>7, <2>2, <2>4 DEF AllowedIn
  <2>8. HasRules(g)  BY <2>2 DEF HasRules
  <2>9. \A a, w : RuleFor(lines, n + 1, a, "disallow", w)
          <=> (RuleFor(lines, n, a, "disallow", w) \/ (OpenFor(lines, n, a) /\ w = v))
    BY <1>1, <1>2, <1>11, RuleAdded
  <2>10. \A a, w : RuleFor(lines, n + 1, a, "allow", w) <=> RuleFor(lines, n, a, "allow", w)
    BY <1>1, <1>11, RuleAdded
  <2>11. \A a : NamedIn(after, a) <=> NamedBy(lines, n + 1, a)  BY <1>8, <2>5, AfterRule DEF Reads
  <2>12. \A a, w : AllowedIn(after, a, w) <=> RuleFor(lines, n + 1, a, "allow", w)
    BY <1>8, <2>6, <2>7, <2>9, <2>10 DEF Reads
  <2>13. \A a, w : DisallowedIn(after, a, w) <=> RuleFor(lines, n + 1, a, "disallow", w)
    BY <1>8, <2>6, <2>7, <2>9, <2>10 DEF Reads
  <2>14. \A a : OpenFor(lines, n + 1, a) <=> (after # <<>> /\ a \in Last(after).agents)
    BY <1>8, <2>2, <2>4, AfterRule
  <2>15. EndsInRule(lines, n + 1) <=> (after # <<>> /\ HasRules(Last(after)))
    BY <2>4, <2>8, AfterRule
  <2> QED  BY <2>4, <2>11, <2>12, <2>13, <2>14, <2>15 DEF Reads
<1> QED  BY <1>9, <1>10, <1>11

-----------------------------------------------------------------------------
(* The groups of a whole text.                                             *)

\* The values of the lines.
Values(lines) == {lines[i].value : i \in DOMAIN lines}

LEMMA LinesTyped ==
  ASSUME NEW lines, IsText(lines)
  PROVE  /\ Len(lines) \in Nat /\ DOMAIN lines = 1..Len(lines)
         /\ \A i \in 1..Len(lines) : lines[i].value \in Values(lines)
<1>1. lines \in Seq(ToSet(lines))  BY DEF IsText
<1> QED  BY <1>1 DEF Values

LEMMA ParseTyped ==
  ASSUME NEW lines, IsText(lines), NEW i \in 1..Len(lines), NEW groups \in Seq(Groups(Values(lines)))
  PROVE  ParseLine(groups, lines[i]) \in Seq(Groups(Values(lines)))
<1>1. PICK V : V = Values(lines)  OBVIOUS
<1>2. PICK line : line = lines[i]  OBVIOUS
<1>3. line.value \in V  BY <1>1, <1>2, LinesTyped
<1>4. groups \in Seq(Groups(V))  BY <1>1
<1>5. CASE IsAgent(line)
  <2>1. CASE groups = <<>> \/ Last(groups).allow \cup Last(groups).disallow # {}
    <3>1. PICK g : g = [NewGroup EXCEPT !.agents = {line.value}]  OBVIOUS
    <3>2. g \in Groups(V)  BY <1>3, <3>1 DEF NewGroup, Groups
    <3>3. ParseLine(groups, line) = Append(groups, g)
      BY <1>5, <2>1, <3>1 DEF ParseLine, AddAgent
    <3> QED  BY <1>1, <1>2, <1>4, <3>2, <3>3
  <2>2. CASE ~(groups = <<>> \/ Last(groups).allow \cup Last(groups).disallow # {})
    <3>1. PICK o : o = groups[Len(groups)]  OBVIOUS
    <3>2. o \in Groups(V)  BY <1>4, <2>2, <3>1
    <3>3. PICK g : g = [o EXCEPT !.agents = o.agents \cup {line.value}]  OBVIOUS
    <3>4. g \in Groups(V)  BY <1>3, <3>2, <3>3 DEF Groups
    <3>5. ParseLine(groups, line) = WithLast(groups, g)
      BY <1>5, <2>2, <3>1, <3>3 DEF ParseLine, AddAgent, WithLast
    <3>6. WithLast(groups, g) \in Seq(Groups(V))  BY <1>4, <2>2, <3>4, LastChanged
    <3> QED  BY <1>1, <1>2, <3>5, <3>6
  <2> QED  BY <2>1, <2>2
<1>6. CASE ~IsAgent(line) /\ IsRule(line)
  <2>1. PICK open : open = IF groups = <<>> THEN <<NewGroup>> ELSE groups  OBVIOUS
  <2>2. open \in Seq(Groups(V)) /\ open # <<>>  BY <1>4, <2>1, NewTyped
  <2>3. PICK o : o = open[Len(open)]  OBVIOUS
  <2>4. o \in Groups(V)  BY <2>2, <2>3
  <2>5. CASE line.directive = "allow"
    <3>1. PICK g : g = [o EXCEPT !.allow = o.allow \cup {line.value}]  OBVIOUS
    <3>2. g \in Groups(V)  BY <1>3, <2>4, <3>1 DEF Groups
    <3>3. ParseLine(groups, line) = WithLast(open, g)
      BY <1>6, <2>1, <2>3, <2>5, <3>1 DEF ParseLine, AddRule, WithLast
    <3>4. WithLast(open, g) \in Seq(Groups(V))  BY <2>2, <3>2, LastChanged
    <3> QED  BY <1>1, <1>2, <3>3, <3>4
  <2>6. CASE line.directive # "allow"
    <3>1. PICK g : g = [o EXCEPT !.disallow = o.disallow \cup {line.value}]  OBVIOUS
    <3>2. g \in Groups(V)  BY <1>3, <2>4, <3>1 DEF Groups
    <3>3. ParseLine(groups, line) = WithLast(open, g)
      BY <1>6, <2>1, <2>3, <2>6, <3>1 DEF ParseLine, AddRule, WithLast
    <3>4. WithLast(open, g) \in Seq(Groups(V))  BY <2>2, <3>2, LastChanged
    <3> QED  BY <1>1, <1>2, <3>3, <3>4
  <2> QED  BY <2>5, <2>6
<1>7. CASE ~IsAgent(line) /\ ~IsRule(line)  BY <1>1, <1>2, <1>4, <1>7 DEF ParseLine
<1> QED  BY <1>5, <1>6, <1>7

LEMMA ReadsLine ==
  ASSUME NEW lines, IsText(lines), NEW n \in Nat, n + 1 \in 1..Len(lines),
         NEW groups \in Seq(Groups(Values(lines))), Reads(lines, n, groups)
  PROVE  Reads(lines, n + 1, ParseLine(groups, lines[n + 1]))
<1>1. PICK V : V = Values(lines)  OBVIOUS
<1>2. lines[n + 1].value \in V /\ groups \in Seq(Groups(V))  BY <1>1, LinesTyped
<1>3. PICK after : after = ParseLine(groups, lines[n + 1])  OBVIOUS
<1>4. CASE IsAgent(lines[n + 1])
  <2>1. CASE groups = <<>> \/ HasRules(Last(groups))
    <3>1. after = Append(groups, [NewGroup EXCEPT !.agents = {lines[n + 1].value}])
      BY <1>3, <1>4, <2>1 DEF ParseLine, AddAgent, HasRules
    <3> QED  BY <1>2, <1>3, <1>4, <2>1, <3>1, ReadsNewAgent
  <2>2. CASE groups # <<>> /\ ~HasRules(Last(groups))
    <3>1. after = [groups EXCEPT ![Len(groups)].agents = @ \cup {lines[n + 1].value}]
      BY <1>3, <1>4, <2>2 DEF ParseLine, AddAgent, HasRules
    <3> QED  BY <1>2, <1>3, <1>4, <2>2, <3>1, ReadsOldAgent
  <2> QED  BY <2>1, <2>2
<1>5. CASE IsRule(lines[n + 1])
  <2>1. ~IsAgent(lines[n + 1])  BY <1>5, NotBoth
  <2>2. after = AddRule(groups, lines[n + 1])  BY <1>3, <1>5, <2>1 DEF ParseLine
  <2> QED  BY <1>2, <1>3, <1>5, <2>2, ReadsRule
<1>6. CASE ~IsAgent(lines[n + 1]) /\ ~IsRule(lines[n + 1])
  <2>1. after = groups  BY <1>3, <1>6 DEF ParseLine
  <2> QED  BY <1>3, <1>6, <2>1, ReadsOther
<1> QED  BY <1>4, <1>5, <1>6

\* The parser's groups say of every agent and value what the lines say.
LEMMA GroupsRead ==
  ASSUME NEW lines, IsText(lines)
  PROVE  /\ RuleGroups(lines) \in Seq(Groups(Values(lines)))
         /\ Reads(lines, Len(lines), RuleGroups(lines))
<1>1. PICK N \in Nat : N = Len(lines)  BY LinesTyped
<1>2. PICK V : V = Seq(Groups(Values(lines)))  OBVIOUS
<1> DEFINE G == [n \in 1..N |-> [groups \in V |-> ParseLine(groups, lines[n])]]
           Equation(after) ==
             after = [n \in 0..Len(lines) |->
                        IF n = 0 THEN <<>> ELSE ParseLine(after[n - 1], lines[n])]
<1>3. G \in [1..N -> [V -> V]]  BY <1>1, <1>2, ParseTyped
<1>4. <<>> \in V  BY <1>2
<1>5. PICK f \in [0..N -> V] : f[0] = <<>> /\ \A n \in 1..N : f[n] = G[n][f[n - 1]]
  <2>1. PICK H : H = G  OBVIOUS
  <2>2. PICK a : a = <<>>  OBVIOUS
  <2>3. a \in V /\ H \in [1..N -> [V -> V]]  BY <1>3, <1>4, <2>1, <2>2
  <2> HIDE DEF G
  <2>4. Successions(N, V, a, H) # {}  BY <2>3, Successive
  <2> QED  BY <2>1, <2>2, <2>4 DEF Successions
<1>6. ASSUME NEW n \in 1..N PROVE f[n - 1] \in V /\ f[n] = ParseLine(f[n - 1], lines[n])
  <2>1. n - 1 \in 0..N  OBVIOUS
  <2> QED  BY <1>5, <2>1
<1>7. Equation(f)
  <2>1. ASSUME NEW n \in 0..N
        PROVE  f[n] = IF n = 0 THEN <<>> ELSE ParseLine(f[n - 1], lines[n])
    <3>1. n = 0 \/ n \in 1..N  OBVIOUS
    <3> QED  BY <1>5, <1>6, <3>1
  <2> QED  BY <1>1, <2>1
<1>8. PICK after : after = CHOOSE x : Equation(x)  OBVIOUS
<1>9. Equation(after)
  <2> HIDE DEF Equation
  <2> QED  BY <1>7, <1>8
<1>10. RuleGroups(lines) = after[N]  BY <1>1, <1>8 DEF RuleGroups
<1>11. after[0] = <<>> /\ \A n \in 1..N : after[n] = ParseLine(after[n - 1], lines[n])
  BY <1>1, <1>9
<1> DEFINE S == {n \in 0..N : after[n] \in V /\ Reads(lines, n, after[n])}
<1>12. 0 \in S  BY <1>4, <1>11, ReadsNothing
<1>13. ASSUME NEW n \in 0..N, n \in S, n < N PROVE n + 1 \in S
  <2>1. n + 1 \in 1..N /\ (n + 1) - 1 = n /\ n \in Nat  BY <1>13
  <2>2. PICK g : g = after[n]  OBVIOUS
  <2>3. after[n + 1] = ParseLine(g, lines[n + 1])  BY <1>11, <2>1, <2>2
  <2>4. g \in V /\ Reads(lines, n, g)  BY <1>13, <2>2
  <2>5. ParseLine(g, lines[n + 1]) \in V  BY <1>1, <1>2, <2>1, <2>4, ParseTyped
  <2>6. Reads(lines, n + 1, ParseLine(g, lines[n + 1]))
    BY <1>1, <1>2, <2>1, <2>4, ReadsLine
  <2> QED  BY <2>1, <2>3, <2>5, <2>6
<1>14. 0..N \subseteq S
  <2> HIDE DEF S
  <2> QED  BY <1>12, <1>13, Counting
<1>15. N \in S  BY <1>14
<1> QED  BY <1>1, <1>2, <1>10, <1>15

-----------------------------------------------------------------------------
(* The evaluation of a path.                                               *)

\* The rules for an agent that match a path, as the standard reads the lines.
LEMMA RulesRead ==
  ASSUME NEW lines, IsText(lines), NEW a, NEW d, d \in {"allow", "disallow"}, NEW v
  PROVE  RuleFor(lines, Len(lines), a, d, v)
           <=> \E r \in RulesFor(lines, a) : r.directive = d /\ r.value = v
<1>1. DOMAIN lines = 1..Len(lines)  BY LinesTyped
<1> QED  BY <1>1 DEF RuleFor, RulesFor

LEMMA RuleTyped ==
  ASSUME NEW lines, IsText(lines), NEW a, NEW r \in RulesFor(lines, a)
  PROVE  r.value \in Seq(STRING) /\ r.directive \in {"allow", "disallow"}
<1>1. PICK i \in DOMAIN lines : r = lines[i] /\ IsRule(lines[i])  BY DEF RulesFor, Governs
<1> QED  BY <1>1 DEF IsText, IsRule

\* The groups evaluated are those of one agent, and their rules are its rules.
LEMMA MatchingRead ==
  ASSUME NEW lines, IsText(lines), NEW a,
         NEW matching, matching = {g \in ToSet(RuleGroups(lines)) : a \in g.agents}
  PROVE  /\ matching # {} <=> NamedBy(lines, Len(lines), a)
         /\ \A v : v \in UNION {g.allow : g \in matching} <=> RuleFor(lines, Len(lines), a, "allow", v)
         /\ \A v : v \in UNION {g.disallow : g \in matching}
              <=> RuleFor(lines, Len(lines), a, "disallow", v)
<1>1. PICK groups : groups = RuleGroups(lines)  OBVIOUS
<1>2. Reads(lines, Len(lines), groups)  BY <1>1, GroupsRead
<1>3. matching # {} <=> NamedIn(groups, a)  BY <1>1 DEF NamedIn, ToSet
<1>4. \A v : v \in UNION {g.allow : g \in matching} <=> AllowedIn(groups, a, v)
  BY <1>1 DEF AllowedIn, ToSet
<1>5. \A v : v \in UNION {g.disallow : g \in matching} <=> DisallowedIn(groups, a, v)
  BY <1>1 DEF DisallowedIn, ToSet
<1> QED  BY <1>2, <1>3, <1>4, <1>5 DEF Reads

\* The longest of the patterns that match is one of them, unless none does.
LEMMA LongestRead ==
  ASSUME NEW patterns, NEW path \in Seq(STRING), \A p \in patterns : p \in Seq(STRING)
  PROVE  /\ LongestOf(Matching(patterns, path)) \in Nat
         /\ \A p \in Matching(patterns, path) :
              0 < Len(p) /\ Len(p) <= LongestOf(Matching(patterns, path)) /\ Len(p) \in Nat
         /\ LongestOf(Matching(patterns, path)) # 0 =>
              \E p \in Matching(patterns, path) : Len(p) = LongestOf(Matching(patterns, path))
<1>1. PICK M : M = Matching(patterns, path)  OBVIOUS
<1>2. ASSUME NEW p \in M PROVE Len(p) \in 0..Len(path) /\ Len(p) \in Nat /\ 0 < Len(p)
  <2>1. p \in Seq(STRING) /\ p # <<>> /\ Len(p) <= Len(path)  BY <1>1 DEF Matching, IsPrefix
  <2>2. Len(p) \in Nat /\ Len(path) \in Nat /\ Len(p) # 0  BY <2>1
  <2> QED  BY <2>1, <2>2
<1>3. CASE M = {}  BY <1>1, <1>3 DEF LongestOf
<1>4. CASE M # {}
  <2>1. PICK S : S = {Len(p) : p \in M}  OBVIOUS
  <2>2. Len(path) \in Nat /\ S \subseteq 0..Len(path) /\ S # {}  BY <1>2, <1>4, <2>1
  <2>3. Max(S) \in S /\ \A y \in S : Max(S) >= y  BY <2>2, GreatestOf
  <2>4. LongestOf(M) = Max(S)  BY <1>4, <2>1 DEF LongestOf
  <2>5. LongestOf(M) \in Nat /\ \E p \in M : Len(p) = LongestOf(M)  BY <2>1, <2>2, <2>3, <2>4
  <2>6. \A p \in M : Len(p) <= LongestOf(M)  BY <1>2, <2>1, <2>2, <2>3, <2>4
  <2> QED  BY <1>1, <1>2, <2>5, <2>6
<1> QED  BY <1>3, <1>4

\* The crawler is kept from exactly the paths the standard forbids, whatever the
\* lines of the robots.txt and their order (parse_robots_txt, _best_matching_groups,
\* evaluate_robots_policy).
THEOREM OutcomeIsStandard ==
  ASSUME NEW lines, IsText(lines), NEW path \in Seq(STRING)
  PROVE  Outcome(RuleGroups(lines), path) = "disallowed" <=> Forbidden(lines, path)
<1>1. PICK N \in Nat : N = Len(lines) /\ DOMAIN lines = 1..N  BY LinesTyped
<1>2. PICK agent : agent = IF NamedBy(lines, N, UserAgent) THEN UserAgent ELSE Anyone  OBVIOUS
<1>3. PICK matching : matching = {g \in ToSet(RuleGroups(lines)) : agent \in g.agents}  OBVIOUS
<1>4. MatchingGroups(RuleGroups(lines)) = matching
  <2>1. PICK exact : exact = {g \in ToSet(RuleGroups(lines)) : UserAgent \in g.agents}  OBVIOUS
  <2>2. exact # {} <=> NamedBy(lines, N, UserAgent)  BY <1>1, <2>1, MatchingRead
  <2> QED  BY <1>2, <1>3, <2>1, <2>2 DEF MatchingGroups
<1>5. PICK allows : allows = UNION {g.allow : g \in matching}  OBVIOUS
<1>6. PICK disallows : disallows = UNION {g.disallow : g \in matching}  OBVIOUS
<1>7. PICK rules : rules = RulesFor(lines, agent)  OBVIOUS
<1>8. /\ matching # {} <=> NamedBy(lines, N, agent)
      /\ \A v : v \in allows <=> \E r \in rules : r.directive = "allow" /\ r.value = v
      /\ \A v : v \in disallows <=> \E r \in rules : r.directive = "disallow" /\ r.value = v
  <2>1. matching # {} <=> NamedBy(lines, N, agent)  BY <1>1, <1>3, MatchingRead
  <2>2. \A v : v \in allows <=> RuleFor(lines, N, agent, "allow", v)
    BY <1>1, <1>3, <1>5, MatchingRead
  <2>3. \A v : v \in disallows <=> RuleFor(lines, N, agent, "disallow", v)
    BY <1>1, <1>3, <1>6, MatchingRead
  <2>4. \A v : RuleFor(lines, N, agent, "allow", v)
          <=> \E r \in rules : r.directive = "allow" /\ r.value = v
    BY <1>1, <1>7, RulesRead
  <2>5. \A v : RuleFor(lines, N, agent, "disallow", v)
          <=> \E r \in rules : r.directive = "disallow" /\ r.value = v
    BY <1>1, <1>7, RulesRead
  <2> QED  BY <2>1, <2>2, <2>3, <2>4, <2>5
<1>9. \A r \in rules : r.value \in Seq(STRING) /\ r.directive \in {"allow", "disallow"}
  BY <1>7, RuleTyped
<1>10. \A p \in allows \cup disallows : p \in Seq(STRING)  BY <1>8, <1>9
<1>11. PICK A : A = Matching(allows, path)  OBVIOUS
<1>12. PICK D : D = Matching(disallows, path)  OBVIOUS
<1>13. PICK a : a = LongestOf(A)  OBVIOUS
<1>14. PICK d : d = LongestOf(D)  OBVIOUS
<1>15. /\ a \in Nat /\ \A p \in A : 0 < Len(p) /\ Len(p) <= a /\ Len(p) \in Nat
       /\ a # 0 => \E p \in A : Len(p) = a
  BY <1>10, <1>11, <1>13, LongestRead
<1>16. /\ d \in Nat /\ \A p \in D : 0 < Len(p) /\ Len(p) <= d /\ Len(p) \in Nat
       /\ d # 0 => \E p \in D : Len(p) = d
  BY <1>10, <1>12, <1>14, LongestRead
<1>17. Outcome(RuleGroups(lines), path) = "disallowed" <=> (matching # {} /\ d > a)
  BY <1>4, <1>5, <1>6, <1>11, <1>12, <1>13, <1>14 DEF Outcome
<1>18. Forbidden(lines, path)
         <=> \E r \in rules :
               /\ r.value # <<>> /\ IsPrefix(r.value, path) /\ r.directive = "disallow"
               /\ \A s \in rules : s.value # <<>> /\ IsPrefix(s.value, path) /\ s.directive = "allow"
                    => Len(s.value) < Len(r.value)
  <2>1. (\E j \in DOMAIN lines : IsAgent(lines[j]) /\ lines[j].value = UserAgent)
          <=> NamedBy(lines, N, UserAgent)
    BY <1>1 DEF NamedBy
  <2>2. PICK name : name = IF \E j \in DOMAIN lines : IsAgent(lines[j]) /\ lines[j].value = UserAgent
                           THEN UserAgent ELSE Anyone
    OBVIOUS
  <2>3. name = agent  BY <1>2, <2>1, <2>2
  <2>4. PICK applying : applying = {r \in rules : r.value # <<>> /\ IsPrefix(r.value, path)}  OBVIOUS
  <2>5. Forbidden(lines, path)
          <=> \E r \in applying : /\ r.directive = "disallow"
                                  /\ \A s \in applying : s.directive = "allow" => Len(s.value) < Len(r.value)
    BY <1>7, <2>2, <2>3, <2>4 DEF Forbidden
  <2> QED  BY <2>4, <2>5
<1>19. ASSUME Forbidden(lines, path) PROVE matching # {} /\ d > a
  <2>1. PICK r \in rules :
          /\ r.value # <<>> /\ IsPrefix(r.value, path) /\ r.directive = "disallow"
          /\ \A s \in rules : s.value # <<>> /\ IsPrefix(s.value, path) /\ s.directive = "allow"
               => Len(s.value) < Len(r.value)
    BY <1>18, <1>19
  <2>2. r.value \in D  BY <1>8, <1>12, <2>1 DEF Matching
  <2>3. Len(r.value) \in Nat /\ 0 < Len(r.value) /\ Len(r.value) <= d  BY <1>16, <2>2
  <2>4. \A p \in A : Len(p) < Len(r.value)  BY <1>8, <1>11, <2>1 DEF Matching
  <2>5. a < Len(r.value)
    <3>1. CASE a = 0  BY <2>3, <3>1
    <3>2. CASE a # 0
      <4>1. PICK p \in A : Len(p) = a  BY <1>15, <3>2
      <4> QED  BY <2>4, <4>1
    <3> QED  BY <3>1, <3>2
  <2>6. matching # {}  BY <1>6, <1>8, <2>1
  <2> QED  BY <1>15, <1>16, <2>3, <2>5, <2>6
<1>20. ASSUME matching # {}, d > a PROVE Forbidden(lines, path)
  <2>1. PICK p \in D : Len(p) = d  BY <1>15, <1>16, <1>20
  <2>2. p \in disallows /\ p # <<>> /\ IsPrefix(p, path)  BY <1>12 DEF Matching
  <2>3. PICK r \in rules : r.directive = "disallow" /\ r.value = p  BY <1>8, <2>2
  <2>4. ASSUME NEW s \in rules, s.value # <<>>, IsPrefix(s.value, path), s.directive = "allow"
        PROVE  Len(s.value) < Len(r.value)
    <3>1. s.value \in A  BY <1>8, <1>11, <2>4 DEF Matching
    <3>2. Len(s.value) <= a /\ Len(s.value) \in Nat  BY <1>15, <3>1
    <3> QED  BY <1>15, <1>16, <1>20, <2>1, <2>3, <3>2
  <2> QED  BY <1>18, <2>2, <2>3, <2>4
<1> QED  BY <1>17, <1>19, <1>20

-----------------------------------------------------------------------------
(* The crawl delays.                                                       *)

Delays(V) == UNION {[A -> Int] : A \in SUBSET V}
DelayRecords(V) == [delays: Delays(V), agents: SUBSET V, open: BOOLEAN]

LEMMA DelayStepTyped ==
  ASSUME NEW V, NEW acc \in DelayRecords(V), NEW line, line.value \in V,
         line.directive = "crawl-delay" => line.value \in Int
  PROVE  DelayStep(acc, line) \in DelayRecords(V)
<1>1. CASE IsAgent(line)
  <2>1. PICK agents : agents = (IF acc.open THEN acc.agents ELSE {}) \cup {line.value}  OBVIOUS
  <2>2. agents \in SUBSET V  BY <2>1 DEF DelayRecords
  <2>3. line.directive # "crawl-delay"  BY <1>1 DEF IsAgent
  <2>4. DelayStep(acc, line) = [acc EXCEPT !.agents = agents, !.open = TRUE]
    BY <1>1, <2>1, <2>3 DEF DelayStep
  <2> QED  BY <2>2, <2>4 DEF DelayRecords
<1>2. CASE ~IsAgent(line) /\ line.directive = "crawl-delay"
  <2>1. PICK d : d = line.value  OBVIOUS
  <2>2. PICK A : A = acc.agents  OBVIOUS
  <2>3. PICK old : old = acc.delays  OBVIOUS
  <2>4. PICK new : new = Given(old, A, d)  OBVIOUS
  <2>5. PICK B \in SUBSET V : old \in [B -> Int]  BY <2>3 DEF DelayRecords, Delays
  <2>6. A \in SUBSET V /\ d \in Int  BY <1>2, <2>1, <2>2 DEF DelayRecords
  <2>7. new \in [A \cup B -> Int]  BY <2>4, <2>5, <2>6 DEF Given
  <2>8. new \in Delays(V)
    <3>1. A \cup B \in SUBSET V  BY <2>5, <2>6
    <3> QED  BY <2>7, <3>1 DEF Delays
  <2>9. DelayStep(acc, line) = [acc EXCEPT !.delays = new, !.open = FALSE]
    BY <1>2, <2>1, <2>2, <2>3, <2>4 DEF DelayStep
  <2> QED  BY <2>8, <2>9 DEF DelayRecords
<1>3. CASE ~IsAgent(line) /\ line.directive # "crawl-delay"
  <2>1. DelayStep(acc, line) = [acc EXCEPT !.open = FALSE]  BY <1>3 DEF DelayStep
  <2> QED  BY <2>1 DEF DelayRecords
<1> QED  BY <1>1, <1>2, <1>3

LEMMA DelaysTyped ==
  ASSUME NEW lines, IsText(lines)
  PROVE  CrawlDelays(lines) \in Delays(Values(lines))
<1>1. PICK N : N \in Nat /\ N = Len(lines) /\ DOMAIN lines = 1..N  BY LinesTyped
<1>2. PICK W : W = Values(lines)  OBVIOUS
<1>3. PICK V : V = DelayRecords(W)  OBVIOUS
<1> DEFINE G == [n \in 1..N |-> [acc \in V |-> DelayStep(acc, lines[n])]]
           Equation(after) ==
             after = [n \in 0..Len(lines) |->
                        IF n = 0 THEN NoDelays ELSE DelayStep(after[n - 1], lines[n])]
<1>4. G \in [1..N -> [V -> V]]
  <2>1. ASSUME NEW n \in 1..N, NEW acc \in V PROVE DelayStep(acc, lines[n]) \in V
    <3>1. PICK line : line = lines[n]  OBVIOUS
    <3>2. line.value \in W /\ (line.directive = "crawl-delay" => line.value \in Int)
      BY <1>1, <1>2, <3>1, LinesTyped DEF IsText
    <3> QED  BY <1>3, <3>1, <3>2, DelayStepTyped
  <2> QED  BY <2>1
<1>5. NoDelays \in V
  <2>1. <<>> \in [{} -> Int]  OBVIOUS
  <2>2. <<>> \in Delays(W)  BY <2>1 DEF Delays
  <2> QED  BY <1>3, <2>2 DEF NoDelays, DelayRecords
<1>6. PICK f \in [0..N -> V] : f[0] = NoDelays /\ \A n \in 1..N : f[n] = G[n][f[n - 1]]
  <2>1. PICK H : H = G  OBVIOUS
  <2>2. PICK a : a = NoDelays  OBVIOUS
  <2>3. a \in V /\ H \in [1..N -> [V -> V]]  BY <1>4, <1>5, <2>1, <2>2
  <2> HIDE DEF G
  <2>4. Successions(N, V, a, H) # {}  BY <1>1, <2>3, Successive
  <2> QED  BY <2>1, <2>2, <2>4 DEF Successions
<1>7. ASSUME NEW n \in 1..N PROVE f[n - 1] \in V /\ f[n] = DelayStep(f[n - 1], lines[n])
  <2>1. n - 1 \in 0..N  BY <1>1
  <2> QED  BY <1>6, <2>1
<1>8. Equation(f)
  <2>1. ASSUME NEW n \in 0..N
        PROVE  f[n] = IF n = 0 THEN NoDelays ELSE DelayStep(f[n - 1], lines[n])
    <3>1. n = 0 \/ n \in 1..N  BY <1>1
    <3> QED  BY <1>6, <1>7, <3>1
  <2> QED  BY <1>1, <2>1
<1>9. PICK after : after = CHOOSE x : Equation(x)  OBVIOUS
<1>10. Equation(after)
  <2> HIDE DEF Equation
  <2> QED  BY <1>8, <1>9
<1>11. CrawlDelays(lines) = after[N].delays  BY <1>1, <1>9 DEF CrawlDelays
<1>12. after[0] = NoDelays /\ \A n \in 1..N : after[n] = DelayStep(after[n - 1], lines[n])
  BY <1>1, <1>10
<1> DEFINE S == {n \in 0..N : after[n] \in V}
<1>13. 0 \in S  BY <1>1, <1>5, <1>12
<1>14. ASSUME NEW n \in 0..N, n \in S, n < N PROVE n + 1 \in S
  <2>1. n + 1 \in 1..N /\ (n + 1) - 1 = n /\ n + 1 \in 0..N  BY <1>1, <1>14
  <2>2. PICK acc : acc = after[n]  OBVIOUS
  <2>3. after[n + 1] = DelayStep(acc, lines[n + 1])  BY <1>12, <2>1, <2>2
  <2>4. acc \in V  BY <1>14, <2>2
  <2>5. DelayStep(acc, lines[n + 1]) \in V  BY <1>4, <2>1, <2>4
  <2> QED  BY <2>1, <2>3, <2>5
<1>15. 0..N \subseteq S
  <2> HIDE DEF S
  <2> QED  BY <1>1, <1>13, <1>14, Counting
<1>16. after[N] \in V  BY <1>1, <1>15
<1> QED  BY <1>2, <1>3, <1>11, <1>16 DEF DelayRecords

\* The delay of a policy is a number or none.
LEMMA PolicyDelay ==
  ASSUME NEW lines, IsText(lines), NEW path, NEW maxDelay \in Int
  PROVE  Policy(lines, path, maxDelay).delay \in Int \cup {NoDelay}
<1>1. PICK delays : delays = CrawlDelays(lines)  OBVIOUS
<1>2. \A a \in DOMAIN delays : delays[a] \in Int  BY <1>1, DelaysTyped DEF Delays
<1>3. PICK d : d = MatchedDelay(delays)  OBVIOUS
<1>4. d \in Int \cup {NoDelay}  BY <1>2, <1>3 DEF MatchedDelay
<1>5. Policy(lines, path, maxDelay).delay \in {NoDelay, maxDelay, d}
  BY <1>1, <1>3 DEF Policy
<1> QED  BY <1>4, <1>5

-----------------------------------------------------------------------------
(* The shape of the state.                                                 *)

BodyOrNone == {NoBody} \cup BodyIds
TargetStatuses == {"none", "queued", "blocked_by_robots"} \cup DoneStatuses \cup FailedStatuses
PageRecords ==
  [version: Nat, status: {"none"} \cup DoneStatuses \cup FailedStatuses,
   etag: BodyOrNone, hashes: BodyOrNone, content: [Kinds -> BodyOrNone],
   unchangedFrom: [run: Nat, version: Nat], served: BodyOrNone]
LastAsked == {"robots", "single", "several", "failed"}
JobRecords ==
  [run: Nat, todo: Seq(Targets), force: BOOLEAN, robots: {Unread} \cup DOMAIN RobotsFiles,
   asked: BOOLEAN, last: LastAsked]
FetchRecords == [attempt: Int, hops: Nat, at: Targets \cup {Elsewhere}, sleep: Int, etag: BodyOrNone]

Typed ==
  /\ scenario \in Scenarios /\ runs \in 0..MaxRuns
  /\ pc \in {"idle", "target", "pacing", "answer", "backoff"}
  /\ job \in JobRecords /\ fetch \in FetchRecords /\ since \in Int
  /\ targets \in [Runs -> [Targets -> TargetStatuses]]
  /\ pages \in [Runs -> [Targets -> PageRecords]]
  /\ latest \in [Targets -> {0} \cup Runs]

\* A job at work has a run, and targets of it that are not done and come once.
TodoSound ==
  pc # "idle" =>
    /\ job.run \in 1..runs /\ job.todo # <<>>
    /\ \A i, j \in DOMAIN job.todo : job.todo[i] = job.todo[j] => i = j
    /\ \A i \in DOMAIN job.todo : targets[job.run][job.todo[i]] \notin DoneStatuses
    /\ pc # "target" => job.robots \in DOMAIN RobotsFiles

LEMMA TargetTyped ==
  ASSUME Typed, TodoSound, pc # "idle"
  PROVE  /\ Target \in Targets /\ job.run \in Runs /\ job.run \in 1..runs /\ job.run # 0
         /\ targets[job.run][Target] \notin DoneStatuses
         /\ pages[job.run][Target] \in PageRecords
         /\ Tail(job.todo) \in Seq(Targets)
<1>1. job.todo \in Seq(Targets) /\ job.todo # <<>> /\ job.run \in 1..runs
  BY DEF Typed, TodoSound, JobRecords
<1>2. job.run \in Runs  BY <1>1, SiteCrawlAssumption DEF Typed, Runs
<1>3. 1 \in DOMAIN job.todo /\ Target = job.todo[1]  BY <1>1 DEF Target
<1>4. Target \in Targets  BY <1>1, <1>3
<1>5. pages[job.run][Target] \in PageRecords  BY <1>2, <1>4 DEF Typed
<1>6. targets[job.run][Target] \notin DoneStatuses  BY <1>3 DEF TodoSound
<1>7. Tail(job.todo) \in Seq(Targets)  BY <1>1
<1> QED  BY <1>1, <1>2, <1>4, <1>5, <1>6, <1>7

\* After a target the job goes on with the ones behind it, or ends.
LEMMA Proceeding ==
  ASSUME Typed, TodoSound, pc # "idle", NEW asked \in BOOLEAN, NEW last \in LastAsked,
         Proceed(asked, last), runs' = runs,
         \A t \in Targets : t # Target => targets'[job.run][t] = targets[job.run][t]
  PROVE  TodoSound' /\ pc' \in {"idle", "target"} /\ job' \in JobRecords /\ since' \in Int
<1>1. NoJob \in JobRecords  BY DEF NoJob, JobRecords, LastAsked
<1>2. CASE Tail(job.todo) = <<>>
  <2>1. pc' = "idle" /\ job' = NoJob /\ since' = 0  BY <1>2 DEF Proceed
  <2> QED  BY <1>1, <2>1 DEF TodoSound
<1>3. CASE Tail(job.todo) # <<>>
  <2>1. /\ pc' = "target" /\ since' = since
        /\ job' = [job EXCEPT !.todo = Tail(@), !.asked = asked, !.last = last]
    BY <1>3 DEF Proceed
  <2>2. job' \in JobRecords /\ job'.run = job.run /\ job'.todo = Tail(job.todo)
    <3>1. PICK rest : rest = Tail(job.todo)  OBVIOUS
    <3>2. rest \in Seq(Targets)  BY <3>1, TargetTyped
    <3>3. job' = [job EXCEPT !.todo = rest, !.asked = asked, !.last = last]  BY <2>1, <3>1
    <3> QED  BY <3>1, <3>2, <3>3 DEF Typed, JobRecords
  <2>3. job.todo \in Seq(Targets) /\ job.todo # <<>>  BY DEF Typed, TodoSound, JobRecords
  <2>4. ASSUME NEW i \in DOMAIN job'.todo
        PROVE  i + 1 \in DOMAIN job.todo /\ job'.todo[i] = job.todo[i + 1] /\ i \in Int /\ i + 1 # 1
    BY <2>2, <2>3
  <2>5. ASSUME NEW i \in DOMAIN job'.todo, NEW j \in DOMAIN job'.todo, job'.todo[i] = job'.todo[j]
        PROVE  i = j
    BY <2>4, <2>5 DEF TodoSound
  <2>6. ASSUME NEW i \in DOMAIN job'.todo PROVE targets'[job'.run][job'.todo[i]] \notin DoneStatuses
    <3>1. 1 \in DOMAIN job.todo /\ Target = job.todo[1]  BY <2>3 DEF Target
    <3>2. job'.todo[i] # Target  BY <2>4, <3>1 DEF TodoSound
    <3>3. job'.todo[i] \in Targets  BY <2>3, <2>4
    <3> QED  BY <2>2, <2>4, <3>2, <3>3 DEF TodoSound
  <2>7. job'.run \in 1..runs'  BY <2>2 DEF TodoSound
  <2> QED  BY <1>3, <2>1, <2>2, <2>5, <2>6, <2>7 DEF TodoSound, Typed
<1> QED  BY <1>2, <1>3

-----------------------------------------------------------------------------
(* The clock.                                                              *)

LEMMA MaxOf ==
  ASSUME NEW S, NEW m \in S, \A x \in S : m >= x, S \subseteq Int
  PROVE  Max(S) \in S /\ \A x \in S : Max(S) >= x
BY DEF Max

LEMMA HorizonTyped ==
  /\ Horizon \in Nat
  /\ \A x \in {TotalTimeout, DefaultDelay, MinDelay, MaxCrawlDelay} : Horizon >= x
<1> DEFINE S == {TotalTimeout, DefaultDelay, MinDelay, MaxCrawlDelay}
<1>1. S \subseteq Nat  BY SiteCrawlAssumption
<1>2. \E m \in S : \A x \in S : m >= x
  <2>1. PICK a \in {TotalTimeout, DefaultDelay} : a >= TotalTimeout /\ a >= DefaultDelay  BY <1>1
  <2>2. PICK b \in {MinDelay, MaxCrawlDelay} : b >= MinDelay /\ b >= MaxCrawlDelay  BY <1>1
  <2>3. CASE a >= b  BY <1>1, <2>1, <2>2, <2>3
  <2>4. CASE b >= a  BY <1>1, <2>1, <2>2, <2>4
  <2> QED  BY <1>1, <2>1, <2>2, <2>3, <2>4
<1>3. Max(S) \in S /\ \A x \in S : Max(S) >= x  BY <1>1, <1>2, MaxOf
<1> QED  BY <1>1, <1>3 DEF Horizon

LEMMA TickTyped ==
  ASSUME since \in Int
  PROVE  Min({since + 1, Horizon}) \in Int
<1>1. \E x \in {since + 1, Horizon} : \A y \in {since + 1, Horizon} : x =< y
  <2>1. CASE since + 1 =< Horizon  BY <2>1, HorizonTyped
  <2>2. CASE Horizon =< since + 1  BY <2>2, HorizonTyped
  <2> QED  BY <2>1, <2>2, HorizonTyped
<1>2. Min({since + 1, Horizon}) \in {since + 1, Horizon}  BY <1>1 DEF Min
<1> QED  BY <1>2, HorizonTyped

-----------------------------------------------------------------------------
(* What is stored of a page.                                               *)

\* A failed page has nothing; a fetched one says what it read; an unchanged one has
\* the content of a page that is still there, with the text of what it read.
Sound(page, t) ==
  /\ page.status \notin DoneStatuses =>
       /\ page.etag = NoBody /\ page.hashes = NoBody /\ page.content = Nothing
       /\ page.unchangedFrom = NoId
  /\ page.status \in DoneStatuses =>
       /\ page.hashes \in BodyIds /\ page.served \in BodyIds /\ page.etag = page.served
       /\ TextOf[page.hashes] = TextOf[page.served]
       /\ \A kind \in Kinds :
            page.content[kind] # NoBody => TextOf[page.content[kind]] = TextOf[page.served]
  /\ page.status \in {"fetched", "browser_required"} => page.unchangedFrom = NoId
  /\ page.status = "unchanged" =>
       /\ Exists(page.unchangedFrom, t)
       /\ PageOf(page.unchangedFrom, t).status \in DoneStatuses
       /\ PageOf(page.unchangedFrom, t).content = page.content

PagesSound ==
  \A r \in Runs, t \in Targets :
    /\ Sound(pages[r][t], t)
    /\ pages[r][t].status \in DoneStatuses =>
         targets[r][t] \in DoneStatuses /\ pages[r][t].version > 0
    /\ targets[r][t] \in DoneStatuses => r \in 1..runs

\* The validator of the fetch under way is that of the page before.
ValidatorSound == Fetching => fetch.etag \in {NoBody, Previous.etag}

\* Every page that is done is as it was, in a step.
DoneKept ==
  \A r \in Runs, t \in Targets :
    targets[r][t] \in DoneStatuses =>
      targets'[r][t] = targets[r][t] /\ pages'[r][t] = pages[r][t]

LEMMA SoundStays ==
  ASSUME PagesSound, DoneKept, NEW page, NEW t \in Targets, Sound(page, t)
  PROVE  Sound(page, t)'
<1>1. CASE page.status = "unchanged"
  <2>1. PICK r : r = page.unchangedFrom.run  OBVIOUS
  <2>2. r \in Runs /\ pages[r][t].status \in DoneStatuses
    BY <1>1, <2>1 DEF Sound, Exists, PageOf
  <2>3. pages'[r][t] = pages[r][t]  BY <2>2 DEF PagesSound, DoneKept
  <2>4. PageOf(page.unchangedFrom, t)' = PageOf(page.unchangedFrom, t)
    BY <2>1, <2>3 DEF PageOf
  <2>5. Exists(page.unchangedFrom, t)'  BY <1>1, <2>4 DEF Sound, Exists
  <2> QED  BY <1>1, <2>4, <2>5 DEF Sound, DoneStatuses
<1>2. CASE page.status # "unchanged"  BY <1>2 DEF Sound
<1> QED  BY <1>1, <1>2

\* Storing a page leaves the others alone.
LEMMA Persisting ==
  ASSUME Typed, TodoSound, PagesSound, Fetching, runs' = runs,
         NEW page \in PageRecords, page.status # "none", Sound(page, Target), Persist(page)
  PROVE  /\ targets' \in [Runs -> [Targets -> TargetStatuses]]
         /\ pages' \in [Runs -> [Targets -> PageRecords]]
         /\ latest' \in [Targets -> {0} \cup Runs]
         /\ fetch' = NoFetch
         /\ \A t \in Targets : t # Target => targets'[job.run][t] = targets[job.run][t]
         /\ PagesSound' /\ DoneKept
<1>0. pc # "idle"  BY DEF Fetching
<1>1. PICK u : u = Target  OBVIOUS
<1>2. PICK q : q = job.run  OBVIOUS
<1>3. /\ u \in Targets /\ q \in Runs /\ q \in 1..runs /\ targets[q][u] \notin DoneStatuses
      /\ pages[q][u] \in PageRecords
  BY <1>0, <1>1, <1>2, TargetTyped
<1>4. PICK p : p = [page EXCEPT !.version = pages[q][u].version + 1]  OBVIOUS
<1>5. /\ p \in PageRecords /\ p.version > 0 /\ p.status = page.status /\ p.etag = page.etag
      /\ p.hashes = page.hashes /\ p.content = page.content /\ p.unchangedFrom = page.unchangedFrom
      /\ p.served = page.served
  BY <1>3, <1>4 DEF PageRecords
<1>6. /\ pages' = [pages EXCEPT ![q][u] = p]
      /\ targets' = [targets EXCEPT ![q][u] = page.status]
      /\ latest' = [latest EXCEPT ![u] = q] /\ fetch' = NoFetch
  BY <1>1, <1>2, <1>4 DEF Persist
<1>7. page.status \in DoneStatuses \cup FailedStatuses  BY DEF PageRecords
<1>8. /\ targets' \in [Runs -> [Targets -> TargetStatuses]]
      /\ pages' \in [Runs -> [Targets -> PageRecords]]
      /\ latest' \in [Targets -> {0} \cup Runs]
  BY <1>3, <1>5, <1>6, <1>7 DEF Typed, TargetStatuses
<1>9. pages'[q][u] = p /\ targets'[q][u] = page.status  BY <1>3, <1>6 DEF Typed
<1>10. ASSUME NEW r \in Runs, NEW t \in Targets, r # q \/ t # u
       PROVE  pages'[r][t] = pages[r][t] /\ targets'[r][t] = targets[r][t]
  BY <1>3, <1>6, <1>10 DEF Typed
<1>11. DoneKept  BY <1>3, <1>10 DEF DoneKept
<1>12. ASSUME NEW r \in Runs, NEW t \in Targets
       PROVE  /\ Sound(pages[r][t], t)'
              /\ pages'[r][t].status \in DoneStatuses =>
                   targets'[r][t] \in DoneStatuses /\ pages'[r][t].version > 0
              /\ targets'[r][t] \in DoneStatuses => r \in 1..runs'
  <2>1. CASE r = q /\ t = u
    <3>1. Sound(p, u)  BY <1>1, <1>5 DEF Sound
    <3>2. Sound(p, u)'  BY <1>3, <1>11, <3>1, SoundStays
    <3> QED  BY <2>1, <1>3, <1>5, <1>9, <3>2 DEF Sound
  <2>2. CASE r # q \/ t # u
    <3>1. PICK o : o = pages[r][t]  OBVIOUS
    <3>2. Sound(o, t)  BY <3>1 DEF PagesSound
    <3>3. Sound(o, t)'  BY <1>11, <3>2, SoundStays
    <3>4. pages'[r][t] = o  BY <2>2, <1>10, <3>1
    <3>5. Sound(pages[r][t], t)'  BY <3>3, <3>4 DEF Sound
    <3> QED  BY <2>2, <1>10, <3>5 DEF PagesSound
  <2> QED  BY <2>1, <2>2
<1>13. PagesSound'  BY <1>12 DEF PagesSound
<1> QED  BY <1>1, <1>2, <1>3, <1>6, <1>8, <1>10, <1>11, <1>13

SiteInv == Typed /\ TodoSound /\ PagesSound /\ ValidatorSound

\* The page before, when it has a digest or a validator, is done and still there.
LEMMA PreviousSound ==
  ASSUME SiteInv, pc # "idle", Previous.hashes # NoBody \/ Previous.etag # NoBody
  PROVE  /\ Previous \in PageRecords /\ Previous.status \in DoneStatuses
         /\ Sound(Previous, Target)
         /\ PreviousId \in [run: Nat, version: Nat]
         /\ Exists(PreviousId, Target) /\ PageOf(PreviousId, Target) = Previous
<1>1. PICK u : u = Target  OBVIOUS
<1>2. PICK r : r = latest[u]  OBVIOUS
<1>3. u \in Targets  BY <1>1, TargetTyped DEF SiteInv
<1>4. r # 0
  <2>1. NoPage.hashes = NoBody /\ NoPage.etag = NoBody  BY DEF NoPage
  <2> QED  BY <1>1, <1>2, <2>1 DEF Previous
<1>5. r \in Runs /\ Previous = pages[r][u]  BY <1>1, <1>2, <1>3, <1>4 DEF SiteInv, Typed, Previous
<1>6. PICK p : p = pages[r][u]  OBVIOUS
<1>7. p \in PageRecords /\ Sound(p, u)
  BY <1>3, <1>5, <1>6 DEF SiteInv, Typed, PagesSound
<1>8. p.status \in DoneStatuses  BY <1>5, <1>6, <1>7 DEF Sound
<1>9. p.version > 0 /\ p.version \in Nat  BY <1>3, <1>5, <1>6, <1>7, <1>8 DEF SiteInv, PagesSound, PageRecords
<1>10. PreviousId = [run |-> r, version |-> p.version]  BY <1>1, <1>2, <1>5, <1>6 DEF PreviousId
<1>11. PreviousId.run = r /\ PreviousId.version = p.version  BY <1>10
<1>12. PageOf(PreviousId, u) = p  BY <1>6, <1>11 DEF PageOf
<1>13. r \in Nat  BY <1>5, SiteCrawlAssumption DEF Runs
<1>14. Exists(PreviousId, u)  BY <1>5, <1>9, <1>11, <1>12 DEF Exists
<1>15. Sound(Previous, Target)  BY <1>1, <1>5, <1>6, <1>7 DEF Sound
<1> QED  BY <1>1, <1>5, <1>6, <1>7, <1>8, <1>9, <1>10, <1>12, <1>13, <1>14, <1>15

\* An unchanged page of the same text points to the page before and has its content.
LEMMA UnchangedSound ==
  ASSUME SiteInv, pc # "idle", Previous.hashes # NoBody \/ Previous.etag # NoBody,
         NEW hashes \in BodyIds, NEW body \in BodyIds,
         TextOf[hashes] = TextOf[body], TextOf[Previous.served] = TextOf[body],
         NEW page, page = UnchangedPage(hashes, body, body)
  PROVE  page \in PageRecords /\ page.status = "unchanged" /\ Sound(page, Target)
<1>1. /\ Previous \in PageRecords /\ Previous.status \in DoneStatuses /\ Sound(Previous, Target)
      /\ PreviousId \in [run: Nat, version: Nat]
      /\ Exists(PreviousId, Target) /\ PageOf(PreviousId, Target) = Previous
  BY PreviousSound
<1>2. PICK p : p = Previous  OBVIOUS
<1>3. PICK id : id = PreviousId  OBVIOUS
<1>4. page = [p EXCEPT !.status = "unchanged", !.etag = body, !.hashes = hashes,
                       !.unchangedFrom = id, !.served = body]
  BY <1>2, <1>3 DEF UnchangedPage
<1>5. p \in PageRecords /\ id \in [run: Nat, version: Nat]  BY <1>1, <1>2, <1>3
<1>6. page \in PageRecords  BY <1>4, <1>5 DEF PageRecords, BodyOrNone, DoneStatuses
<1>7. /\ page.status = "unchanged" /\ page.etag = body /\ page.hashes = hashes
      /\ page.unchangedFrom = id /\ page.served = body /\ page.content = p.content
  BY <1>4, <1>5 DEF PageRecords
<1>8. \A kind \in Kinds : p.content[kind] # NoBody => TextOf[p.content[kind]] = TextOf[body]
  BY <1>1, <1>2 DEF Sound
<1>9. /\ Exists(id, Target) /\ PageOf(id, Target).status \in DoneStatuses
      /\ PageOf(id, Target).content = page.content
  BY <1>1, <1>2, <1>3, <1>7
<1> QED  BY <1>6, <1>7, <1>8, <1>9 DEF Sound, DoneStatuses

LEMMA SameStructureSameText ==
  ASSUME NEW a \in BodyIds, NEW b \in BodyIds, StructureOf[a] = StructureOf[b]
  PROVE  TextOf[a] = TextOf[b]
<1>1. Structure(Bodies[a]) = Structure(Bodies[b])  BY DEF StructureOf
<1> QED  BY <1>1 DEF Structure, TextOf

\* A failed page is sound, and so is a page fetched anew.
LEMMA FailedSound ==
  ASSUME NEW status \in FailedStatuses, NEW t, NEW page, page = [NoPage EXCEPT !.status = status]
  PROVE  page \in PageRecords /\ page.status = status /\ Sound(page, t)
<1>1. NoPage \in PageRecords
  BY DEF NoPage, PageRecords, Nothing, NoId, BodyOrNone
<1>2. page \in PageRecords /\ page.status = status  BY <1>1 DEF PageRecords
<1>3. /\ page.etag = NoBody /\ page.hashes = NoBody /\ page.content = Nothing
      /\ page.unchangedFrom = NoId
  BY DEF NoPage
<1>4. status \notin DoneStatuses /\ status \notin {"fetched", "browser_required", "unchanged"}
  BY DEF FailedStatuses, DoneStatuses
<1> QED  BY <1>2, <1>3, <1>4 DEF Sound

LEMMA FetchedSound ==
  ASSUME NEW b \in BodyIds, NEW content \in Contents(b), NEW t, NEW page,
         page = [NoPage EXCEPT !.status = Status(b), !.etag = b, !.hashes = b,
                               !.content = content, !.served = b]
  PROVE  page \in PageRecords /\ page.status \in {"fetched", "browser_required"} /\ Sound(page, t)
<1>1. NoPage \in PageRecords
  BY DEF NoPage, PageRecords, Nothing, NoId, BodyOrNone
<1>2. PICK s : s = Status(b)  OBVIOUS
<1>3. s \in {"fetched", "browser_required"}  BY <1>2 DEF Status
<1>4. content \in [Kinds -> {b, NoBody}]  BY DEF Contents
<1>5. page = [NoPage EXCEPT !.status = s, !.etag = b, !.hashes = b, !.content = content, !.served = b]
  BY <1>2
<1>6. page \in PageRecords
  <2>1. s \in {"none"} \cup DoneStatuses \cup FailedStatuses  BY <1>3 DEF DoneStatuses
  <2>2. b \in BodyOrNone /\ content \in [Kinds -> BodyOrNone]  BY <1>4 DEF BodyOrNone
  <2> QED  BY <1>1, <1>5, <2>1, <2>2 DEF PageRecords
<1>7. /\ page.status = s /\ page.etag = b /\ page.hashes = b /\ page.served = b
      /\ page.content = content /\ page.unchangedFrom = NoId
  BY <1>5 DEF NoPage
<1>8. \A kind \in Kinds : content[kind] # NoBody => content[kind] = b  BY <1>4
<1>9. page.status \in DoneStatuses /\ page.status # "unchanged"  BY <1>3, <1>7 DEF DoneStatuses
<1> QED  BY <1>3, <1>6, <1>7, <1>8, <1>9 DEF Sound

-----------------------------------------------------------------------------
(* The steps.                                                              *)

LEMMA Storing ==
  ASSUME SiteInv, Fetching, NEW page \in PageRecords, page.status # "none", Sound(page, Target),
         NEW asked \in BOOLEAN, NEW last \in LastAsked,
         Persist(page), Proceed(asked, last), UNCHANGED Rest
  PROVE  SiteInv' /\ DoneKept
<1>1. pc # "idle"  BY DEF Fetching
<1>2. scenario' = scenario /\ runs' = runs  BY DEF Rest
<1>3. /\ targets' \in [Runs -> [Targets -> TargetStatuses]]
      /\ pages' \in [Runs -> [Targets -> PageRecords]]
      /\ latest' \in [Targets -> {0} \cup Runs]
      /\ fetch' = NoFetch
      /\ \A t \in Targets : t # Target => targets'[job.run][t] = targets[job.run][t]
      /\ PagesSound' /\ DoneKept
  BY <1>2, Persisting DEF SiteInv
<1>4. TodoSound' /\ pc' \in {"idle", "target"} /\ job' \in JobRecords /\ since' \in Int
  BY <1>1, <1>2, <1>3, Proceeding DEF SiteInv
<1>5. NoFetch \in FetchRecords  BY DEF NoFetch, FetchRecords, BodyOrNone
<1>6. Typed'  BY <1>2, <1>3, <1>4, <1>5 DEF Typed, SiteInv
<1>7. ValidatorSound'  BY <1>4 DEF ValidatorSound, Fetching
<1> QED  BY <1>3, <1>4, <1>6, <1>7 DEF SiteInv

LEMMA Failing ==
  ASSUME SiteInv, Fetching, NEW status \in FailedStatuses, Fail(status)
  PROVE  SiteInv' /\ DoneKept
<1>1. PICK page : page = [NoPage EXCEPT !.status = status]  OBVIOUS
<1>2. page \in PageRecords /\ page.status = status /\ Sound(page, Target)
  <2>1. PICK t : t = Target  OBVIOUS
  <2>2. page \in PageRecords /\ page.status = status /\ Sound(page, t)  BY <1>1, FailedSound
  <2> QED  BY <2>1, <2>2
<1>3. page.status # "none"  BY <1>2 DEF FailedStatuses
<1>4. Persist(page) /\ Proceed(FALSE, "failed") /\ UNCHANGED Rest  BY <1>1 DEF Fail
<1> QED  BY <1>2, <1>3, <1>4, Storing DEF LastAsked

\* What a fetch that is answered was.
LEMMA TakenTyped == Taken \in LastAsked /\ Taken \in {"single", "several"}
BY DEF Taken, LastAsked

LEMMA NotModified ==
  ASSUME SiteInv, AnswerNotModified
  PROVE  SiteInv' /\ DoneKept
<1>1. Fetching /\ pc # "idle" /\ fetch.etag # NoBody  BY DEF AnswerNotModified, Asked, Fetching
<1>2. fetch.etag = Previous.etag  BY <1>1 DEF SiteInv, ValidatorSound
<1>3. /\ Previous \in PageRecords /\ Previous.status \in DoneStatuses /\ Sound(Previous, Target)
  BY <1>1, <1>2, PreviousSound
<1>4. PICK h : h = Previous.hashes  OBVIOUS
<1>5. PICK b : b = fetch.etag  OBVIOUS
<1>6. /\ h \in BodyIds /\ b \in BodyIds /\ TextOf[h] = TextOf[b]
      /\ TextOf[Previous.served] = TextOf[b]
  BY <1>2, <1>3, <1>4, <1>5 DEF Sound
<1>7. PICK page : page = UnchangedPage(h, b, b)  OBVIOUS
<1>8. page \in PageRecords /\ page.status = "unchanged" /\ Sound(page, Target)
  BY <1>1, <1>2, <1>6, <1>7, UnchangedSound
<1>9. PICK last : last = Taken  OBVIOUS
<1>10. last \in LastAsked  BY <1>9, TakenTyped
<1>11. Persist(page) /\ Proceed(TRUE, last) /\ UNCHANGED Rest
  BY <1>4, <1>5, <1>7, <1>9 DEF AnswerNotModified
<1> QED  BY <1>1, <1>8, <1>10, <1>11, Storing

LEMMA Paged ==
  ASSUME SiteInv, AnswerPage
  PROVE  SiteInv' /\ DoneKept
<1>1. Fetching /\ pc # "idle" /\ UNCHANGED Rest  BY DEF AnswerPage, Asked, Fetching
<1>2. PICK b \in scenario.bodies :
        IF IsChallenge(Bodies[b]) /\ scenario.challenge # "browser_required"
        THEN Persist([NoPage EXCEPT !.status = scenario.challenge]) /\ Proceed(FALSE, "failed")
        ELSE /\ IF MateriallyUnchanged(Previous.hashes, b)
                THEN Persist(UnchangedPage(b, b, b))
                ELSE \E content \in Contents(b) :
                       Persist([NoPage EXCEPT !.status = Status(b), !.etag = b, !.hashes = b,
                                              !.content = content, !.served = b])
             /\ Proceed(TRUE, Taken)
  BY DEF AnswerPage
<1>3. scenario.challenge \in FailedStatuses \cup {"browser_required"} /\ b \in BodyIds
  BY ScenariosAssumption DEF SiteInv, Typed
<1>4. CASE IsChallenge(Bodies[b]) /\ scenario.challenge # "browser_required"
  <2>1. Fail(scenario.challenge)  BY <1>1, <1>2, <1>4 DEF Fail
  <2>2. PICK status : status = scenario.challenge  OBVIOUS
  <2>3. status \in FailedStatuses /\ Fail(status)  BY <1>3, <1>4, <2>1, <2>2
  <2> QED  BY <1>1, <2>3, Failing
<1>5. CASE ~(IsChallenge(Bodies[b]) /\ scenario.challenge # "browser_required")
  <2> DEFINE last == Taken
  <2>1. Proceed(TRUE, last) /\ last \in LastAsked  BY <1>2, <1>5, TakenTyped
  <2> HIDE DEF last
  <2>2. CASE MateriallyUnchanged(Previous.hashes, b)
    <3>1. Persist(UnchangedPage(b, b, b))  BY <1>2, <1>5, <2>2
    <3>2. Previous.hashes # NoBody  BY <2>2 DEF MateriallyUnchanged
    <3>3. Sound(Previous, Target) /\ Previous.status \in DoneStatuses
      BY <1>1, <3>2, PreviousSound
    <3>4. PICK h : h = Previous.hashes  OBVIOUS
    <3>5. h \in BodyIds /\ TextOf[h] = TextOf[Previous.served]  BY <3>3, <3>4 DEF Sound
    <3>6. TextOf[h] = TextOf[b]
      <4>1. h = b \/ StructureOf[h] = StructureOf[b]  BY <2>2, <3>4 DEF MateriallyUnchanged
      <4> QED  BY <1>3, <3>5, <4>1, SameStructureSameText
    <3>7. PICK page : page = UnchangedPage(b, b, b)  OBVIOUS
    <3>8. page \in PageRecords /\ page.status = "unchanged" /\ Sound(page, Target)
      BY <1>1, <1>3, <3>2, <3>5, <3>6, <3>7, UnchangedSound
    <3> QED  BY <1>1, <2>1, <3>1, <3>7, <3>8, Storing
  <2>3. CASE ~MateriallyUnchanged(Previous.hashes, b)
    <3>1. PICK content \in Contents(b) :
            Persist([NoPage EXCEPT !.status = Status(b), !.etag = b, !.hashes = b,
                                   !.content = content, !.served = b])
      BY <1>2, <1>5, <2>3
    <3>2. PICK page : page = [NoPage EXCEPT !.status = Status(b), !.etag = b, !.hashes = b,
                                            !.content = content, !.served = b]
      OBVIOUS
    <3>3. page \in PageRecords /\ page.status \in {"fetched", "browser_required"} /\ Sound(page, Target)
      <4>1. PICK t : t = Target  OBVIOUS
      <4>2. PICK c : c = content  OBVIOUS
      <4>3. PICK C : C = Contents(b)  OBVIOUS
      <4>4. page \in PageRecords /\ page.status \in {"fetched", "browser_required"} /\ Sound(page, t)
        BY <1>3, <3>2, FetchedSound
      <4> QED  BY <4>1, <4>4
    <3>4. page.status # "none" /\ Persist(page)  BY <3>1, <3>2, <3>3
    <3> QED  BY <1>1, <2>1, <3>3, <3>4, Storing
  <2> QED  BY <2>2, <2>3
<1> QED  BY <1>4, <1>5

LEMMA Undisturbed ==
  ASSUME SiteInv, UNCHANGED <<runs, targets, pages>>
  PROVE  PagesSound' /\ DoneKept
<1>1. DoneKept  BY DEF DoneKept
<1>2. ASSUME NEW r \in Runs, NEW t \in Targets PROVE Sound(pages[r][t], t)'
  <2>1. PICK o : o = pages[r][t]  OBVIOUS
  <2>2. Sound(o, t)  BY <2>1 DEF SiteInv, PagesSound
  <2>3. Sound(o, t)'  BY <1>1, <2>2, SoundStays DEF SiteInv
  <2>4. pages'[r][t] = o  BY <2>1
  <2> QED  BY <2>3, <2>4 DEF Sound
<1> QED  BY <1>1, <1>2 DEF SiteInv, PagesSound

\* A step that leaves what is stored and the job's targets as they are.
LEMMA Moving ==
  ASSUME SiteInv, UNCHANGED <<scenario, runs, targets, pages, latest>>, pc # "idle", pc' # "idle",
         pc' \in {"target", "pacing", "answer", "backoff"},
         job' \in JobRecords, job'.run = job.run, job'.todo = job.todo,
         pc' # "target" => job'.robots \in DOMAIN RobotsFiles,
         fetch' \in FetchRecords, since' \in Int, ValidatorSound'
  PROVE  SiteInv' /\ DoneKept
<1>1. PagesSound' /\ DoneKept  BY Undisturbed
<1>2. TodoSound'  BY DEF SiteInv, TodoSound
<1>3. Typed'  BY DEF SiteInv, Typed
<1> QED  BY <1>1, <1>2, <1>3 DEF SiteInv

LEMMA Ending ==
  ASSUME SiteInv, UNCHANGED <<scenario, runs, targets, pages, latest>>, pc' = "idle",
         job' = NoJob, fetch' = NoFetch, since' = 0
  PROVE  SiteInv' /\ DoneKept
<1>1. PagesSound' /\ DoneKept  BY Undisturbed
<1>2. TodoSound' /\ ValidatorSound'  BY DEF TodoSound, ValidatorSound, Fetching
<1>3. NoJob \in JobRecords /\ NoFetch \in FetchRecords
  BY DEF NoJob, JobRecords, LastAsked, NoFetch, FetchRecords, BodyOrNone
<1>4. Typed'  BY <1>3 DEF SiteInv, Typed
<1> QED  BY <1>1, <1>2, <1>4 DEF SiteInv

LEMMA Beginning ==
  ASSUME SiteInv, NEW run \in Runs, run \in 1..runs', NEW todo \in Seq(Targets), todo # <<>>,
         \A i, j \in DOMAIN todo : todo[i] = todo[j] => i = j,
         \A i \in DOMAIN todo : targets'[run][todo[i]] \notin DoneStatuses,
         NEW force \in BOOLEAN, Begin(run, todo, force)
  PROVE  /\ job' \in JobRecords /\ pc' = "target" /\ TodoSound' /\ ValidatorSound'
         /\ UNCHANGED <<scenario, fetch, since, pages, latest>>
<1>1. NoJob \in JobRecords  BY DEF NoJob, JobRecords, LastAsked
<1>2. job' = [NoJob EXCEPT !.run = run, !.todo = todo, !.force = force] /\ pc' = "target"
  BY DEF Begin
<1>3. run \in Nat  BY SiteCrawlAssumption DEF Runs
<1>4. job' \in JobRecords /\ job'.run = run /\ job'.todo = todo
  BY <1>1, <1>2, <1>3 DEF JobRecords
<1>5. TodoSound' /\ ValidatorSound'  BY <1>2, <1>4 DEF TodoSound, ValidatorSound, Fetching
<1> QED  BY <1>2, <1>4, <1>5 DEF Begin

LEMMA NewRun ==
  ASSUME SiteInv, ExecuteRun
  PROVE  SiteInv' /\ DoneKept
<1>1. PICK r : r = runs + 1  OBVIOUS
<1>2. PICK order : order = scenario.order  OBVIOUS
<1>3. /\ order \in Seq(Targets) \ {<<>>} /\ scenario.force \subseteq BOOLEAN
      /\ \A i, j \in DOMAIN order : order[i] = order[j] => i = j
  BY <1>2, ScenariosAssumption DEF SiteInv, Typed
<1>4. runs \in 0..MaxRuns /\ runs' = r /\ r \in Runs /\ r \in 1..r /\ r \notin 1..runs
  BY <1>1, SiteCrawlAssumption DEF SiteInv, Typed, ExecuteRun, Runs
<1>5. PICK new : new = [t \in Targets |-> IF t \in ToSet(order) THEN "queued" ELSE "none"]  OBVIOUS
<1>6. targets' = [targets EXCEPT ![r] = new]  BY <1>1, <1>2, <1>5 DEF ExecuteRun
<1>7. PICK force \in scenario.force : Begin(r, order, force)  BY <1>1, <1>2 DEF ExecuteRun
<1>8. new \in [Targets -> {"queued", "none"}]  BY <1>5
<1>9. \A t \in Targets : targets'[r][t] = new[t] /\ new[t] \notin DoneStatuses
  BY <1>4, <1>6, <1>8 DEF SiteInv, Typed, DoneStatuses
<1>10. \A q \in Runs \ {r} : targets'[q] = targets[q]  BY <1>4, <1>6 DEF SiteInv, Typed
<1>11. targets' \in [Runs -> [Targets -> TargetStatuses]]
  BY <1>4, <1>6, <1>8 DEF SiteInv, Typed, TargetStatuses
<1>12. \A i \in DOMAIN order : targets'[r][order[i]] \notin DoneStatuses  BY <1>3, <1>9
<1>13. /\ job' \in JobRecords /\ pc' = "target" /\ TodoSound' /\ ValidatorSound'
       /\ UNCHANGED <<scenario, fetch, since, pages, latest>>
  BY <1>3, <1>4, <1>7, <1>12, Beginning
<1>14. \A t \in Targets : targets[r][t] \notin DoneStatuses  BY <1>4 DEF SiteInv, PagesSound
<1>15. DoneKept  BY <1>10, <1>13, <1>14 DEF DoneKept
<1>16. PagesSound'
  <2>1. ASSUME NEW q \in Runs, NEW t \in Targets PROVE Sound(pages[q][t], t)'
    <3>1. PICK o : o = pages[q][t]  OBVIOUS
    <3>2. Sound(o, t)  BY <3>1 DEF SiteInv, PagesSound
    <3>3. Sound(o, t)'  BY <1>15, <3>2, SoundStays DEF SiteInv
    <3>4. pages'[q][t] = o  BY <1>13, <3>1
    <3> QED  BY <3>3, <3>4 DEF Sound
  <2>2. ASSUME NEW q \in Runs, NEW t \in Targets
        PROVE  /\ pages'[q][t].status \in DoneStatuses =>
                    targets'[q][t] \in DoneStatuses /\ pages'[q][t].version > 0
               /\ targets'[q][t] \in DoneStatuses => q \in 1..runs'
    <3>1. CASE q = r  BY <1>4, <1>9, <1>13, <1>14, <3>1 DEF SiteInv, PagesSound
    <3>2. CASE q # r
      <4>1. q \in 1..runs => q \in 1..runs'  BY <1>1, <1>4
      <4> QED  BY <1>10, <1>13, <3>2, <4>1 DEF SiteInv, PagesSound
    <3> QED  BY <3>1, <3>2
  <2> QED  BY <2>1, <2>2 DEF PagesSound
<1>17. runs' \in 0..MaxRuns  BY <1>4, SiteCrawlAssumption DEF Runs
<1>18. Typed'  BY <1>11, <1>13, <1>17 DEF SiteInv, Typed
<1> QED  BY <1>13, <1>15, <1>16, <1>18 DEF SiteInv

LEMMA Retrying ==
  ASSUME SiteInv, RetryRun
  PROVE  SiteInv' /\ DoneKept
<1>1. PICK r \in 1..runs :
        /\ TargetsToRetry(r) # {}
        /\ \E todo \in Ascending(TargetsToRetry(r)) : Begin(r, todo, FALSE)
  BY DEF RetryRun
<1>2. PICK S : S = TargetsToRetry(r)  OBVIOUS
<1>3. PICK todo \in Ascending(S) : Begin(r, todo, FALSE)  BY <1>1, <1>2
<1>4. S \subseteq Targets /\ S # {}  BY <1>1, <1>2 DEF TargetsToRetry
<1>5. \A t \in S : targets[r][t] \notin DoneStatuses
  BY <1>2 DEF TargetsToRetry, Retryable, FailedStatuses, DoneStatuses
<1>6. Cardinality(S) \in Nat /\ Cardinality(S) # 0
  BY <1>4, SiteCrawlAssumption, FS_Subset, FS_CardinalityType, FS_EmptySet
<1>7. PICK n \in Nat : n = Cardinality(S) /\ n # 0  BY <1>6
<1>8. todo \in [1..n -> S] /\ \A i, j \in 1..n : i < j => todo[i] < todo[j]
  BY <1>3, <1>7 DEF Ascending
<1>9. todo \in Seq(Targets) /\ todo # <<>> /\ DOMAIN todo = 1..n  BY <1>4, <1>7, <1>8
<1>10. ASSUME NEW i \in 1..n, NEW j \in 1..n, todo[i] = todo[j] PROVE i = j
  <2>1. todo[i] \in Nat /\ todo[j] \in Nat  BY <1>4, <1>8, SiteCrawlAssumption
  <2> QED  BY <1>8, <1>10, <2>1
<1>11. \A i \in DOMAIN todo : targets[r][todo[i]] \notin DoneStatuses  BY <1>5, <1>8, <1>9
<1>12. r \in Runs /\ runs' = runs /\ targets' = targets
  BY SiteCrawlAssumption DEF SiteInv, Typed, Runs, RetryRun
<1>13. /\ job' \in JobRecords /\ pc' = "target" /\ TodoSound' /\ ValidatorSound'
       /\ UNCHANGED <<scenario, fetch, since, pages, latest>>
  BY <1>3, <1>9, <1>10, <1>11, <1>12, Beginning
<1>14. PagesSound' /\ DoneKept  BY <1>12, <1>13, Undisturbed
<1>15. Typed'  BY <1>12, <1>13 DEF SiteInv, Typed
<1> QED  BY <1>13, <1>14, <1>15 DEF SiteInv

LEMMA PausesTyped ==
  ASSUME SiteInv
  PROVE  Pauses \subseteq Int
<1> SUFFICES ASSUME NEW pause \in Pauses PROVE pause \in Int  OBVIOUS
<1>1. CASE pause \in Backoffs  BY <1>1 DEF Backoffs
<1>2. CASE pause \in {Min({after, MaxRetryAfter}) : after \in scenario.retryAfter}
  <2>1. PICK after \in scenario.retryAfter : pause = Min({after, MaxRetryAfter})  BY <1>2
  <2>2. after \in Nat /\ MaxRetryAfter \in Nat
    BY SiteCrawlAssumption, ScenariosAssumption DEF SiteInv, Typed
  <2>3. \E x \in {after, MaxRetryAfter} : \A y \in {after, MaxRetryAfter} : x =< y
    <3>1. CASE after =< MaxRetryAfter  BY <2>2, <3>1
    <3>2. CASE MaxRetryAfter =< after  BY <2>2, <3>2
    <3> QED  BY <2>2, <3>1, <3>2
  <2>4. pause \in {after, MaxRetryAfter}  BY <2>1, <2>3 DEF Min
  <2> QED  BY <2>2, <2>4
<1> QED  BY <1>1, <1>2 DEF Pauses

LEMMA Answering ==
  ASSUME SiteInv, Answer
  PROVE  SiteInv' /\ DoneKept
<1>1. CASE AnswerUnusable
  <2>1. PICK status \in FailedStatuses : Fail(status)  BY <1>1 DEF AnswerUnusable
  <2>2. Fetching  BY <1>1 DEF AnswerUnusable, Asked, Fetching
  <2> QED  BY <2>1, <2>2, Failing
<1>2. CASE AnswerNotModified  BY <1>2, NotModified
<1>3. CASE AnswerPage  BY <1>3, Paged
<1>4. CASE AnswerRedirect
  <2>1. pc = "answer" /\ Fetching  BY <1>4 DEF AnswerRedirect, Asked, Fetching
  <2>2. CASE fetch.hops = MaxRedirects
    <3>1. Fail("failed") /\ "failed" \in FailedStatuses
      BY <1>4, <2>2 DEF AnswerRedirect, FailedStatuses
    <3> QED  BY <2>1, <3>1, Failing
  <2>3. CASE fetch.hops # MaxRedirects
    <3>1. /\ \E to \in scenario.hops : fetch' = [fetch EXCEPT !.hops = @ + 1, !.at = to]
          /\ UNCHANGED <<scenario, jobs, runs, pc, job, since, targets, pages, latest>>
      BY <1>4, <2>3 DEF AnswerRedirect
    <3>2. fetch' \in FetchRecords /\ fetch'.etag = fetch.etag
      <4>1. PICK to \in scenario.hops : fetch' = [fetch EXCEPT !.hops = @ + 1, !.at = to]  BY <3>1
      <4>2. to \in Targets \cup {Elsewhere}  BY ScenariosAssumption DEF SiteInv, Typed
      <4>3. PICK n : n = fetch.hops + 1  OBVIOUS
      <4>4. fetch \in FetchRecords  BY DEF SiteInv, Typed
      <4>5. n \in Nat /\ fetch' = [fetch EXCEPT !.hops = n, !.at = to]
        BY <4>1, <4>3, <4>4 DEF FetchRecords
      <4> QED  BY <4>2, <4>4, <4>5 DEF FetchRecords
    <3>3. ValidatorSound'
      BY <2>1, <3>1, <3>2 DEF SiteInv, ValidatorSound, Fetching, Previous, Target
    <3>4. job' \in JobRecords /\ since' \in Int /\ job'.robots \in DOMAIN RobotsFiles
      BY <2>1, <3>1 DEF SiteInv, Typed, TodoSound
    <3> QED  BY <2>1, <3>1, <3>2, <3>3, <3>4, Moving
  <2> QED  BY <2>2, <2>3
<1>5. CASE AnswerTransient
  <2>1. pc = "answer" /\ Fetching  BY <1>5 DEF AnswerTransient, Asked, Fetching
  <2>2. CASE LastAttempt
    <3>1. Fail("failed") /\ "failed" \in FailedStatuses
      BY <1>5, <2>2 DEF AnswerTransient, FailedStatuses
    <3> QED  BY <2>1, <3>1, Failing
  <2>3. CASE ~LastAttempt
    <3>1. PICK sleep \in Pauses : fetch' = [fetch EXCEPT !.sleep = sleep, !.hops = 0, !.at = Target]
      BY <1>5, <2>3 DEF AnswerTransient
    <3>2. /\ pc' = "backoff"
          /\ UNCHANGED <<scenario, jobs, runs, job, since, targets, pages, latest>>
      BY <1>5, <2>3 DEF AnswerTransient
    <3>3. sleep \in Int  BY PausesTyped
    <3>4. fetch' \in FetchRecords /\ fetch'.etag = fetch.etag
      <4>1. PICK u : u = Target  OBVIOUS
      <4>2. u \in Targets  BY <2>1, <4>1, TargetTyped DEF SiteInv
      <4>3. fetch \in FetchRecords  BY DEF SiteInv, Typed
      <4>4. fetch' = [fetch EXCEPT !.sleep = sleep, !.hops = 0, !.at = u]  BY <3>1, <4>1
      <4> QED  BY <3>3, <4>2, <4>3, <4>4 DEF FetchRecords
    <3>5. ValidatorSound'
      BY <2>1, <3>2, <3>4 DEF SiteInv, ValidatorSound, Fetching, Previous, Target
    <3>6. job' \in JobRecords /\ since' \in Int /\ job'.robots \in DOMAIN RobotsFiles
      BY <2>1, <3>2 DEF SiteInv, Typed, TodoSound
    <3> QED  BY <2>1, <3>2, <3>4, <3>5, <3>6, Moving
  <2> QED  BY <2>2, <2>3
<1>6. CASE AnswerDeadly  BY <1>6, Ending DEF AnswerDeadly
<1> QED  BY <1>1, <1>2, <1>3, <1>4, <1>5, <1>6 DEF Answer

LEMMA Working ==
  ASSUME SiteInv, JobStep \/ Tick
  PROVE  SiteInv' /\ DoneKept
<1>1. CASE FetchRobots
  <2>1. pc = "target" /\ UNCHANGED <<scenario, runs, pc, fetch, since, targets, pages, latest>>
    BY <1>1 DEF FetchRobots
  <2>2. PICK file \in scenario.robots : job' = [job EXCEPT !.robots = file]  BY <1>1 DEF FetchRobots
  <2>3. file \in DOMAIN RobotsFiles  BY ScenariosAssumption DEF SiteInv, Typed
  <2>4. job' \in JobRecords /\ job'.run = job.run /\ job'.todo = job.todo
    BY <2>2, <2>3 DEF SiteInv, Typed, JobRecords
  <2>5. fetch' \in FetchRecords /\ since' \in Int /\ ValidatorSound'
    BY <2>1 DEF SiteInv, Typed, ValidatorSound, Fetching
  <2> QED  BY <2>1, <2>4, <2>5, Moving
<1>2. CASE CheckPolicy
  <2>1. /\ pc = "target" /\ job.robots \in DOMAIN RobotsFiles
        /\ UNCHANGED <<scenario, runs, fetch, pages, latest>>
    BY <1>2 DEF CheckPolicy, SiteInv, Typed, JobRecords
  <2>2. job \in JobRecords /\ job.asked \in BOOLEAN /\ job.last \in LastAsked
    BY DEF SiteInv, Typed, JobRecords
  <2>3. CASE PolicyOf[job.robots][Target].outcome = "disallowed"
    <3>1. PICK u : u = Target  OBVIOUS
    <3>2. PICK q : q = job.run  OBVIOUS
    <3>3. u \in Targets /\ q \in Runs /\ targets[q][u] \notin DoneStatuses
      BY <2>1, <3>1, <3>2, TargetTyped DEF SiteInv
    <3>4. /\ targets' = [targets EXCEPT ![q][u] = "blocked_by_robots"]
          /\ Proceed(job.asked, job.last)
      BY <1>2, <2>3, <3>1, <3>2 DEF CheckPolicy
    <3>5. /\ targets' \in [Runs -> [Targets -> TargetStatuses]]
          /\ targets'[q][u] = "blocked_by_robots"
          /\ \A r \in Runs, t \in Targets : r # q \/ t # u => targets'[r][t] = targets[r][t]
      BY <3>3, <3>4 DEF SiteInv, Typed, TargetStatuses
    <3>6. \A t \in Targets : t # Target => targets'[job.run][t] = targets[job.run][t]
      BY <3>1, <3>2, <3>3, <3>5
    <3>7. DoneKept  BY <2>1, <3>3, <3>5 DEF DoneKept
    <3>8. "blocked_by_robots" \notin DoneStatuses  BY DEF DoneStatuses
    <3>9. PagesSound'
      <4>1. ASSUME NEW r \in Runs, NEW t \in Targets PROVE Sound(pages[r][t], t)'
        <5>1. PICK o : o = pages[r][t]  OBVIOUS
        <5>2. Sound(o, t)  BY <5>1 DEF SiteInv, PagesSound
        <5>3. Sound(o, t)'  BY <3>7, <5>2, SoundStays DEF SiteInv
        <5>4. pages'[r][t] = o  BY <2>1, <5>1
        <5> QED  BY <5>3, <5>4 DEF Sound
      <4>2. ASSUME NEW r \in Runs, NEW t \in Targets
            PROVE  /\ pages'[r][t].status \in DoneStatuses =>
                        targets'[r][t] \in DoneStatuses /\ pages'[r][t].version > 0
                   /\ targets'[r][t] \in DoneStatuses => r \in 1..runs'
        BY <2>1, <3>3, <3>5, <3>8 DEF SiteInv, PagesSound
      <4> QED  BY <4>1, <4>2 DEF PagesSound
    <3>10. PICK asked \in BOOLEAN : asked <=> job.asked  BY <2>2
    <3>11. PICK last \in LastAsked : last = job.last  BY <2>2
    <3>12. Proceed(asked, last)  BY <2>2, <3>4, <3>10, <3>11 DEF Proceed
    <3>13. TodoSound' /\ pc' \in {"idle", "target"} /\ job' \in JobRecords /\ since' \in Int
      BY <2>1, <3>6, <3>12, Proceeding DEF SiteInv
    <3>14. Typed'  BY <2>1, <3>5, <3>13 DEF SiteInv, Typed
    <3>15. ValidatorSound'  BY <3>13 DEF ValidatorSound, Fetching
    <3> QED  BY <3>7, <3>9, <3>13, <3>14, <3>15 DEF SiteInv
  <2>4. CASE PolicyOf[job.robots][Target].outcome # "disallowed"
    <3>1. pc' = "pacing" /\ UNCHANGED <<targets, job, since>>  BY <1>2, <2>4 DEF CheckPolicy
    <3>2. fetch' \in FetchRecords /\ since' \in Int /\ ValidatorSound'
      BY <2>1, <3>1 DEF SiteInv, Typed, ValidatorSound, Fetching
    <3> QED  BY <2>1, <2>2, <3>1, <3>2, Moving
  <2> QED  BY <2>3, <2>4
<1>3. CASE Send
  <2>1. pc = "pacing" /\ pc' = "answer" /\ since' = 0 /\ job' = [job EXCEPT !.asked = TRUE]
        /\ UNCHANGED <<scenario, runs, targets, pages, latest>>
    BY <1>3 DEF Send
  <2>2. PICK etag : etag = IF job.force THEN NoBody ELSE Previous.etag  OBVIOUS
  <2>3. PICK u : u = Target  OBVIOUS
  <2>4. u \in Targets  BY <2>1, <2>3, TargetTyped DEF SiteInv
  <2>5. fetch' = [attempt |-> 1, hops |-> 0, at |-> u, sleep |-> 0, etag |-> etag]
    BY <1>3, <2>2, <2>3 DEF Send
  <2>6. etag \in BodyOrNone
    <3>1. CASE Previous.etag = NoBody  BY <2>2, <3>1 DEF BodyOrNone
    <3>2. CASE Previous.etag # NoBody
      <4>1. Previous \in PageRecords  BY <2>1, <3>2, PreviousSound
      <4> QED  BY <2>2, <4>1 DEF PageRecords, BodyOrNone
    <3> QED  BY <3>1, <3>2
  <2>7. fetch' \in FetchRecords /\ fetch'.etag = etag  BY <2>4, <2>5, <2>6 DEF FetchRecords
  <2>8. /\ job' \in JobRecords /\ job'.run = job.run /\ job'.todo = job.todo
        /\ job'.robots = job.robots /\ job.robots \in DOMAIN RobotsFiles
    BY <2>1 DEF SiteInv, Typed, TodoSound, JobRecords
  <2>9. ValidatorSound'
    BY <2>1, <2>2, <2>7, <2>8 DEF ValidatorSound, Fetching, Previous, Target
  <2> QED  BY <2>1, <2>7, <2>8, <2>9, Moving
<1>4. CASE RetryFetch
  <2>1. /\ pc = "backoff" /\ pc' = "answer" /\ fetch' = [fetch EXCEPT !.attempt = @ + 1]
        /\ UNCHANGED <<scenario, runs, job, since, targets, pages, latest>>
    BY <1>4 DEF RetryFetch
  <2>2. fetch' \in FetchRecords /\ fetch'.etag = fetch.etag
    <3>1. fetch \in FetchRecords  BY DEF SiteInv, Typed
    <3>2. PICK n : n = fetch.attempt + 1  OBVIOUS
    <3>3. n \in Int /\ fetch' = [fetch EXCEPT !.attempt = n]  BY <2>1, <3>1, <3>2 DEF FetchRecords
    <3> QED  BY <3>1, <3>3 DEF FetchRecords
  <2>3. ValidatorSound'
    BY <2>1, <2>2 DEF SiteInv, ValidatorSound, Fetching, Previous, Target
  <2>4. job' \in JobRecords /\ since' \in Int /\ job'.robots \in DOMAIN RobotsFiles
    BY <2>1 DEF SiteInv, Typed, TodoSound
  <2> QED  BY <2>1, <2>2, <2>3, <2>4, Moving
<1>5. CASE TimeOut
  <2>1. Fetching /\ Fail("failed") /\ "failed" \in FailedStatuses
    BY <1>5 DEF TimeOut, OutOfTime, FailedStatuses
  <2> QED  BY <2>1, Failing
<1>6. CASE Tick
  <2>1. /\ pc \in {"pacing", "answer", "backoff"} /\ since' = Min({since + 1, Horizon})
        /\ UNCHANGED <<scenario, runs, pc, job, targets, pages, latest>>
        /\ (fetch' = fetch \/ fetch' = [fetch EXCEPT !.sleep = @ - 1])
    BY <1>6 DEF Tick
  <2>2. fetch' \in FetchRecords /\ fetch'.etag = fetch.etag
    <3>1. fetch \in FetchRecords  BY DEF SiteInv, Typed
    <3>2. CASE fetch' = fetch  BY <3>1, <3>2
    <3>3. CASE fetch' = [fetch EXCEPT !.sleep = @ - 1]  BY <3>1, <3>3 DEF FetchRecords
    <3> QED  BY <2>1, <3>2, <3>3
  <2>3. ValidatorSound'
    BY <2>1, <2>2 DEF SiteInv, ValidatorSound, Fetching, Previous, Target
  <2>4. since' \in Int  BY <2>1, TickTyped DEF SiteInv, Typed
  <2>5. job' \in JobRecords /\ job'.robots \in DOMAIN RobotsFiles
    BY <2>1 DEF SiteInv, Typed, TodoSound
  <2> QED  BY <2>1, <2>2, <2>3, <2>4, <2>5, Moving
<1> QED  BY <1>1, <1>2, <1>3, <1>4, <1>5, <1>6 DEF JobStep

LEMMA SiteStep == SiteInv /\ [Next]_vars => SiteInv' /\ DoneKept
<1> SUFFICES ASSUME SiteInv, [Next]_vars PROVE SiteInv' /\ DoneKept  OBVIOUS
<1>1. CASE ExecuteRun  BY <1>1, NewRun
<1>2. CASE RetryRun  BY <1>2, Retrying
<1>3. CASE JobStep \/ Tick  BY <1>3, Working
<1>4. CASE Answer  BY <1>4, Answering
<1>5. CASE UNCHANGED vars
  <2>1. PagesSound' /\ DoneKept  BY <1>5, Undisturbed DEF vars
  <2>2. Typed' /\ TodoSound'  BY <1>5 DEF SiteInv, Typed, TodoSound, vars
  <2>3. ValidatorSound'
    BY <1>5 DEF SiteInv, ValidatorSound, Fetching, Previous, Target, vars
  <2> QED  BY <2>1, <2>2, <2>3 DEF SiteInv
<1> QED  BY <1>1, <1>2, <1>3, <1>4, <1>5 DEF Next

LEMMA SiteInit == Init => SiteInv
<1> SUFFICES ASSUME Init PROVE SiteInv  OBVIOUS
<1>1. NoJob \in JobRecords /\ NoFetch \in FetchRecords
  BY DEF NoJob, JobRecords, LastAsked, NoFetch, FetchRecords, BodyOrNone
<1>2. NoPage \in PageRecords /\ NoPage.status = "none"
  BY DEF NoPage, PageRecords, Nothing, NoId, BodyOrNone
<1>3. \A r \in Runs, t \in Targets : pages[r][t] = NoPage /\ targets[r][t] = "none"  BY DEF Init
<1>4. "none" \notin DoneStatuses  BY DEF DoneStatuses
<1>5. ASSUME NEW t \in Targets PROVE Sound(NoPage, t)
  <2>1. /\ NoPage.etag = NoBody /\ NoPage.hashes = NoBody /\ NoPage.content = Nothing
        /\ NoPage.unchangedFrom = NoId
    BY DEF NoPage
  <2> QED  BY <1>2, <1>4, <2>1 DEF Sound
<1>6. ASSUME NEW r \in Runs, NEW t \in Targets PROVE Sound(pages[r][t], t)
  BY <1>3, <1>5
<1>7. PagesSound  BY <1>2, <1>3, <1>4, <1>6 DEF PagesSound
<1>8. Typed
  BY <1>1, <1>2, SiteCrawlAssumption DEF Init, Typed, TargetStatuses
<1>9. TodoSound /\ ValidatorSound  BY DEF Init, TodoSound, ValidatorSound, Fetching
<1> QED  BY <1>7, <1>8, <1>9 DEF SiteInv

\* The state has its shape, and what is stored is sound, in every behaviour.
THEOREM SiteInvariance == Spec => []SiteInv
<1>1. SiteInv /\ [Next]_vars => SiteInv'  BY SiteStep
<1> QED  BY SiteInit, <1>1, PTL DEF Spec

\* What a run fetched stays as it is, whatever is retried after it
\* (WebsiteCrawlService.retry_failed selects failed targets only).
THEOREM DoneStays == Spec => DoneStaysDone
<1>1. SiteInv /\ [Next]_vars => [DoneKept]_vars  BY SiteStep
<1>2. [DoneKept]_vars =>
        [\A r \in Runs, t \in Targets :
           targets[r][t] \in DoneStatuses =>
             targets'[r][t] = targets[r][t] /\ pages'[r][t] = pages[r][t]]_vars
  BY DEF DoneKept
<1> QED  BY SiteInvariance, <1>1, <1>2, PTL DEF Spec, DoneStaysDone

\* A page found unchanged, any number of times in a row, still gives extraction all
\* that the page it was compared with gives (_build_unchanged_page, load_page_content).
THEOREM UnchangedLoad == Spec => []UnchangedPagesLoad
<1>1. SiteInv => UnchangedPagesLoad
  <2> SUFFICES ASSUME SiteInv, NEW r \in Runs, NEW t \in Targets,
                      pages[r][t].status = "unchanged"
               PROVE  /\ Exists(pages[r][t].unchangedFrom, t)
                      /\ \A kind \in Kinds : Load(pages[r][t], t, kind)
                                             = Load(PageOf(pages[r][t].unchangedFrom, t), t, kind)
    BY DEF UnchangedPagesLoad
  <2>1. PICK p : p = pages[r][t]  OBVIOUS
  <2>2. PICK q : q = PageOf(p.unchangedFrom, t)  OBVIOUS
  <2>3. /\ Exists(p.unchangedFrom, t) /\ q.status \in DoneStatuses /\ q.content = p.content
    BY <2>1, <2>2 DEF SiteInv, PagesSound, Sound
  <2>4. \A kind \in Kinds : Own(q, kind) = Own(p, kind)  BY <2>3 DEF Own
  <2>5. Sound(q, t)  BY <2>2, <2>3 DEF SiteInv, PagesSound, PageOf, Exists
  <2>6. ASSUME NEW kind \in Kinds PROVE Load(q, t, kind) = Own(q, kind)
    <3>1. CASE q.status = "unchanged"
      <4>1. PICK o : o = PageOf(q.unchangedFrom, t)  OBVIOUS
      <4>2. o.content = q.content  BY <2>5, <3>1, <4>1 DEF Sound
      <4>3. Own(o, kind) = Own(q, kind)  BY <4>2 DEF Own
      <4> QED  BY <4>1, <4>3 DEF Load, Own
    <3>2. CASE q.status # "unchanged"
      <4>1. q.unchangedFrom = NoId  BY <2>3, <2>5, <3>2 DEF Sound, DoneStatuses
      <4>2. 0 \notin Runs  BY SiteCrawlAssumption DEF Runs
      <4>3. ~Exists(q.unchangedFrom, t)  BY <4>1, <4>2 DEF Exists, NoId
      <4> QED  BY <4>3 DEF Load, Own
    <3> QED  BY <3>1, <3>2
  <2>7. ASSUME NEW kind \in Kinds PROVE Load(p, t, kind) = Own(p, kind)
    BY <2>2, <2>4 DEF Load, Own
  <2> QED  BY <2>1, <2>2, <2>3, <2>4, <2>6, <2>7
<1> QED  BY SiteInvariance, <1>1, PTL

\* What is stored of a page has the text the site served last
\* (_store_content, _build_unchanged_page, is_materially_unchanged).
THEOREM ContentCurrent == Spec => []ContentIsCurrent
<1>1. SiteInv => ContentIsCurrent
  <2> SUFFICES ASSUME SiteInv, NEW r \in Runs, NEW t \in Targets, NEW kind \in Kinds,
                      pages[r][t].content[kind] # NoBody
               PROVE  TextOf[pages[r][t].content[kind]] = TextOf[pages[r][t].served]
    BY DEF ContentIsCurrent
  <2>1. PICK p : p = pages[r][t]  OBVIOUS
  <2>2. Sound(p, t)  BY <2>1 DEF SiteInv, PagesSound
  <2>3. p.status \in DoneStatuses  BY <2>1, <2>2 DEF Sound, Nothing
  <2> QED  BY <2>1, <2>2, <2>3 DEF Sound
<1> QED  BY SiteInvariance, <1>1, PTL

-----------------------------------------------------------------------------
(* The pacing of the requests.                                             *)

\* A delay of robots.txt is a number: extract_crawl_delays keeps what parses.
LEMMA DelaysAreNumbers ==
  ASSUME NEW f \in DOMAIN RobotsFiles, NEW t \in Targets
  PROVE  PolicyOf[f][t].delay \in Int \cup {NoDelay}
<1>1. PICK lines : lines = RobotsFiles[f]  OBVIOUS
<1>2. PICK path : path = PathOf[t]  OBVIOUS
<1>3. IsText(lines) /\ MaxCrawlDelay \in Int  BY <1>1, SiteCrawlAssumption
<1>4. Policy(lines, path, MaxCrawlDelay).delay \in Int \cup {NoDelay}  BY <1>3, PolicyDelay
<1> QED  BY <1>1, <1>2, <1>4 DEF PolicyOf

\* A job that had an answer remembers when it asked; as long as a fetch is a single
\* request, and after it until the next, it is the site's last one.
Paced ==
  /\ job.last \in {"single", "several"} => job.asked
  /\ job.last = "single" /\ pc \in {"target", "pacing"} => quiet = since
  /\ pc = "answer" /\ Taken = "single" => quiet = since
  /\ Fetching => fetch.attempt > 0
  /\ job.robots = Unread => job.last = "robots"

PacingInv == SiteInv /\ Paced

LEMMA DueIsLateEnough ==
  ASSUME SiteInv, pc = "pacing", job.asked, Due
  PROVE  since >= AskedDelay
<1>1. PICK d : d = RunsDelay  OBVIOUS
<1>2. d \in Int \cup {NoDelay} /\ since \in Int
  <2>1. job.robots \in DOMAIN RobotsFiles  BY DEF SiteInv, TodoSound
  <2>2. Target \in Targets  BY TargetTyped DEF SiteInv
  <2> QED  BY <1>1, <2>1, <2>2, DelaysAreNumbers DEF RunsDelay, SiteInv, Typed
<1>3. DefaultDelay \in Int /\ MinDelay \in Int  BY SiteCrawlAssumption
<1> DEFINE asked == {DefaultDelay} \cup (IF d = NoDelay THEN {} ELSE {d})
           kept == {DefaultDelay, MinDelay} \cup (IF d = NoDelay THEN {} ELSE {d})
<1>4. asked \subseteq kept /\ kept \subseteq Int  BY <1>2, <1>3
<1>5. PICK m \in asked : \A x \in asked : m >= x
  <2>1. CASE d = NoDelay  BY <1>3, <2>1
  <2>2. CASE d # NoDelay
    <3>1. d \in Int  BY <1>2, <2>2
    <3>2. CASE d >= DefaultDelay  BY <1>3, <2>2, <3>1, <3>2
    <3>3. CASE DefaultDelay >= d  BY <1>3, <2>2, <3>1, <3>3
    <3> QED  BY <1>3, <3>1, <3>2, <3>3
  <2> QED  BY <2>1, <2>2
<1>6. PICK k \in kept : \A x \in kept : k >= x
  <2>1. CASE m >= MinDelay  BY <1>3, <1>4, <1>5, <2>1
  <2>2. CASE MinDelay >= m  BY <1>3, <1>4, <1>5, <2>2
  <2> QED  BY <1>3, <1>4, <1>5, <2>1, <2>2
<1> HIDE DEF asked, kept
<1>7. Max(asked) \in asked  BY <1>4, <1>5, MaxOf
<1>8. \A x \in kept : Max(kept) >= x  BY <1>4, <1>6, MaxOf
<1>9. Max(kept) \in kept  BY <1>4, <1>6, MaxOf
<1>10. Max(kept) >= Max(asked)  BY <1>4, <1>7, <1>8
<1>11. since >= Max(kept)  BY <1>1 DEF Due, EffectiveDelay, kept
<1>12. since >= Max(asked)
  <2>1. PICK a, b : a = Max(asked) /\ b = Max(kept)  OBVIOUS
  <2>2. a \in Int /\ b \in Int /\ b >= a /\ since >= b
    BY <1>4, <1>7, <1>9, <1>10, <1>11, <2>1
  <2>3. since >= a  BY <1>2, <2>2
  <2> QED  BY <2>1, <2>3
<1> QED  BY <1>1, <1>12 DEF AskedDelay, asked

LEMMA ProceedPaced ==
  ASSUME SiteInv, Paced, pc # "idle", job.robots # Unread,
         NEW asked \in BOOLEAN, NEW last \in LastAsked, Proceed(asked, last),
         last \in {"single", "several"} => asked, last = "single" => quiet = since
  PROVE  Paced'
<1>1. job \in JobRecords  BY DEF SiteInv, Typed
<1>2. CASE Tail(job.todo) = <<>>
  <2>1. pc' = "idle" /\ job'.last = "robots"  BY <1>2 DEF Proceed, NoJob
  <2> QED  BY <2>1 DEF Paced, Fetching
<1>3. CASE Tail(job.todo) # <<>>
  <2>1. PICK rest : rest = Tail(job.todo)  OBVIOUS
  <2>2. /\ job' = [job EXCEPT !.todo = rest, !.asked = asked, !.last = last]
        /\ pc' = "target" /\ quiet' = quiet /\ since' = since
    BY <1>3, <2>1 DEF Proceed
  <2>3. (job'.asked <=> asked) /\ job'.last = last /\ job'.robots = job.robots
    BY <1>1, <2>2 DEF JobRecords
  <2> QED  BY <2>2, <2>3 DEF Paced, Fetching
<1> QED  BY <1>2, <1>3

\* An answer of any kind that ends a fetch.
LEMMA AnsweredPaced ==
  ASSUME SiteInv, Paced, Fetching,
         Proceed(FALSE, "failed") \/ (pc = "answer" /\ Proceed(TRUE, Taken))
  PROVE  Paced'
<1>1. pc # "idle" /\ job.robots # Unread
  BY SiteCrawlAssumption DEF Fetching, SiteInv, TodoSound
<1>2. CASE Proceed(FALSE, "failed")
  <2>1. PICK last \in LastAsked : last = "failed"  BY DEF LastAsked
  <2> QED  BY <1>1, <1>2, <2>1, ProceedPaced
<1>3. CASE pc = "answer" /\ Proceed(TRUE, Taken)
  <2>1. PICK last \in LastAsked : last = Taken  BY TakenTyped
  <2>2. Proceed(TRUE, last)  BY <1>3, <2>1
  <2>3. last = "single" => quiet = since  BY <1>3, <2>1 DEF Paced
  <2> QED  BY <1>1, <2>2, <2>3, ProceedPaced
<1> QED  BY <1>2, <1>3

LEMMA PacingStep ==
  ASSUME PacingInv, [Next]_vars
  PROVE  Paced'
<1> USE DEF PacingInv
<1>1. job \in JobRecords /\ fetch \in FetchRecords  BY DEF SiteInv, Typed
<1>2. ASSUME NEW status, Fetching, Fail(status) PROVE Paced'
  <2>1. Proceed(FALSE, "failed")  BY <1>2 DEF Fail
  <2> QED  BY <1>2, <2>1, AnsweredPaced
<1>3. ASSUME NEW run, NEW todo, NEW force, Begin(run, todo, force) PROVE Paced'
  <2>1. pc' = "target" /\ job'.last = "robots"  BY <1>3 DEF Begin, NoJob
  <2> QED  BY <2>1 DEF Paced, Fetching
<1>4. CASE ExecuteRun
  <2>1. PICK force \in scenario.force : Begin(runs + 1, scenario.order, force)
    BY <1>4 DEF ExecuteRun
  <2> QED  BY <1>3, <2>1
<1>5. CASE RetryRun
  <2>1. \E r \in 1..runs : \E todo \in Ascending(TargetsToRetry(r)) : Begin(r, todo, FALSE)
    BY <1>5 DEF RetryRun
  <2> QED  BY <1>3, <2>1
<1>6. CASE FetchRobots
  <2>1. pc = "target" /\ pc' = "target" /\ job.robots = Unread  BY <1>6 DEF FetchRobots
  <2>2. PICK file \in scenario.robots : job' = [job EXCEPT !.robots = file]  BY <1>6 DEF FetchRobots
  <2>3. job'.last = job.last  BY <1>1, <2>2 DEF JobRecords
  <2> QED  BY <2>1, <2>3 DEF Paced, Fetching
<1>7. CASE CheckPolicy
  <2>1. pc = "target" /\ job.robots # Unread  BY <1>7 DEF CheckPolicy
  <2>2. CASE pc' = "pacing" /\ UNCHANGED <<job, since, quiet>>  BY <2>1, <2>2 DEF Paced, Fetching
  <2>3. CASE Proceed(job.asked, job.last)
    <3>1. PICK asked \in BOOLEAN : asked <=> job.asked  OBVIOUS
    <3>2. PICK last \in LastAsked : last = job.last  BY <1>1 DEF JobRecords
    <3>3. job.asked \in BOOLEAN  BY <1>1 DEF JobRecords
    <3>4. Proceed(asked, last)  BY <2>3, <3>1, <3>2, <3>3 DEF Proceed
    <3>5. (last \in {"single", "several"} => asked) /\ (last = "single" => quiet = since)
      BY <2>1, <3>1, <3>2 DEF Paced
    <3> QED  BY <2>1, <3>4, <3>5, ProceedPaced
  <2> QED  BY <1>7, <2>2, <2>3 DEF CheckPolicy
<1>8. CASE Send
  <2>1. /\ job' = [job EXCEPT !.asked = TRUE] /\ pc' = "answer" /\ since' = 0 /\ quiet' = 0
        /\ pc = "pacing"
    BY <1>8 DEF Send
  <2>2. fetch'.attempt = 1  BY <1>8 DEF Send
  <2>3. job'.asked /\ job'.last = job.last /\ job'.robots = job.robots  BY <1>1, <2>1 DEF JobRecords
  <2> QED  BY <2>1, <2>2, <2>3 DEF Paced, Fetching
<1>9. CASE RetryFetch
  <2>1. /\ fetch' = [fetch EXCEPT !.attempt = @ + 1] /\ pc = "backoff" /\ pc' = "answer"
        /\ UNCHANGED job
    BY <1>9 DEF RetryFetch
  <2>2. fetch'.attempt = fetch.attempt + 1  BY <1>1, <2>1 DEF FetchRecords
  <2>3. fetch.attempt \in Int /\ fetch.attempt > 0  BY <1>1, <2>1 DEF Paced, Fetching, FetchRecords
  <2>4. fetch'.attempt > 1  BY <2>2, <2>3
  <2>5. fetch'.attempt > 0 /\ Taken' = "several"  BY <2>2, <2>3, <2>4 DEF Taken
  <2> QED  BY <2>1, <2>5 DEF Paced
<1>10. CASE TimeOut  BY <1>2, <1>10 DEF TimeOut, OutOfTime
<1>11. CASE AnswerUnusable  BY <1>2, <1>11 DEF AnswerUnusable, Asked, Fetching
<1>12. CASE AnswerNotModified
  <2>1. pc = "answer" /\ Proceed(TRUE, Taken)  BY <1>12 DEF AnswerNotModified, Asked
  <2> QED  BY <2>1, AnsweredPaced DEF Fetching
<1>13. CASE AnswerPage
  <2>1. pc = "answer" /\ (Proceed(TRUE, Taken) \/ Proceed(FALSE, "failed"))
    BY <1>13 DEF AnswerPage, Asked
  <2> QED  BY <2>1, AnsweredPaced DEF Fetching
<1>14. CASE AnswerRedirect
  <2>1. pc = "answer"  BY <1>14 DEF AnswerRedirect, Asked
  <2>2. CASE Fail("failed")  BY <1>2, <2>1, <2>2 DEF Fetching
  <2>3. CASE ~Fail("failed")
    <3>1. PICK to \in scenario.hops : fetch' = [fetch EXCEPT !.hops = @ + 1, !.at = to]
      BY <1>14, <2>3 DEF AnswerRedirect
    <3>2. UNCHANGED <<pc, job>>  BY <1>14, <2>3 DEF AnswerRedirect
    <3>3. fetch'.hops = fetch.hops + 1 /\ fetch'.attempt = fetch.attempt /\ fetch.hops \in Nat
      BY <1>1, <3>1 DEF FetchRecords
    <3>4. fetch'.hops > 0  BY <3>3
    <3>5. Taken' = "several"  BY <3>4 DEF Taken
    <3> QED  BY <2>1, <3>2, <3>3, <3>5 DEF Paced, Fetching
  <2> QED  BY <2>2, <2>3
<1>15. CASE AnswerTransient
  <2>1. pc = "answer"  BY <1>15 DEF AnswerTransient, Asked
  <2>2. CASE LastAttempt  BY <1>2, <1>15, <2>1, <2>2 DEF AnswerTransient, Fetching
  <2>3. CASE ~LastAttempt
    <3>1. /\ \E sleep : fetch' = [fetch EXCEPT !.sleep = sleep, !.hops = 0, !.at = Target]
          /\ pc' = "backoff" /\ UNCHANGED job
      BY <1>15, <2>3 DEF AnswerTransient
    <3>2. fetch'.attempt = fetch.attempt  BY <1>1, <3>1 DEF FetchRecords
    <3> QED  BY <2>1, <3>1, <3>2 DEF Paced, Fetching
  <2> QED  BY <2>2, <2>3
<1>16. CASE AnswerDeadly
  <2>1. pc' = "idle" /\ job'.last = "robots"  BY <1>16 DEF AnswerDeadly, NoJob
  <2> QED  BY <2>1 DEF Paced, Fetching
<1>17. CASE Tick
  <2>1. /\ pc \in {"pacing", "answer", "backoff"} /\ UNCHANGED <<pc, job>>
        /\ since' = Min({since + 1, Horizon}) /\ quiet' = Min({quiet + 1, Horizon})
        /\ (fetch' = fetch \/ fetch' = [fetch EXCEPT !.sleep = @ - 1])
    BY <1>17 DEF Tick
  <2>2. fetch'.attempt = fetch.attempt /\ fetch'.hops = fetch.hops  BY <1>1, <2>1 DEF FetchRecords
  <2>3. Taken' = Taken  BY <2>2 DEF Taken
  <2>4. quiet = since => quiet' = since'  BY <2>1
  <2> QED  BY <2>1, <2>2, <2>3, <2>4 DEF Paced, Fetching
<1>18. CASE UNCHANGED vars  BY <1>18 DEF vars, Paced, Fetching, Taken
<1> QED
  BY <1>4, <1>5, <1>6, <1>7, <1>8, <1>9, <1>10, <1>11, <1>12, <1>13, <1>14, <1>15, <1>16, <1>17, <1>18
     DEF Next, JobStep, Answer

\* While a fetch goes on its requests are not older than itself, and what is left
\* of a pause adds up with the time since the last request to all of a pause.
Waiting ==
  /\ Fetching => quiet \in Nat /\ quiet <= since
  /\ pc = "backoff" => \E pause \in Pauses : quiet + fetch.sleep >= pause

LEMMA WaitStep ==
  ASSUME SiteInv, Waiting, [Next]_vars
  PROVE  Waiting'
<1>1. ASSUME pc' \in {"idle", "target", "pacing"} PROVE Waiting'  BY <1>1 DEF Waiting, Fetching
<1>2. since \in Int /\ fetch \in FetchRecords  BY DEF SiteInv, Typed
<1>3. ASSUME NEW asked, NEW last, Proceed(asked, last) PROVE Waiting'  BY <1>1, <1>3 DEF Proceed
<1>4. ASSUME NEW status, Fail(status) PROVE Waiting'  BY <1>3, <1>4 DEF Fail
<1>5. CASE ExecuteRun \/ RetryRun  BY <1>1, <1>5 DEF ExecuteRun, RetryRun, Begin
<1>6. CASE FetchRobots  BY <1>1, <1>6 DEF FetchRobots
<1>7. CASE CheckPolicy  BY <1>1, <1>3, <1>7 DEF CheckPolicy
<1>8. CASE Send  BY <1>8 DEF Send, Waiting, Fetching
<1>9. CASE RetryFetch  BY <1>2, <1>9 DEF RetryFetch, Waiting, Fetching
<1>10. CASE TimeOut  BY <1>4, <1>10 DEF TimeOut
<1>11. CASE AnswerUnusable  BY <1>4, <1>11 DEF AnswerUnusable
<1>12. CASE AnswerNotModified  BY <1>3, <1>12 DEF AnswerNotModified
<1>13. CASE AnswerPage  BY <1>3, <1>13 DEF AnswerPage
<1>14. CASE AnswerRedirect
  <2>1. CASE Fail("failed")  BY <1>4, <2>1
  <2>2. CASE ~Fail("failed")
    <3>1. quiet' \in {0, quiet} /\ UNCHANGED <<pc, since>> /\ pc = "answer"
      BY <1>14, <2>2 DEF AnswerRedirect, Asked
    <3> QED  BY <1>2, <3>1 DEF Waiting, Fetching
  <2> QED  BY <2>1, <2>2
<1>15. CASE AnswerTransient
  <2>1. CASE LastAttempt  BY <1>4, <1>15, <2>1 DEF AnswerTransient
  <2>2. CASE ~LastAttempt
    <3>1. PICK sleep \in Pauses : fetch' = [fetch EXCEPT !.sleep = sleep, !.hops = 0, !.at = Target]
      BY <1>15, <2>2 DEF AnswerTransient
    <3>2. pc' = "backoff" /\ UNCHANGED <<scenario, since, quiet>> /\ pc = "answer"
      BY <1>15, <2>2 DEF AnswerTransient, Asked
    <3>3. fetch'.sleep = sleep /\ fetch'.attempt = fetch.attempt  BY <1>2, <3>1 DEF FetchRecords
    <3>4. Pauses' = Pauses  BY <3>2, <3>3 DEF Pauses, Backoffs
    <3>5. quiet \in Nat /\ quiet <= since  BY <3>2 DEF Waiting, Fetching
    <3>6. quiet' + fetch'.sleep >= sleep
      <4>1. PICK n : n = sleep  OBVIOUS
      <4>2. n \in Int  BY <4>1, PausesTyped
      <4>3. quiet + n >= n  BY <3>5, <4>2
      <4> QED  BY <3>2, <3>3, <4>1, <4>3
    <3> QED  BY <3>2, <3>4, <3>5, <3>6 DEF Waiting
  <2> QED  BY <2>1, <2>2
<1>16. CASE AnswerDeadly  BY <1>1, <1>16 DEF AnswerDeadly
<1>17. CASE Tick
  <2>1. CASE pc = "pacing"
    <3>1. pc' = "pacing"  BY <1>17, <2>1 DEF Tick
    <3> QED  BY <1>1, <3>1
  <2>2. CASE pc \in {"answer", "backoff"}
    <3>1. /\ since < TotalTimeout /\ UNCHANGED <<scenario, pc>>
          /\ since' = Min({since + 1, Horizon}) /\ quiet' = Min({quiet + 1, Horizon})
      BY <1>17, <2>2 DEF Tick
    <3>2. quiet \in Nat /\ quiet <= since  BY <2>2 DEF Waiting, Fetching
    <3>3. TotalTimeout \in Nat /\ Horizon \in Nat /\ Horizon >= TotalTimeout
      BY HorizonTyped, SiteCrawlAssumption
    <3>4. ASSUME NEW n \in Int, n =< since PROVE Min({n + 1, Horizon}) = n + 1
      <4>1. PICK h \in Nat : h = Horizon  BY <3>3
      <4>2. n + 1 =< h  BY <1>2, <3>1, <3>3, <3>4, <4>1
      <4>3. Min({n + 1, h}) = n + 1  BY <4>2 DEF Min
      <4> QED  BY <4>1, <4>3
    <3>5. since' = since + 1 /\ quiet' = quiet + 1  BY <1>2, <3>1, <3>2, <3>4
    <3>6. quiet' \in Nat /\ quiet' <= since'  BY <1>2, <3>2, <3>5
    <3>7. CASE pc = "backoff"
      <4>1. fetch' = [fetch EXCEPT !.sleep = @ - 1]  BY <1>17, <3>7 DEF Tick
      <4>2. fetch'.sleep = fetch.sleep - 1 /\ fetch'.attempt = fetch.attempt /\ fetch.sleep \in Int
        BY <1>2, <4>1 DEF FetchRecords
      <4>3. Pauses' = Pauses  BY <3>1, <4>2 DEF Pauses, Backoffs
      <4>4. PICK pause \in Pauses : quiet + fetch.sleep >= pause  BY <3>7 DEF Waiting
      <4>5. quiet' + fetch'.sleep = quiet + fetch.sleep  BY <3>2, <3>5, <4>2
      <4>6. quiet' + fetch'.sleep >= pause  BY <4>4, <4>5
      <4> QED  BY <3>6, <4>3, <4>6 DEF Waiting
    <3> QED  BY <2>2, <3>1, <3>6, <3>7 DEF Waiting
  <2> QED  BY <1>17, <2>1, <2>2 DEF Tick
<1>18. CASE UNCHANGED vars  BY <1>18 DEF vars, Waiting, Fetching, Pauses, Backoffs
<1> QED
  BY <1>5, <1>6, <1>7, <1>8, <1>9, <1>10, <1>11, <1>12, <1>13, <1>14, <1>15, <1>16, <1>17, <1>18
     DEF Next, JobStep, Answer

\* A fetch that follows one that was answered begins no sooner than the configuration
\* and robots.txt allow, after a single request also no sooner since the site's last
\* one, and a retry waits for a pause (_process_target, RequestPacer, _fetch_with_retries).
THEOREM FetchesPaced == Spec => FetchesArePaced
<1> DEFINE Kept == /\ Send => \/ job.last \in {"robots", "failed"}
                              \/ since >= AskedDelay /\ (job.last = "single" => quiet >= AskedDelay)
                   /\ RetryFetch => \E pause \in Pauses : quiet >= pause
           Pacing == PacingInv /\ Waiting
<1>1. Init => Paced /\ Waiting  BY DEF Init, Paced, Waiting, NoJob, Fetching
<1>2. Pacing /\ [Next]_vars => Pacing'
  <2> SUFFICES ASSUME Pacing, [Next]_vars PROVE Pacing'  OBVIOUS
  <2>1. SiteInv'  BY SiteStep DEF PacingInv
  <2>2. Paced'  BY PacingStep
  <2>3. Waiting'  BY WaitStep DEF PacingInv
  <2> QED  BY <2>1, <2>2, <2>3 DEF PacingInv
<1>3. ASSUME Pacing, Send, job.last \notin {"robots", "failed"}
      PROVE  since >= AskedDelay /\ (job.last = "single" => quiet >= AskedDelay)
  <2>1. pc = "pacing" /\ Due  BY <1>3 DEF Send
  <2>2. job.last \in {"single", "several"}
    BY <1>3 DEF PacingInv, SiteInv, Typed, JobRecords, LastAsked
  <2>3. job.asked  BY <1>3, <2>2 DEF PacingInv, Paced
  <2>4. since >= AskedDelay  BY <1>3, <2>1, <2>3, DueIsLateEnough DEF PacingInv
  <2>5. job.last = "single" => quiet = since  BY <1>3, <2>1 DEF PacingInv, Paced
  <2> QED  BY <2>4, <2>5
<1>4. ASSUME Pacing, RetryFetch PROVE \E pause \in Pauses : quiet >= pause
  <2>1. pc = "backoff" /\ fetch.sleep = 0  BY <1>4 DEF RetryFetch
  <2>2. PICK pause \in Pauses : quiet + fetch.sleep >= pause  BY <1>4, <2>1 DEF Waiting
  <2>3. quiet \in Nat  BY <1>4, <2>1 DEF Waiting, Fetching
  <2>4. quiet >= pause  BY <2>1, <2>2, <2>3
  <2> QED  BY <2>4
<1>5. Pacing /\ [Next]_vars => [Kept]_vars  BY <1>3, <1>4
<1>6. [Kept]_vars =>
        [/\ Send => \/ job.last \in {"robots", "failed"}
                    \/ since >= AskedDelay /\ (job.last = "single" => quiet >= AskedDelay)
         /\ RetryFetch => \E pause \in Pauses : quiet >= pause]_vars
  OBVIOUS
<1>7. SiteInv /\ Paced /\ Waiting => Pacing  BY DEF PacingInv
<1> HIDE DEF Kept, Pacing
<1> QED  BY SiteInit, <1>1, <1>2, <1>5, <1>6, <1>7, PTL DEF Spec, FetchesArePaced

-----------------------------------------------------------------------------
(* robots.txt.                                                             *)

LEMMA DisallowedIffForbidden ==
  ASSUME NEW f \in DOMAIN RobotsFiles, NEW t \in Targets
  PROVE  PolicyOf[f][t].outcome = "disallowed" <=> ForbiddenTo[f][t]
<1>1. PICK lines : lines = RobotsFiles[f]  OBVIOUS
<1>2. PICK path : path = PathOf[t]  OBVIOUS
<1>3. IsText(lines) /\ path \in Seq(STRING)  BY <1>1, <1>2, SiteCrawlAssumption
<1>4. Outcome(RuleGroups(lines), path) = "disallowed" <=> Forbidden(lines, path)
  BY <1>3, OutcomeIsStandard
<1>5. PolicyOf[f][t].outcome = Outcome(RuleGroups(lines), path)
  BY <1>1, <1>2 DEF PolicyOf, Policy
<1>6. ForbiddenTo[f][t] <=> Forbidden(lines, path)  BY <1>1, <1>2 DEF ForbiddenTo
<1> QED  BY <1>4, <1>5, <1>6

\* No fetch is begun for a path that is forbidden, and its first request is for it.
Obeying ==
  /\ pc \in {"pacing", "answer", "backoff"} => ~ForbiddenTo[job.robots][Target]
  /\ Fetching /\ fetch.hops = 0 => fetch.at = Target

LEMMA ObeyStep ==
  ASSUME SiteInv, Obeying, [Next]_vars
  PROVE  Obeying'
<1>1. ASSUME pc' \in {"idle", "target"} PROVE Obeying'  BY <1>1 DEF Obeying, Fetching
<1>2. ASSUME pc \in {"pacing", "answer", "backoff"}, job'.robots = job.robots, job'.todo = job.todo,
             (Fetching /\ fetch.hops = 0)' => fetch'.at = Target
      PROVE  Obeying'
  BY <1>2 DEF Obeying, Target
<1>3. job \in JobRecords /\ fetch \in FetchRecords  BY DEF SiteInv, Typed
<1>4. ASSUME NEW asked, NEW last, Proceed(asked, last) PROVE pc' \in {"idle", "target"}
  BY <1>4 DEF Proceed
<1>5. ASSUME NEW status, Fail(status) PROVE Obeying'  BY <1>1, <1>4, <1>5 DEF Fail
<1>6. CASE ExecuteRun \/ RetryRun  BY <1>1, <1>6 DEF ExecuteRun, RetryRun, Begin
<1>7. CASE FetchRobots  BY <1>1, <1>7 DEF FetchRobots
<1>8. CASE CheckPolicy
  <2>1. CASE PolicyOf[job.robots][Target].outcome = "disallowed"
    BY <1>1, <1>4, <1>8, <2>1 DEF CheckPolicy
  <2>2. CASE PolicyOf[job.robots][Target].outcome # "disallowed"
    <3>1. UNCHANGED job /\ pc = "target" /\ pc' = "pacing" /\ job.robots # Unread
      BY <1>8, <2>2 DEF CheckPolicy
    <3>2. PICK f : f = job.robots  OBVIOUS
    <3>3. PICK t : t = Target  OBVIOUS
    <3>4. f \in DOMAIN RobotsFiles /\ t \in Targets
      BY <1>3, <3>1, <3>2, <3>3, TargetTyped DEF SiteInv, JobRecords
    <3>5. ~ForbiddenTo[f][t]  BY <2>2, <3>2, <3>3, <3>4, DisallowedIffForbidden
    <3>6. ~ForbiddenTo[job.robots][Target]  BY <3>2, <3>3, <3>5
    <3> QED  BY <3>1, <3>6 DEF Obeying, Fetching, Target
  <2> QED  BY <2>1, <2>2
<1>9. CASE Send
  <2>1. job' = [job EXCEPT !.asked = TRUE] /\ pc = "pacing" /\ fetch'.at = Target  BY <1>9 DEF Send
  <2>2. job'.robots = job.robots /\ job'.todo = job.todo  BY <1>3, <2>1 DEF JobRecords
  <2> QED  BY <1>2, <2>1, <2>2
<1>10. CASE RetryFetch
  <2>1. /\ pc = "backoff" /\ UNCHANGED job /\ fetch' = [fetch EXCEPT !.attempt = @ + 1]
    BY <1>10 DEF RetryFetch
  <2>2. fetch'.at = fetch.at /\ fetch'.hops = fetch.hops  BY <1>3, <2>1 DEF FetchRecords
  <2>3. fetch'.hops = 0 => fetch'.at = Target  BY <2>1, <2>2 DEF Obeying, Fetching
  <2> QED  BY <1>2, <2>1, <2>3
<1>11. CASE TimeOut  BY <1>5, <1>11 DEF TimeOut
<1>12. CASE AnswerUnusable  BY <1>5, <1>12 DEF AnswerUnusable
<1>13. CASE AnswerNotModified  BY <1>1, <1>4, <1>13 DEF AnswerNotModified
<1>14. CASE AnswerPage  BY <1>1, <1>4, <1>14 DEF AnswerPage
<1>15. CASE AnswerRedirect
  <2>1. pc = "answer"  BY <1>15 DEF AnswerRedirect, Asked
  <2>2. CASE Fail("failed")  BY <1>5, <2>2
  <2>3. CASE ~Fail("failed")
    <3>1. /\ \E to \in scenario.hops : fetch' = [fetch EXCEPT !.hops = @ + 1, !.at = to]
          /\ UNCHANGED job
      BY <1>15, <2>3 DEF AnswerRedirect
    <3>2. fetch'.hops = fetch.hops + 1 /\ fetch.hops \in Nat  BY <1>3, <3>1 DEF FetchRecords
    <3>3. fetch'.hops # 0  BY <3>2
    <3> QED  BY <1>2, <2>1, <3>1, <3>3
  <2> QED  BY <2>2, <2>3
<1>16. CASE AnswerTransient
  <2>1. pc = "answer"  BY <1>16 DEF AnswerTransient, Asked
  <2>2. CASE LastAttempt  BY <1>5, <1>16, <2>2 DEF AnswerTransient
  <2>3. CASE ~LastAttempt
    <3>1. PICK u : u = Target  OBVIOUS
    <3>2. /\ \E sleep : fetch' = [fetch EXCEPT !.sleep = sleep, !.hops = 0, !.at = u]
          /\ UNCHANGED job
      BY <1>16, <2>3, <3>1 DEF AnswerTransient
    <3>3. fetch'.at = u  BY <1>3, <3>2 DEF FetchRecords
    <3> QED  BY <1>2, <2>1, <3>1, <3>2, <3>3
  <2> QED  BY <2>2, <2>3
<1>17. CASE AnswerDeadly  BY <1>1, <1>17 DEF AnswerDeadly
<1>18. CASE Tick
  <2>1. /\ pc \in {"pacing", "answer", "backoff"} /\ UNCHANGED <<pc, job>>
        /\ (fetch' = fetch \/ fetch' = [fetch EXCEPT !.sleep = @ - 1])
    BY <1>18 DEF Tick
  <2>2. fetch'.at = fetch.at /\ fetch'.hops = fetch.hops  BY <1>3, <2>1 DEF FetchRecords
  <2>3. (Fetching /\ fetch.hops = 0)' => fetch'.at = Target  BY <2>1, <2>2 DEF Obeying, Fetching
  <2> QED  BY <1>2, <2>1, <2>3
<1>19. CASE UNCHANGED vars  BY <1>19 DEF vars, Target, Obeying, Fetching
<1> QED
  BY <1>6, <1>7, <1>8, <1>9, <1>10, <1>11, <1>12, <1>13, <1>14, <1>15, <1>16, <1>17, <1>18, <1>19
     DEF Next, JobStep, Answer

\* Only a redirect of the site makes the job ask for a path that its robots.txt
\* forbids, as the standard reads it (evaluate_robots_policy, _process_target).
THEOREM RobotsAreObeyed == Spec => []RobotsObeyed
<1>1. Init => Obeying  BY DEF Init, Obeying, Fetching
<1>2. SiteInv /\ Obeying /\ [Next]_vars => Obeying'  BY ObeyStep
<1>3. SiteInv /\ Obeying => RobotsObeyed
  <2> SUFFICES ASSUME SiteInv, Obeying, ForbiddenRequest PROVE fetch.hops > 0
    BY DEF RobotsObeyed
  <2>1. fetch.hops # 0  BY DEF ForbiddenRequest, Obeying, Fetching
  <2>2. fetch.hops \in Nat  BY DEF SiteInv, Typed, FetchRecords
  <2> QED  BY <2>1, <2>2
<1> QED  BY SiteInvariance, <1>1, <1>2, <1>3, PTL DEF Spec
-----------------------------------------------------------------------------
(* Markup: the parser's modes and events.                                  *)

\* Of the strings a prover knows which are written down, not that they are strings.
Names == STRING \cup {"none", "script", "ld", "style"}
Marks == [kind : {"open", "close", "word", "alt", "spelled"}, of : Names]
ParseEvents == [kind : {"open", "close", "alt"}, of : Names] \cup [kind : {"data"}, of : Marks]

LEMMA MarksTyped ==
  /\ \A t \in Names : Open(t) \in Marks /\ EndOf(t) \in Marks
  /\ \A t \in Names : EndOf(t).kind = "close" /\ EndOf(t) \in ParseEvents
  /\ \A s \in Marks : Data(s) \in ParseEvents
<1>1. \A t \in Names : Open(t) \in Marks /\ Close(t) \in Marks  BY DEF Open, Close, Marks
<1>2. \A t \in Names : (IF t \in ScriptTags THEN "script" ELSE t) \in Names  BY DEF Names
<1>3. \A t \in Names : EndOf(t) \in Marks /\ EndOf(t).kind = "close" /\ EndOf(t) \in ParseEvents
  BY <1>1, <1>2 DEF EndOf, Close, ParseEvents
<1>4. \A s \in Marks : Data(s) \in ParseEvents  BY DEF Data, ParseEvents
<1> QED  BY <1>1, <1>3, <1>4

\* What the parser makes of a symbol, in the two kinds of modes.
LEMMA EventIs ==
  ASSUME NEW mode \in Names, NEW s \in Marks, NEW e, e = EventOf(mode, s)
  PROVE  /\ e \in ParseEvents
         /\ mode # "none" /\ s = EndOf(mode) => e = s
         /\ mode # "none" /\ s # EndOf(mode) => e.kind = "data" /\ e.of = s
         /\ mode = "none" /\ s.kind = "word" => e.kind = "data" /\ e.of = s
         /\ mode = "none" /\ s.kind = "spelled" => e.kind = "data" /\ e.of = Open(s.of)
         /\ mode = "none" /\ s.kind \notin {"word", "spelled"} => e = s
<1>1. Data(s).kind = "data" /\ Data(s).of = s /\ Data(s) \in ParseEvents
  BY MarksTyped DEF Data
<1>2. PICK opened : opened = Open(s.of)  OBVIOUS
<1>3. s.kind \in {"open", "close", "word", "alt", "spelled"} /\ s.of \in Names  BY DEF Marks
<1>4. Data(opened).kind = "data" /\ Data(opened).of = opened /\ Data(opened) \in ParseEvents
  BY <1>2, <1>3, MarksTyped DEF Data
<1>5. CASE mode # "none"
  <2>1. s = EndOf(mode) => s \in ParseEvents  BY MarksTyped
  <2> QED  BY <1>1, <1>5, <2>1 DEF EventOf
<1>6. CASE mode = "none"
  <2>1. s.kind \notin {"word", "spelled"} => s \in ParseEvents  BY <1>3 DEF ParseEvents, Marks
  <2> QED  BY <1>1, <1>2, <1>3, <1>4, <1>6, <2>1 DEF EventOf
<1> QED  BY <1>5, <1>6

LEMMA MarkupTyped ==
  ASSUME NEW S, NEW s \in Seq(S)
  PROVE  \E N \in Nat : N = Len(s) /\ DOMAIN s = 1..N /\ \A n \in 1..N : s[n] \in S
OBVIOUS

LEMMA ModesRun ==
  ASSUME NEW markup \in Seq(Marks)
  PROVE  /\ Modes(markup) \in [0..Len(markup) -> Names]
         /\ Modes(markup)[0] = "none"
         /\ \A n \in 1..Len(markup) : Modes(markup)[n] = NextMode(Modes(markup)[n - 1], markup[n])
<1>1. PICK N \in Nat : N = Len(markup) /\ \A n \in 1..N : markup[n] \in Marks  BY MarkupTyped
<1> DEFINE G == [n \in 1..N |-> [mode \in Names |-> NextMode(mode, markup[n])]]
           Equation(mode) ==
             mode = [n \in 0..Len(markup) |->
                       IF n = 0 THEN "none" ELSE NextMode(mode[n - 1], markup[n])]
<1>2. \A n \in 1..N : \A mode \in Names : NextMode(mode, markup[n]) \in Names
  BY <1>1 DEF NextMode, Marks, Names
<1>3. G \in [1..N -> [Names -> Names]]  BY <1>2
<1>4. PICK f \in [0..N -> Names] : f[0] = "none" /\ \A n \in 1..N : f[n] = G[n][f[n - 1]]
  <2>1. PICK H : H = G  OBVIOUS
  <2>2. H \in [1..N -> [Names -> Names]]  BY <1>3, <2>1
  <2> HIDE DEF G
  <2>3. "none" \in Names  BY DEF Names
  <2>4. Successions(N, Names, "none", H) # {}  BY <2>2, <2>3, Successive
  <2> QED  BY <2>1, <2>4 DEF Successions
<1>5. ASSUME NEW n \in 1..N PROVE f[n] = NextMode(f[n - 1], markup[n])
  <2>1. n - 1 \in 0..N  OBVIOUS
  <2> QED  BY <1>4, <2>1
<1>6. Equation(f)
  <2>1. ASSUME NEW n \in 0..N PROVE f[n] = IF n = 0 THEN "none" ELSE NextMode(f[n - 1], markup[n])
    <3>1. n = 0 \/ n \in 1..N  OBVIOUS
    <3> QED  BY <1>4, <1>5, <3>1
  <2> QED  BY <1>1, <2>1
<1>7. PICK mode : mode = CHOOSE x : Equation(x)  OBVIOUS
<1>8. Equation(mode)
  <2> HIDE DEF Equation
  <2> QED  BY <1>6, <1>7
<1>9. Modes(markup) = mode  BY <1>7 DEF Modes
<1>10. mode[0] = "none" /\ \A n \in 1..N : mode[n] = NextMode(mode[n - 1], markup[n])
  BY <1>1, <1>8
<1> DEFINE S == {n \in 0..N : mode[n] \in Names}
<1>11. 0 \in S  BY <1>10 DEF Names
<1>12. ASSUME NEW n \in 0..N, n \in S, n < N PROVE n + 1 \in S
  <2>1. n + 1 \in 1..N /\ (n + 1) - 1 = n  BY <1>12
  <2>2. mode[n + 1] = NextMode(mode[n], markup[n + 1])  BY <1>10, <2>1
  <2>3. mode[n] \in Names  BY <1>12
  <2>4. NextMode(mode[n], markup[n + 1]) \in Names  BY <1>2, <2>1, <2>3
  <2>5. n + 1 \in 0..N /\ mode[n + 1] \in Names  BY <2>1, <2>2, <2>4
  <2> QED  BY <2>5
<1>13. 0..N \subseteq S
  <2> HIDE DEF S
  <2> QED  BY <1>11, <1>12, Counting
<1>14. mode \in [0..N -> Names]
  <2>1. \A n \in 0..N : mode[n] \in Names  BY <1>13
  <2> QED  BY <1>1, <1>8, <2>1
<1> QED  BY <1>1, <1>9, <1>10, <1>14

LEMMA EventsAre ==
  ASSUME NEW markup \in Seq(Marks)
  PROVE  /\ Events(markup) \in [1..Len(markup) -> ParseEvents]
         /\ \A n \in 1..Len(markup) : Events(markup)[n] = EventOf(Modes(markup)[n - 1], markup[n])
<1>1. PICK N \in Nat : N = Len(markup) /\ DOMAIN markup = 1..N /\ \A n \in 1..N : markup[n] \in Marks
  BY MarkupTyped
<1>2. PICK mode \in [0..N -> Names] : mode = Modes(markup)  BY <1>1, ModesRun
<1>3. Events(markup) = [n \in 1..N |-> EventOf(mode[n - 1], markup[n])]  BY <1>1, <1>2 DEF Events
<1>4. ASSUME NEW n \in 1..N PROVE EventOf(mode[n - 1], markup[n]) \in ParseEvents
  <2>1. n - 1 \in 0..N  OBVIOUS
  <2>2. mode[n - 1] \in Names /\ markup[n] \in Marks  BY <1>1, <1>2, <2>1
  <2> QED  BY <2>2, EventIs
<1> QED  BY <1>1, <1>2, <1>3, <1>4

-----------------------------------------------------------------------------
(* One symbol of a page, as the cleaner and a reader take it.              *)

Bodily == RawTags \cup {"none"}
CleanStates == [out : Seq(Marks), stack : Seq(Names), body : Bodily]
SeenStates == [words : Seq(Names), stack : Seq(Names), raw : Bodily]

LEMMA StackTyped ==
  ASSUME NEW stack \in Seq(Names), NEW tag
  PROVE  WithoutLast(stack, tag) \in Seq(Names)
<1>1. PICK N \in Nat : N = Len(stack)  OBVIOUS
<1>2. PICK I : I = {i \in 1..N : stack[i] = tag}  OBVIOUS
<1>3. PICK at : at = IF I # {} THEN Max(I) ELSE 0  OBVIOUS
<1>4. at \in 0..N
  <2>1. CASE I # {}
    <3>1. I \subseteq 0..N  BY <1>2
    <3>2. Max(I) \in I  BY <1>1, <2>1, <3>1, GreatestOf
    <3> QED  BY <1>3, <2>1, <3>1, <3>2
  <2>2. CASE I = {}  BY <1>1, <1>3, <2>2
  <2> QED  BY <2>1, <2>2
<1>5. WithoutLast(stack, tag) = IF at = 0 THEN stack ELSE RemoveAt(stack, at)
  BY <1>1, <1>2, <1>3 DEF WithoutLast, SelectLastInSeq
<1>6. ASSUME at # 0 PROVE RemoveAt(stack, at) \in Seq(Names)
  <2>1. SubSeq(stack, 1, at - 1) \in Seq(Names) /\ SubSeq(stack, at + 1, Len(stack)) \in Seq(Names)
    BY <1>1, <1>4, <1>6
  <2>2. PICK a \in Seq(Names), b \in Seq(Names) :
          a = SubSeq(stack, 1, at - 1) /\ b = SubSeq(stack, at + 1, Len(stack))
    BY <2>1
  <2>3. a \o b \in Seq(Names)  OBVIOUS
  <2> QED  BY <2>2, <2>3 DEF RemoveAt
<1> QED  BY <1>5, <1>6

\* The tag whose body the text is in: what the mode of the parser and what the
\* cleaner and the reader keep of it have to do with each other.
Together(mode, acc, seen) ==
  /\ mode \in Bodily /\ acc \in CleanStates /\ seen \in SeenStates
  /\ seen.stack = acc.stack /\ seen.raw = mode
  /\ acc.body = IF acc.stack = <<>> THEN mode ELSE "none"

\* What is written down for symbol s, and the body it leaves the cleaner in: the
\* end of a body, structured data, the start of a body, a tag, or a word that a
\* reader sees.
Turn(body, s, o, next, words) ==
  \/ body \in RawTags /\ o = EndOf(body) /\ next = "none"
  \/ body = "ld" /\ o # EndOf("ld") /\ next = "ld"
  \/ body = "none" /\ o = s /\ o.kind = "open" /\ o.of \in RawTags /\ next = o.of
  \/ /\ body = "none" /\ o.kind = "open" /\ next = "none"
     /\ o.of \in RawTags => s = Spelled(o.of)
  \/ body = "none" /\ o.kind = "close" /\ next = "none"
  \/ body = "none" /\ o.kind \in {"word", "alt"} /\ next = "none" /\ o.of \in ToSet(words)

\* One symbol, for both.
Wrote(acc, s, o, c, w) ==
  c.out = Append(acc.out, o) /\ Turn(acc.body, s, o, c.body, w.words)
Read(acc, seen, s, c, w) ==
  /\ ToSet(seen.words) \subseteq ToSet(w.words)
  /\ \/ c.out = acc.out /\ c.body = acc.body
     \/ \E o \in Marks : Wrote(acc, s, o, c, w)

LEMMA CleanStack ==
  ASSUME NEW acc \in CleanStates, NEW stack \in Seq(Names), NEW next, next = [acc EXCEPT !.stack = stack]
  PROVE  /\ next \in CleanStates
         /\ next.out = acc.out
         /\ next.stack = stack
         /\ next.body = acc.body
BY DEF CleanStates

LEMMA CleanOut ==
  ASSUME NEW acc \in CleanStates, NEW out \in Seq(Marks), NEW next, next = [acc EXCEPT !.out = out]
  PROVE  /\ next \in CleanStates
         /\ next.out = out
         /\ next.stack = acc.stack
         /\ next.body = acc.body
BY DEF CleanStates

LEMMA SeenStack ==
  ASSUME NEW seen \in SeenStates, NEW stack \in Seq(Names), NEW next, next = [seen EXCEPT !.stack = stack]
  PROVE  /\ next \in SeenStates
         /\ next.words = seen.words
         /\ next.stack = stack
         /\ next.raw = seen.raw
BY DEF SeenStates

LEMMA SeenWords ==
  ASSUME NEW seen \in SeenStates, NEW words \in Seq(Names), NEW next, next = [seen EXCEPT !.words = words]
  PROVE  /\ next \in SeenStates
         /\ next.words = words
         /\ next.stack = seen.stack
         /\ next.raw = seen.raw
BY DEF SeenStates

LEMMA SeenRaw ==
  ASSUME NEW seen \in SeenStates, NEW raw \in Bodily, NEW next, next = [seen EXCEPT !.raw = raw]
  PROVE  /\ next \in SeenStates
         /\ next.words = seen.words
         /\ next.stack = seen.stack
         /\ next.raw = raw
BY DEF SeenStates

LEMMA Appended ==
  ASSUME NEW S, NEW s \in Seq(S), NEW x \in S
  PROVE  Append(s, x) \in Seq(S) /\ ToSet(s) \subseteq ToSet(Append(s, x)) /\ x \in ToSet(Append(s, x))
<1>1. PICK N \in Nat : N = Len(s) /\ DOMAIN s = 1..N  OBVIOUS
<1>2. PICK t : t = Append(s, x)  OBVIOUS
<1>3. t \in Seq(S) /\ DOMAIN t = 1..(N + 1) /\ t[N + 1] = x /\ \A i \in 1..N : t[i] = s[i]
  BY <1>1, <1>2
<1>4. x \in ToSet(t)
  <2>1. N + 1 \in DOMAIN t  BY <1>3
  <2> QED  BY <1>3, <2>1 DEF ToSet
<1>5. ASSUME NEW y \in ToSet(s) PROVE y \in ToSet(t)
  <2>1. PICK i \in 1..N : y = s[i]  BY <1>1 DEF ToSet
  <2>2. i \in DOMAIN t /\ t[i] = y  BY <1>1, <1>3, <2>1
  <2> QED  BY <2>2 DEF ToSet
<1> QED  BY <1>2, <1>3, <1>4, <1>5

\* In a body everything but its end tag is data.
LEMMA ReadInBody ==
  ASSUME NEW mode, NEW acc, NEW seen, Together(mode, acc, seen), mode # "none", NEW s \in Marks,
         NEW e, e = EventOf(mode, s), NEW m, m = NextMode(mode, s),
         NEW c, c = CleanStep(acc, e), NEW w, w = SeenStep(seen, e)
  PROVE  Together(m, c, w) /\ Read(acc, seen, s, c, w)
<1> USE DEF Together
<1>1. mode \in RawTags /\ mode \in Names /\ "none" \in Bodily
  BY DEF Bodily, RawTags, ScriptTags, Names
<1>2. acc.out \in Seq(Marks) /\ acc.stack \in Seq(Names) /\ acc.body \in Bodily
  BY DEF CleanStates
<1>3. CASE s = EndOf(mode)
  <2>1. e = s /\ m = "none"  BY <1>1, <1>3 DEF EventOf, NextMode
  <2>2. s.kind = "close" /\ s.of \in {"script", "style"}
    BY <1>1, <1>3 DEF EndOf, Close, RawTags, ScriptTags
  <2>3. s.of \notin SuppressedTags /\ s # Open("pixel") /\ s \in Marks
    BY <2>2 DEF SuppressedTags, Open
  <2>4. w = [seen EXCEPT !.raw = "none"]  BY <2>1, <2>2, <2>3 DEF SeenStep
  <2>5. w \in SeenStates /\ w.words = seen.words /\ w.stack = seen.stack /\ w.raw = "none"
    BY <1>1, <2>4, SeenRaw
  <2>6. CASE acc.stack # <<>>
    <3>1. c = acc  BY <2>1, <2>2, <2>3, <2>6 DEF CleanStep
    <3> QED  BY <1>1, <2>1, <2>5, <2>6, <3>1 DEF Read
  <2>7. CASE acc.stack = <<>>
    <3>1. PICK out : out = Append(acc.out, s)  OBVIOUS
    <3>2. out \in Seq(Marks)  BY <1>2, <3>1, Appended
    <3>3. PICK body \in Bodily : body = "none"  BY <1>1
    <3>4. c = [acc EXCEPT !.out = out, !.body = body]  BY <2>1, <2>2, <2>3, <2>7, <3>1, <3>3 DEF CleanStep
    <3>5. c \in CleanStates /\ c.out = out /\ c.stack = acc.stack /\ c.body = "none"
      BY <3>2, <3>3, <3>4 DEF CleanStates
    <3>6. Turn(acc.body, s, s, c.body, w.words)  BY <1>1, <1>3, <2>7, <3>5 DEF Turn
    <3> QED  BY <1>1, <2>1, <2>5, <2>7, <3>1, <3>5, <3>6 DEF Read, Wrote
  <2> QED  BY <2>6, <2>7
<1>4. CASE s # EndOf(mode)
  <2>1. m = mode  BY <1>1, <1>4 DEF NextMode
  <2>2. e.kind = "data" /\ e.of = s  BY <1>1, <1>4, EventIs
  <2>3. w = seen  BY <1>1, <2>2 DEF SeenStep
  <2>4. e # Open("pixel")  BY <2>2 DEF Open
  <2>5. CASE acc.stack # <<>> \/ mode \in {"script", "style"}
    <3>1. c = acc  BY <2>2, <2>4, <2>5 DEF CleanStep
    <3> QED  BY <2>1, <2>3, <3>1 DEF Read
  <2>6. CASE acc.stack = <<>> /\ mode \notin {"script", "style"}
    <3>1. PICK out : out = Append(acc.out, s)  OBVIOUS
    <3>2. out \in Seq(Marks)  BY <1>2, <3>1, Appended
    <3>3. c = [acc EXCEPT !.out = out]  BY <2>2, <2>4, <2>6, <3>1 DEF CleanStep
    <3>4. c \in CleanStates /\ c.out = out /\ c.stack = acc.stack /\ c.body = acc.body
      BY <3>2, <3>3, CleanOut
    <3>5. mode = "ld"  BY <1>1, <2>6 DEF RawTags, ScriptTags
    <3>6. Turn(acc.body, s, s, c.body, w.words)  BY <1>4, <2>6, <3>4, <3>5 DEF Turn
    <3> QED  BY <2>1, <2>3, <3>1, <3>4, <3>6 DEF Read, Wrote
  <2> QED  BY <2>5, <2>6
<1> QED  BY <1>3, <1>4

\* Elsewhere a tag opens or closes what is dropped with all it contains, opens
\* or closes an element, or may start a body.
LEMMA ReadDropped ==
  ASSUME NEW acc, NEW seen, Together("none", acc, seen), NEW s \in Marks,
         s.kind \in {"open", "close"}, s.of \in SuppressedTags,
         NEW e, e = EventOf("none", s), NEW m, m = NextMode("none", s),
         NEW c, c = CleanStep(acc, e), NEW w, w = SeenStep(seen, e)
  PROVE  Together(m, c, w) /\ Read(acc, seen, s, c, w)
<1> USE DEF Together
<1>1. acc.stack \in Seq(Names) /\ acc.body = "none" /\ s.of \in Names
  BY DEF CleanStates, Marks
<1>2. s.of \notin RawTags  BY DEF SuppressedTags, RawTags, ScriptTags
<1>3. e = s /\ m = "none"  BY <1>2 DEF EventOf, NextMode
<1>4. PICK stack : stack = IF s.kind = "open" THEN Append(acc.stack, s.of) ELSE WithoutLast(acc.stack, s.of)
  OBVIOUS
<1>5. stack \in Seq(Names)  BY <1>1, <1>4, Appended, StackTyped
<1>6. c = [acc EXCEPT !.stack = stack]  BY <1>3, <1>4 DEF CleanStep, Unsuppressed
<1>7. w = [seen EXCEPT !.stack = stack]  BY <1>3, <1>4 DEF SeenStep
<1>8. c \in CleanStates /\ c.out = acc.out /\ c.stack = stack /\ c.body = acc.body
  BY <1>5, <1>6, CleanStack
<1>9. w \in SeenStates /\ w.words = seen.words /\ w.stack = stack /\ w.raw = seen.raw
  BY <1>5, <1>7, SeenStack
<1> QED  BY <1>1, <1>3, <1>8, <1>9 DEF Read

LEMMA ReadTag ==
  ASSUME NEW acc, NEW seen, Together("none", acc, seen), NEW s \in Marks,
         s.kind \in {"open", "close"}, s.of \notin SuppressedTags,
         NEW e, e = EventOf("none", s), NEW m, m = NextMode("none", s),
         NEW c, c = CleanStep(acc, e), NEW w, w = SeenStep(seen, e)
  PROVE  Together(m, c, w) /\ Read(acc, seen, s, c, w)
<1> USE DEF Together
<1>1. /\ acc.out \in Seq(Marks) /\ acc.body = "none" /\ "none" \in Bodily
      /\ s.of \in RawTags => s.of \in Bodily
  BY DEF CleanStates, Bodily
<1>2. e = s  BY DEF EventOf
<1>3. PICK raw \in Bodily : raw = IF s.kind = "open" /\ s.of \in RawTags THEN s.of ELSE "none"  BY <1>1
<1>4. m = raw  BY <1>3 DEF NextMode
<1>5. w = [seen EXCEPT !.raw = raw]  BY <1>2, <1>3 DEF SeenStep
<1>6. w \in SeenStates /\ w.words = seen.words /\ w.stack = seen.stack /\ w.raw = raw
  BY <1>5, SeenRaw
<1>7. CASE acc.stack # <<>>
  <2>1. c = acc  BY <1>2, <1>7 DEF CleanStep
  <2> QED  BY <1>1, <1>4, <1>6, <1>7, <2>1 DEF Read
<1>8. CASE acc.stack = <<>> /\ s = Open("pixel")
  <2>1. c = acc  BY <1>2, <1>8 DEF CleanStep
  <2>2. s.of = "pixel"  BY <1>8 DEF Open
  <2>3. raw = "none"  BY <1>3, <2>2 DEF RawTags, ScriptTags
  <2> QED  BY <1>1, <1>4, <1>6, <2>1, <2>3 DEF Read
<1>9. CASE acc.stack = <<>> /\ s # Open("pixel")
  <2>1. PICK out : out = Append(acc.out, s)  OBVIOUS
  <2>2. out \in Seq(Marks)  BY <1>1, <2>1, Appended
  <2>3. c = [acc EXCEPT !.out = out, !.body = raw]
    BY <1>1, <1>2, <1>3, <1>9, <2>1 DEF CleanStep
  <2>4. c \in CleanStates /\ c.out = out /\ c.stack = acc.stack /\ c.body = raw
    BY <2>2, <2>3 DEF CleanStates
  <2>5. Turn(acc.body, s, s, c.body, w.words)  BY <1>1, <1>3, <2>4 DEF Turn
  <2> QED  BY <1>4, <1>6, <1>9, <2>1, <2>4, <2>5 DEF Read, Wrote
<1> QED  BY <1>7, <1>8, <1>9

\* And a word, a word that spells a tag or an alternative text is read unless it
\* is dropped.
LEMMA ReadWord ==
  ASSUME NEW acc, NEW seen, Together("none", acc, seen), NEW s \in Marks,
         s.kind \in {"word", "spelled", "alt"},
         NEW e, e = EventOf("none", s), NEW m, m = NextMode("none", s),
         NEW c, c = CleanStep(acc, e), NEW w, w = SeenStep(seen, e)
  PROVE  Together(m, c, w) /\ Read(acc, seen, s, c, w)
<1> USE DEF Together
<1>1. acc.out \in Seq(Marks) /\ acc.body = "none" /\ seen.words \in Seq(Names) /\ s.of \in Names
  BY DEF CleanStates, SeenStates, Marks
<1>2. m = "none"  BY DEF NextMode
<1>3. PICK o \in Marks : o = IF s.kind = "spelled" THEN Open(s.of) ELSE s  BY <1>1, MarksTyped
<1>4. o.of = s.of /\ (s.kind = "spelled" => o.kind = "open") /\ (s.kind # "spelled" => o = s)
  BY <1>3 DEF Open
<1>5. "none" \in Names  BY DEF Names
<1>6. e.kind \in {"alt", "data"} /\ (e.kind = "alt" => e = o) /\ (e.kind = "data" => e.of = o)
  BY <1>3, <1>5, EventIs
<1>7. e # Open("pixel")  BY <1>6 DEF Open
<1>8. CASE acc.stack # <<>>
  <2>1. c = acc  BY <1>6, <1>8 DEF CleanStep
  <2>2. w = seen  BY <1>6, <1>8 DEF SeenStep
  <2> QED  BY <1>2, <2>1, <2>2 DEF Read
<1>9. CASE acc.stack = <<>>
  <2>1. PICK out : out = Append(acc.out, o)  OBVIOUS
  <2>2. out \in Seq(Marks)  BY <1>1, <2>1, Appended
  <2>3. c = [acc EXCEPT !.out = out]  BY <1>1, <1>6, <1>7, <1>9, <2>1 DEF CleanStep
  <2>4. c \in CleanStates /\ c.out = out /\ c.stack = acc.stack /\ c.body = acc.body
    BY <2>2, <2>3, CleanOut
  <2>5. PICK words : words = Append(seen.words, s.of)  OBVIOUS
  <2>6. words \in Seq(Names) /\ ToSet(seen.words) \subseteq ToSet(words) /\ s.of \in ToSet(words)
    BY <1>1, <2>5, Appended
  <2>7. w = [seen EXCEPT !.words = words]  BY <1>4, <1>6, <1>9, <2>5 DEF SeenStep
  <2>8. w \in SeenStates /\ w.words = words /\ w.stack = seen.stack /\ w.raw = seen.raw
    BY <2>6, <2>7, SeenWords
  <2>9. s.kind = "spelled" => s = Spelled(s.of)  BY DEF Spelled, Marks
  <2>10. Turn(acc.body, s, o, c.body, w.words)
    <3>1. CASE s.kind = "spelled"  BY <1>1, <1>4, <2>4, <2>9, <3>1 DEF Turn
    <3>2. CASE s.kind # "spelled"  BY <1>1, <1>4, <2>4, <2>6, <2>8, <3>2 DEF Turn
    <3> QED  BY <3>1, <3>2
  <2> QED  BY <1>2, <2>1, <2>4, <2>6, <2>8, <2>10 DEF Read, Wrote
<1> QED  BY <1>8, <1>9

LEMMA ReadSymbol ==
  ASSUME NEW mode, NEW acc, NEW seen, Together(mode, acc, seen), NEW s \in Marks,
         NEW e, e = EventOf(mode, s), NEW m, m = NextMode(mode, s),
         NEW c, c = CleanStep(acc, e), NEW w, w = SeenStep(seen, e)
  PROVE  Together(m, c, w) /\ Read(acc, seen, s, c, w)
<1>1. s.kind \in {"open", "close", "word", "alt", "spelled"}  BY DEF Marks
<1>2. CASE mode # "none"  BY <1>2, ReadInBody
<1>3. CASE mode = "none" /\ s.kind \in {"open", "close"} /\ s.of \in SuppressedTags  BY <1>3, ReadDropped
<1>4. CASE mode = "none" /\ s.kind \in {"open", "close"} /\ s.of \notin SuppressedTags  BY <1>4, ReadTag
<1>5. CASE mode = "none" /\ s.kind \in {"word", "alt", "spelled"}  BY <1>5, ReadWord
<1> QED  BY <1>1, <1>2, <1>3, <1>4, <1>5

-----------------------------------------------------------------------------
(* One symbol of what the cleaner wrote, as the text extractor takes it.   *)

\* An extractor that has only read words of W.
ReadStates(W) == [blocks : Seq(Seq(W)), skip : Seq(Marks), tag : Names, buffer : Seq(W)]
SkipIn(mode) == IF mode = "none" THEN <<>> ELSE <<EndOf(mode)>>

LEMMA TextTyped ==
  ASSUME NEW W, NEW acc \in ReadStates(W), NEW e \in ParseEvents,
         acc.skip = <<>> /\ e.kind = "alt" => e.of \in W,
         acc.skip = <<>> /\ e.kind = "data" => e.of.of \in W,
         NEW next, next = TextStep(acc, e)
  PROVE  next \in ReadStates(W)
<1>1. /\ acc.blocks \in Seq(Seq(W)) /\ acc.skip \in Seq(Marks) /\ acc.tag \in Names
      /\ acc.buffer \in Seq(W)
  BY DEF ReadStates
<1>2. e.kind \in {"open", "close", "alt", "data"} /\ (e.kind # "data" => e.of \in Names)
  BY DEF ParseEvents
<1>3. <<>> \in Seq(W) /\ "none" \in Names  BY DEF Names
<1>4. CASE e.kind = "open" /\ e.of \in RawTags
  <2>1. PICK skip : skip = Append(acc.skip, EndOf(e.of))  OBVIOUS
  <2>2. skip \in Seq(Marks)  BY <1>1, <1>2, <1>4, <2>1, MarksTyped, Appended
  <2>3. next = [acc EXCEPT !.skip = skip]  BY <1>4, <2>1 DEF TextStep
  <2> QED  BY <2>2, <2>3 DEF ReadStates
<1>5. CASE e.kind = "close" /\ e.of \in {"script", "style"}
  <2>1. CASE acc.skip # <<>> /\ Last(acc.skip) = e
    <3>1. PICK skip : skip = Front(acc.skip)  OBVIOUS
    <3>2. skip \in Seq(Marks)  BY <1>1, <3>1, <2>1 DEF Front
    <3>3. next = [acc EXCEPT !.skip = skip]  BY <1>5, <2>1, <3>1 DEF TextStep
    <3> QED  BY <3>2, <3>3 DEF ReadStates
  <2>2. CASE ~(acc.skip # <<>> /\ Last(acc.skip) = e)  BY <1>5, <2>2 DEF TextStep
  <2> QED  BY <2>1, <2>2
<1> DEFINE Otherwise == ~(e.kind = "open" /\ e.of \in RawTags)
                        /\ ~(e.kind = "close" /\ e.of \in {"script", "style"})
<1>6. CASE Otherwise /\ acc.skip # <<>>  BY <1>6 DEF TextStep
<1>7. CASE Otherwise /\ acc.skip = <<>> /\ e.kind = "alt"
  <2>1. CASE acc.tag # "none"
    <3>1. PICK buffer : buffer = Append(acc.buffer, e.of)  OBVIOUS
    <3>2. buffer \in Seq(W)  BY <1>1, <1>7, <3>1, Appended
    <3>3. next = [acc EXCEPT !.buffer = buffer]  BY <1>7, <2>1, <3>1 DEF TextStep
    <3> QED  BY <3>2, <3>3 DEF ReadStates
  <2>2. CASE acc.tag = "none"
    <3>1. PICK block : block = <<e.of>>  OBVIOUS
    <3>2. block \in Seq(W)  BY <1>7, <3>1
    <3>3. PICK blocks : blocks = Append(acc.blocks, block)  OBVIOUS
    <3>4. blocks \in Seq(Seq(W))  BY <1>1, <3>2, <3>3, Appended
    <3>5. next = [acc EXCEPT !.blocks = blocks]  BY <1>7, <2>2, <3>1, <3>3 DEF TextStep
    <3> QED  BY <3>4, <3>5 DEF ReadStates
  <2> QED  BY <2>1, <2>2
<1>8. CASE Otherwise /\ acc.skip = <<>> /\ e.kind = "open"
  <2>1. CASE e.of \in BlockTags /\ acc.tag = "none"
    <3>1. PICK tag \in Names, buffer \in Seq(W) : tag = e.of /\ buffer = <<>>  BY <1>2, <1>3, <1>8
    <3>2. next = [acc EXCEPT !.tag = tag, !.buffer = buffer]  BY <1>8, <2>1, <3>1 DEF TextStep
    <3> QED  BY <3>2 DEF ReadStates
  <2>2. CASE ~(e.of \in BlockTags /\ acc.tag = "none")  BY <1>8, <2>2 DEF TextStep
  <2> QED  BY <2>1, <2>2
<1>9. CASE Otherwise /\ acc.skip = <<>> /\ e.kind = "close"
  <2>1. CASE e.of = acc.tag
    <3>1. PICK tag \in Names, buffer \in Seq(W) : tag = "none" /\ buffer = <<>>  BY <1>3
    <3>2. PICK blocks : blocks = Emitted(acc.blocks, acc.buffer)  OBVIOUS
    <3>3. blocks \in Seq(Seq(W))  BY <1>1, <3>2, Appended DEF Emitted
    <3>4. next = [acc EXCEPT !.blocks = blocks, !.tag = tag, !.buffer = buffer]
      BY <1>9, <2>1, <3>1, <3>2 DEF TextStep
    <3> QED  BY <3>3, <3>4 DEF ReadStates
  <2>2. CASE e.of # acc.tag  BY <1>9, <2>2 DEF TextStep
  <2> QED  BY <2>1, <2>2
<1>10. CASE Otherwise /\ acc.skip = <<>> /\ e.kind = "data"
  <2>1. CASE acc.tag = "none"  BY <1>10, <2>1 DEF TextStep
  <2>2. CASE acc.tag # "none"
    <3>1. PICK buffer : buffer = Append(acc.buffer, e.of.of)  OBVIOUS
    <3>2. buffer \in Seq(W)  BY <1>1, <1>10, <3>1, Appended
    <3>3. next = [acc EXCEPT !.buffer = buffer]  BY <1>10, <2>2, <3>1 DEF TextStep
    <3> QED  BY <3>2, <3>3 DEF ReadStates
  <2> QED  BY <2>1, <2>2
<1> QED  BY <1>2, <1>4, <1>5, <1>6, <1>7, <1>8, <1>9, <1>10

\* It skips what the parser reads as the body of a script or a style, and that only.
LEMMA SkipsBodies ==
  ASSUME NEW W, NEW acc \in ReadStates(W), NEW mode \in Bodily, acc.skip = SkipIn(mode), NEW o \in Marks,
         NEW e, e = EventOf(mode, o), NEW m, m = NextMode(mode, o),
         NEW next, next = TextStep(acc, e), next \in ReadStates(W)
  PROVE  m \in Bodily /\ next.skip = SkipIn(m)
<1>1. mode \in Names /\ "none" \in Bodily /\ (mode # "none" => mode \in RawTags)
  BY DEF Bodily, RawTags, ScriptTags, Names
<1>2. CASE mode # "none" /\ o = EndOf(mode)
  <2>1. e = o /\ m = "none"  BY <1>2 DEF EventOf, NextMode
  <2>2. o.kind = "close" /\ o.of \in {"script", "style"}
    BY <1>1, <1>2 DEF EndOf, Close, RawTags, ScriptTags
  <2>3. acc.skip = <<o>>  BY <1>2 DEF SkipIn
  <2>4. acc.skip # <<>> /\ Last(acc.skip) = o /\ Front(acc.skip) = <<>>  BY <2>3 DEF Last, Front
  <2>5. next = [acc EXCEPT !.skip = <<>>]  BY <2>1, <2>2, <2>4 DEF TextStep
  <2>6. next.skip = <<>>  BY <2>5 DEF ReadStates
  <2> QED  BY <1>1, <2>1, <2>6 DEF SkipIn
<1>3. CASE mode # "none" /\ o # EndOf(mode)
  <2>1. m = mode  BY <1>3 DEF NextMode
  <2>2. e.kind = "data"  BY <1>1, <1>3, EventIs
  <2>3. acc.skip # <<>>  BY <1>3 DEF SkipIn
  <2>4. next = acc  BY <2>2, <2>3 DEF TextStep
  <2> QED  BY <2>1, <2>4
<1>4. CASE mode = "none" /\ o.kind = "open" /\ o.of \in RawTags
  <2>1. e = o /\ m = o.of  BY <1>4 DEF EventOf, NextMode
  <2>2. acc.skip = <<>>  BY <1>4 DEF SkipIn
  <2>3. PICK skip : skip = <<EndOf(o.of)>>  OBVIOUS
  <2>4. Append(acc.skip, EndOf(o.of)) = skip  BY <2>2, <2>3
  <2>5. next = [acc EXCEPT !.skip = skip]  BY <1>4, <2>1, <2>4 DEF TextStep
  <2>6. next.skip = skip  BY <2>5 DEF ReadStates
  <2>7. m # "none" /\ m \in Bodily  BY <1>4, <2>1 DEF RawTags, ScriptTags, Bodily
  <2> QED  BY <2>1, <2>3, <2>6, <2>7 DEF SkipIn
<1>5. CASE mode = "none" /\ ~(o.kind = "open" /\ o.of \in RawTags)
  <2>1. m = "none"  BY <1>5 DEF NextMode
  <2>2. acc.skip = <<>>  BY <1>5 DEF SkipIn
  <2>3. e.kind = "open" => e.of \notin RawTags  BY <1>1, <1>5, EventIs
  <2>4. next.skip = <<>>
    <3>1. CASE e.kind = "close" /\ e.of \in {"script", "style"}
      <4>1. next = acc  BY <2>2, <3>1 DEF TextStep
      <4> QED  BY <2>2, <4>1
    <3>2. CASE ~(e.kind = "close" /\ e.of \in {"script", "style"})
      BY <2>2, <2>3, <3>2 DEF TextStep, ReadStates
    <3> QED  BY <3>1, <3>2
  <2> QED  BY <1>1, <2>1, <2>4 DEF SkipIn
<1> QED  BY <1>2, <1>3, <1>4, <1>5

LEMMA TextSymbol ==
  ASSUME NEW W, NEW acc \in ReadStates(W), NEW mode \in Bodily, acc.skip = SkipIn(mode), NEW o \in Marks,
         mode = "none" /\ o.kind \in {"word", "alt", "spelled"} => o.of \in W,
         NEW e, e = EventOf(mode, o), NEW m, m = NextMode(mode, o),
         NEW next, next = TextStep(acc, e)
  PROVE  next \in ReadStates(W) /\ m \in Bodily /\ next.skip = SkipIn(m)
<1>1. mode \in Names  BY DEF Bodily, RawTags, ScriptTags, Names
<1>2. e \in ParseEvents  BY <1>1, EventIs
<1>3. acc.skip = <<>> => mode = "none"  BY DEF SkipIn
<1>4. mode = "none" /\ e.kind = "alt" => e.of \in W  BY <1>1, EventIs DEF Marks
<1>5. mode = "none" /\ e.kind = "data" => e.of.of \in W
  <2>1. Open(o.of).of = o.of  BY DEF Open
  <2> QED  BY <1>1, <2>1, EventIs DEF Marks
<1>6. next \in ReadStates(W)  BY <1>2, <1>3, <1>4, <1>5, TextTyped
<1> QED  BY <1>6, SkipsBodies

-----------------------------------------------------------------------------
(* The two parses stay together.                                           *)

\* While the page is in a body, what was written down of it is in one too: a tag
\* that was spelled may open another, but none that ends later than the page's.
Aligned(S, body, inner) ==
  /\ body # "none" => inner # "none"
  /\ body = "ld" => inner \in ScriptTags
  /\ Spelled("style") \notin S => (inner = "style" => body = "style")
  /\ Open("ld") \notin S => body # "ld"

LEMMA TurnAligned ==
  ASSUME NEW S, S \subseteq Marks, Plain(S), NEW s \in S, NEW o \in Marks, NEW words,
         NEW body \in Bodily, NEW inner \in Bodily, Aligned(S, body, inner),
         NEW next, Turn(body, s, o, next, words), NEW m, m = NextMode(inner, o)
  PROVE  /\ Aligned(S, next, m)
         /\ inner = "none" /\ o.kind \in {"word", "alt", "spelled"} => o.of \in ToSet(words)
<1>1. body \in {"script", "ld", "style", "none"} /\ inner \in {"script", "ld", "style", "none"}
  BY DEF Bodily, RawTags, ScriptTags
<1>2. /\ EndOf("script").kind = "close" /\ EndOf("ld").kind = "close" /\ EndOf("style").kind = "close"
      /\ EndOf("ld") = EndOf("script")
      /\ EndOf("style").of = "style" /\ EndOf("script").of = "script"
  BY DEF EndOf, Close, ScriptTags
<1>3. o.kind \in {"open", "close", "word", "alt", "spelled"}  BY DEF Marks
<1>4. CASE body \in RawTags /\ o = EndOf(body) /\ next = "none"
  <2>1. o.kind = "close" /\ body # "none"  BY <1>1, <1>2, <1>4 DEF RawTags, ScriptTags
  <2>2. inner # "none" /\ (Spelled("style") \notin S => (inner = "style" => body = "style"))
    BY <2>1, <1>4 DEF Aligned
  <2>3. m = IF o = EndOf(inner) THEN "none" ELSE inner  BY <2>2 DEF NextMode
  <2>4. Spelled("style") \notin S => m # "style"
    <3>1. CASE inner = "style"  BY <1>4, <2>2, <2>3, <3>1
    <3>2. CASE inner # "style"  BY <2>3, <3>2
    <3> QED  BY <3>1, <3>2
  <2> QED  BY <1>4, <2>2, <2>4 DEF Aligned
<1>5. CASE body = "ld" /\ o # EndOf("ld") /\ next = "ld"
  <2>1. inner \in {"script", "ld"}  BY <1>5 DEF Aligned, ScriptTags
  <2>2. m = inner  BY <1>2, <1>5, <2>1 DEF NextMode
  <2> QED  BY <1>5, <2>1, <2>2 DEF Aligned
<1>6. CASE body = "none" /\ o = s /\ o.kind = "open" /\ o.of \in RawTags /\ next = o.of
  <2>1. o = Open(o.of)  BY <1>6 DEF Open, Marks
  <2>2. o.of \in {"script", "ld", "style"}  BY <1>6 DEF RawTags, ScriptTags
  <2>3. CASE inner = "none"
    <3>1. m = next  BY <1>6, <2>3 DEF NextMode
    <3> QED  BY <1>6, <2>1, <2>2, <3>1 DEF Aligned, ScriptTags
  <2>4. CASE inner # "none"
    <3>1. m = inner  BY <1>1, <1>2, <1>6, <2>4 DEF NextMode
    <3>2. next = "ld" => Spelled("style") \notin S  BY <1>6, <2>1 DEF Plain
    <3>3. next = "ld" => inner \in ScriptTags  BY <1>1, <1>6, <2>4, <3>2 DEF Aligned, ScriptTags
    <3> QED  BY <1>6, <2>1, <2>2, <2>4, <3>1, <3>3 DEF Aligned
  <2> QED  BY <2>3, <2>4
<1>7. CASE /\ body = "none" /\ o.kind = "open" /\ next = "none"
           /\ o.of \in RawTags => s = Spelled(o.of)
  <2>1. Spelled("style") \notin S => m # "style"
    BY <1>1, <1>2, <1>7 DEF NextMode, Aligned, RawTags
  <2> QED  BY <1>7, <2>1 DEF Aligned
<1>8. CASE body = "none" /\ o.kind = "close" /\ next = "none"
  <2>1. Spelled("style") \notin S => m # "style"  BY <1>1, <1>8 DEF NextMode, Aligned
  <2> QED  BY <1>8, <2>1 DEF Aligned
<1>9. CASE body = "none" /\ o.kind \in {"word", "alt"} /\ next = "none" /\ o.of \in ToSet(words)
  <2>1. Spelled("style") \notin S => m # "style"  BY <1>1, <1>9 DEF NextMode, Aligned
  <2> QED  BY <1>9, <2>1 DEF Aligned
<1> QED  BY <1>4, <1>5, <1>6, <1>7, <1>8, <1>9 DEF Turn

-----------------------------------------------------------------------------
(* Whole pages.                                                            *)

LEMMA CleanTyped ==
  ASSUME NEW acc \in CleanStates, NEW e \in ParseEvents
  PROVE  CleanStep(acc, e) \in CleanStates
<1>1. PICK next : next = CleanStep(acc, e)  OBVIOUS
<1>2. acc.out \in Seq(Marks) /\ acc.stack \in Seq(Names) /\ acc.body \in Bodily
  BY DEF CleanStates
<1>3. /\ e.kind \in {"open", "close", "alt", "data"}
      /\ e.kind # "data" => e \in Marks /\ e.of \in Names
      /\ e.kind = "data" => e.of \in Marks
  BY DEF ParseEvents, Marks
<1>4. CASE e.kind \in {"open", "close"} /\ e.of \in SuppressedTags
  <2>1. PICK stack : stack = IF e.kind = "open" THEN Append(acc.stack, e.of) ELSE WithoutLast(acc.stack, e.of)
    OBVIOUS
  <2>2. stack \in Seq(Names)  BY <1>2, <1>3, <1>4, <2>1, Appended, StackTyped
  <2>3. next = [acc EXCEPT !.stack = stack]  BY <1>1, <1>4, <2>1 DEF CleanStep, Unsuppressed
  <2> QED  BY <1>1, <2>2, <2>3, CleanStack
<1>5. CASE ~(e.kind \in {"open", "close"} /\ e.of \in SuppressedTags)
  <2>1. CASE acc.stack # <<>> \/ e = Open("pixel") \/ (e.kind = "data" /\ acc.body \in {"script", "style"})
    <3>1. e.kind = "data" => e # Open("pixel")  BY DEF Open
    <3> QED  BY <1>1, <1>3, <1>5, <2>1, <3>1 DEF CleanStep
  <2>2. CASE ~(acc.stack # <<>> \/ e = Open("pixel") \/ (e.kind = "data" /\ acc.body \in {"script", "style"}))
    <3>1. PICK o : o = IF e.kind = "data" THEN e.of ELSE e  OBVIOUS
    <3>2. PICK out : out = Append(acc.out, o)  OBVIOUS
    <3>3. out \in Seq(Marks)  BY <1>2, <1>3, <3>1, <3>2, Appended
    <3>4. CASE e.kind \in {"open", "close"}
      <4>1. PICK body : body = IF e.kind = "open" THEN IF e.of \in RawTags THEN e.of ELSE acc.body
                               ELSE IF e.of \in {"script", "style"} THEN "none" ELSE acc.body
        OBVIOUS
      <4>2. body \in Bodily  BY <1>2, <4>1 DEF Bodily
      <4>3. next = [acc EXCEPT !.out = out, !.body = body]
        BY <1>1, <1>5, <2>2, <3>1, <3>2, <3>4, <4>1 DEF CleanStep
      <4> QED  BY <1>1, <3>3, <4>2, <4>3 DEF CleanStates
    <3>5. CASE e.kind \in {"alt", "data"}
      <4>1. next = [acc EXCEPT !.out = out]  BY <1>1, <1>5, <2>2, <3>1, <3>2, <3>5 DEF CleanStep
      <4> QED  BY <1>1, <3>3, <4>1, CleanOut
    <3> QED  BY <1>3, <3>4, <3>5
  <2> QED  BY <2>1, <2>2
<1> QED  BY <1>4, <1>5

LEMMA SeenTyped ==
  ASSUME NEW acc \in SeenStates, NEW e \in ParseEvents
  PROVE  SeenStep(acc, e) \in SeenStates
<1>1. PICK next : next = SeenStep(acc, e)  OBVIOUS
<1>2. acc.words \in Seq(Names) /\ acc.stack \in Seq(Names) /\ acc.raw \in Bodily
  BY DEF SeenStates
<1>3. /\ e.kind \in {"open", "close", "alt", "data"}
      /\ e.kind # "data" => e.of \in Names
      /\ e.kind = "data" => e.of.of \in Names
  BY DEF ParseEvents, Marks
<1>4. CASE e.kind \in {"open", "close"} /\ e.of \in SuppressedTags
  <2>1. PICK stack : stack = IF e.kind = "open" THEN Append(acc.stack, e.of) ELSE WithoutLast(acc.stack, e.of)
    OBVIOUS
  <2>2. stack \in Seq(Names)  BY <1>2, <1>3, <1>4, <2>1, Appended, StackTyped
  <2>3. next = [acc EXCEPT !.stack = stack]  BY <1>1, <1>4, <2>1 DEF SeenStep
  <2> QED  BY <1>1, <2>2, <2>3, SeenStack
<1>5. CASE e.kind \in {"open", "close"} /\ e.of \notin SuppressedTags
  <2>1. PICK raw : raw = IF e.kind = "open" /\ e.of \in RawTags THEN e.of ELSE "none"  OBVIOUS
  <2>2. raw \in Bodily  BY <2>1 DEF Bodily
  <2>3. next = [acc EXCEPT !.raw = raw]  BY <1>1, <1>5, <2>1 DEF SeenStep
  <2> QED  BY <1>1, <2>2, <2>3, SeenRaw
<1>6. CASE e.kind \in {"alt", "data"} /\ (acc.raw # "none" \/ acc.stack # <<>>)
  BY <1>1, <1>6 DEF SeenStep
<1>7. CASE e.kind \in {"alt", "data"} /\ ~(acc.raw # "none" \/ acc.stack # <<>>)
  <2>1. PICK word : word = IF e.kind = "data" THEN e.of.of ELSE e.of  OBVIOUS
  <2>2. PICK words : words = Append(acc.words, word)  OBVIOUS
  <2>3. words \in Seq(Names)  BY <1>2, <1>3, <1>7, <2>1, <2>2, Appended
  <2>4. next = [acc EXCEPT !.words = words]  BY <1>1, <1>7, <2>1, <2>2 DEF SeenStep
  <2> QED  BY <1>1, <2>3, <2>4, SeenWords
<1> QED  BY <1>3, <1>4, <1>5, <1>6, <1>7

\* What the cleaner, the extractor and the reader go through from symbol to symbol.
LEMMA CleanRun ==
  ASSUME NEW markup \in Seq(Marks), NEW N \in Nat, N = Len(markup)
  PROVE  \E f : /\ f[0] = NothingOut
                /\ \A n \in 1..N : f[n] = CleanStep(f[n - 1], Events(markup)[n])
                /\ Cleaned(markup) = f[N].out
<1>1. PICK events \in [1..N -> ParseEvents] : events = Events(markup)  BY EventsAre
<1> DEFINE G == [n \in 1..N |-> [acc \in CleanStates |-> CleanStep(acc, events[n])]]
           Equation(f) == f = [n \in 0..Len(markup) |->
                                 IF n = 0 THEN NothingOut ELSE CleanStep(f[n - 1], events[n])]
<1>2. \A n \in 1..N : \A acc \in CleanStates : CleanStep(acc, events[n]) \in CleanStates  BY CleanTyped
<1>3. G \in [1..N -> [CleanStates -> CleanStates]]  BY <1>2
<1>4. NothingOut \in CleanStates  BY DEF NothingOut, CleanStates, Bodily
<1>5. PICK f \in [0..N -> CleanStates] : f[0] = NothingOut /\ \A n \in 1..N : f[n] = G[n][f[n - 1]]
  <2>1. PICK H : H = G  OBVIOUS
  <2>2. H \in [1..N -> [CleanStates -> CleanStates]]  BY <1>3, <2>1
  <2> HIDE DEF G
  <2>3. PICK a \in CleanStates : a = NothingOut  BY <1>4
  <2>4. Successions(N, CleanStates, a, H) # {}  BY <2>2, Successive
  <2> QED  BY <2>1, <2>3, <2>4 DEF Successions
<1>6. Equation(f)
  <2>1. ASSUME NEW n \in 1..N PROVE f[n] = CleanStep(f[n - 1], events[n])
    <3>1. n - 1 \in 0..N  OBVIOUS
    <3> QED  BY <1>5, <3>1
  <2>2. ASSUME NEW n \in 0..N PROVE f[n] = IF n = 0 THEN NothingOut ELSE CleanStep(f[n - 1], events[n])
    <3>1. n = 0 \/ n \in 1..N  OBVIOUS
    <3> QED  BY <1>5, <2>1, <3>1
  <2> QED  BY <2>2
<1>7. PICK after : after = CHOOSE x : Equation(x)  OBVIOUS
<1>8. Equation(after)
  <2> HIDE DEF Equation
  <2> QED  BY <1>6, <1>7
<1>9. Cleaned(markup) = after[N].out  BY <1>1, <1>7 DEF Cleaned
<1>10. after[0] = NothingOut /\ \A n \in 1..N : after[n] = CleanStep(after[n - 1], events[n])  BY <1>8
<1> QED  BY <1>1, <1>9, <1>10

LEMMA SeenRun ==
  ASSUME NEW markup \in Seq(Marks), NEW N \in Nat, N = Len(markup)
  PROVE  \E f : /\ f[0] = NothingSeen
                /\ \A n \in 1..N : f[n] = SeenStep(f[n - 1], Events(markup)[n])
                /\ Seen(markup) = f[N].words
<1>1. PICK events \in [1..N -> ParseEvents] : events = Events(markup)  BY EventsAre
<1> DEFINE G == [n \in 1..N |-> [acc \in SeenStates |-> SeenStep(acc, events[n])]]
           Equation(f) == f = [n \in 0..Len(markup) |->
                                 IF n = 0 THEN NothingSeen ELSE SeenStep(f[n - 1], events[n])]
<1>2. \A n \in 1..N : \A acc \in SeenStates : SeenStep(acc, events[n]) \in SeenStates  BY SeenTyped
<1>3. G \in [1..N -> [SeenStates -> SeenStates]]  BY <1>2
<1>4. NothingSeen \in SeenStates  BY DEF NothingSeen, SeenStates, Bodily
<1>5. PICK f \in [0..N -> SeenStates] : f[0] = NothingSeen /\ \A n \in 1..N : f[n] = G[n][f[n - 1]]
  <2>1. PICK H : H = G  OBVIOUS
  <2>2. H \in [1..N -> [SeenStates -> SeenStates]]  BY <1>3, <2>1
  <2> HIDE DEF G
  <2>3. PICK a \in SeenStates : a = NothingSeen  BY <1>4
  <2>4. Successions(N, SeenStates, a, H) # {}  BY <2>2, Successive
  <2> QED  BY <2>1, <2>3, <2>4 DEF Successions
<1>6. Equation(f)
  <2>1. ASSUME NEW n \in 1..N PROVE f[n] = SeenStep(f[n - 1], events[n])
    <3>1. n - 1 \in 0..N  OBVIOUS
    <3> QED  BY <1>5, <3>1
  <2>2. ASSUME NEW n \in 0..N PROVE f[n] = IF n = 0 THEN NothingSeen ELSE SeenStep(f[n - 1], events[n])
    <3>1. n = 0 \/ n \in 1..N  OBVIOUS
    <3> QED  BY <1>5, <2>1, <3>1
  <2> QED  BY <2>2
<1>7. PICK after : after = CHOOSE x : Equation(x)  OBVIOUS
<1>8. Equation(after)
  <2> HIDE DEF Equation
  <2> QED  BY <1>6, <1>7
<1>9. Seen(markup) = after[N].words  BY <1>1, <1>7 DEF Seen
<1>10. after[0] = NothingSeen /\ \A n \in 1..N : after[n] = SeenStep(after[n - 1], events[n])  BY <1>8
<1> QED  BY <1>1, <1>9, <1>10

LEMMA ReadAnything ==
  ASSUME NEW acc \in ReadStates(Names), NEW e \in ParseEvents
  PROVE  TextStep(acc, e) \in ReadStates(Names)
<1>1. e.kind = "alt" => e.of \in Names  BY DEF ParseEvents, Marks
<1>2. e.kind = "data" => e.of.of \in Names  BY DEF ParseEvents, Marks
<1> QED  BY <1>1, <1>2, TextTyped

LEMMA TextRun ==
  ASSUME NEW markup \in Seq(Marks), NEW N \in Nat, N = Len(markup)
  PROVE  \E f : /\ f[0] = NothingRead
                /\ \A n \in 1..N : f[n] = TextStep(f[n - 1], Events(markup)[n])
                /\ Blocks(markup) = f[N].blocks
<1>1. PICK events \in [1..N -> ParseEvents] : events = Events(markup)  BY EventsAre
<1>2. PICK V : V = ReadStates(Names)  OBVIOUS
<1> DEFINE G == [n \in 1..N |-> [acc \in V |-> TextStep(acc, events[n])]]
           Equation(f) == f = [n \in 0..Len(markup) |->
                                 IF n = 0 THEN NothingRead ELSE TextStep(f[n - 1], events[n])]
<1>3. \A n \in 1..N : \A acc \in V : TextStep(acc, events[n]) \in V  BY <1>2, ReadAnything
<1>4. G \in [1..N -> [V -> V]]  BY <1>3
<1>5. NothingRead \in V  BY <1>2 DEF NothingRead, ReadStates, Names
<1>6. PICK f \in [0..N -> V] : f[0] = NothingRead /\ \A n \in 1..N : f[n] = G[n][f[n - 1]]
  <2>1. PICK H : H = G  OBVIOUS
  <2>2. H \in [1..N -> [V -> V]]  BY <1>4, <2>1
  <2> HIDE DEF G
  <2>3. PICK a \in V : a = NothingRead  BY <1>5
  <2>4. Successions(N, V, a, H) # {}  BY <2>2, Successive
  <2> QED  BY <2>1, <2>3, <2>4 DEF Successions
<1>7. Equation(f)
  <2>1. ASSUME NEW n \in 1..N PROVE f[n] = TextStep(f[n - 1], events[n])
    <3>1. n - 1 \in 0..N  OBVIOUS
    <3> QED  BY <1>6, <3>1
  <2>2. ASSUME NEW n \in 0..N PROVE f[n] = IF n = 0 THEN NothingRead ELSE TextStep(f[n - 1], events[n])
    <3>1. n = 0 \/ n \in 1..N  OBVIOUS
    <3> QED  BY <1>6, <2>1, <3>1
  <2> QED  BY <2>2
<1>8. PICK after : after = CHOOSE x : Equation(x)  OBVIOUS
<1>9. Equation(after)
  <2> HIDE DEF Equation
  <2> QED  BY <1>7, <1>8
<1>10. Blocks(markup) = after[N].blocks  BY <1>1, <1>8 DEF Blocks
<1>11. after[0] = NothingRead /\ \A n \in 1..N : after[n] = TextStep(after[n - 1], events[n])  BY <1>9
<1> QED  BY <1>1, <1>10, <1>11

\* A page's symbols, read one after the other, keep the two together.
LEMMA ReadPage ==
  ASSUME NEW markup \in Seq(Marks), NEW N \in Nat, N = Len(markup),
         NEW mode, mode = Modes(markup),
         NEW c, c[0] = NothingOut, \A n \in 1..N : c[n] = CleanStep(c[n - 1], Events(markup)[n]),
         NEW w, w[0] = NothingSeen, \A n \in 1..N : w[n] = SeenStep(w[n - 1], Events(markup)[n])
  PROVE  /\ \A n \in 0..N : Together(mode[n], c[n], w[n])
         /\ \A n \in 1..N : Read(c[n - 1], w[n - 1], markup[n], c[n], w[n])
<1>1. \A n \in 1..N : markup[n] \in Marks  BY MarkupTyped
<1>2. /\ mode[0] = "none"
      /\ \A n \in 1..N : mode[n] = NextMode(mode[n - 1], markup[n])
      /\ \A n \in 1..N : Events(markup)[n] = EventOf(mode[n - 1], markup[n])
  BY ModesRun, EventsAre
<1>3. ASSUME NEW n \in 1..N, Together(mode[n - 1], c[n - 1], w[n - 1])
      PROVE  Together(mode[n], c[n], w[n]) /\ Read(c[n - 1], w[n - 1], markup[n], c[n], w[n])
  <2>1. PICK mo, acc, seen, s : mo = mode[n - 1] /\ acc = c[n - 1] /\ seen = w[n - 1] /\ s = markup[n]
    OBVIOUS
  <2>2. PICK e : e = EventOf(mo, s)  OBVIOUS
  <2>3. Together(mo, acc, seen) /\ s \in Marks  BY <1>1, <1>3, <2>1
  <2>4. mode[n] = NextMode(mo, s) /\ c[n] = CleanStep(acc, e) /\ w[n] = SeenStep(seen, e)
    BY <1>2, <2>1, <2>2
  <2> QED  BY <2>1, <2>2, <2>3, <2>4, ReadSymbol
<1> DEFINE S == {n \in 0..N : Together(mode[n], c[n], w[n])}
<1>4. 0 \in S
  <2>1. NothingOut \in CleanStates /\ NothingOut.stack = <<>> /\ NothingOut.body = "none"
    BY DEF NothingOut, CleanStates, Bodily
  <2>2. NothingSeen \in SeenStates /\ NothingSeen.stack = <<>> /\ NothingSeen.raw = "none"
    BY DEF NothingSeen, SeenStates, Bodily
  <2>3. Together(mode[0], c[0], w[0])  BY <1>2, <2>1, <2>2 DEF Together, Bodily
  <2> QED  BY <2>3
<1>5. ASSUME NEW n \in 0..N, n \in S, n < N PROVE n + 1 \in S
  <2>1. n + 1 \in 1..N /\ (n + 1) - 1 = n  BY <1>5
  <2> QED  BY <1>3, <1>5, <2>1
<1>6. 0..N \subseteq S
  <2> HIDE DEF S
  <2> QED  BY <1>4, <1>5, Counting
<1>7. \A n \in 0..N : Together(mode[n], c[n], w[n])  BY <1>6
<1>8. ASSUME NEW n \in 1..N PROVE Read(c[n - 1], w[n - 1], markup[n], c[n], w[n])
  <2>1. n - 1 \in 0..N  OBVIOUS
  <2> QED  BY <1>3, <1>7, <2>1
<1> QED  BY <1>7, <1>8

\* What is written down or seen at some symbol stays.
Begins(out, all) == Len(out) <= Len(all) /\ \A i \in 1..Len(out) : all[i] = out[i]

LEMMA WhatIsReadStays ==
  ASSUME NEW markup, NEW N \in Nat, NEW c, NEW w,
         \A n \in 0..N : c[n].out \in Seq(Marks),
         \A n \in 1..N : Read(c[n - 1], w[n - 1], markup[n], c[n], w[n])
  PROVE  \A n \in 0..N : Begins(c[n].out, c[N].out) /\ ToSet(w[n].words) \subseteq ToSet(w[N].words)
<1> DEFINE Stays(n) == Begins(c[n].out, c[N].out) /\ ToSet(w[n].words) \subseteq ToSet(w[N].words)
           S == {k \in 0..N : Stays(N - k)}
<1>1. 0 \in S
  <2>1. Stays(N)  BY DEF Begins
  <2>2. N - 0 = N  OBVIOUS
  <2> QED  BY <2>1, <2>2
<1>2. ASSUME NEW k \in 0..N, k \in S, k < N PROVE k + 1 \in S
  <2>1. PICK n \in 1..N : n = N - k  BY <1>2
  <2>2. Stays(n)  BY <1>2, <2>1
  <2>3. n - 1 \in 0..N /\ n \in 0..N  BY <2>1
  <2>4. PICK before \in Seq(Marks), out \in Seq(Marks) : before = c[n - 1].out /\ out = c[n].out  BY <2>3
  <2>5. Read(c[n - 1], w[n - 1], markup[n], c[n], w[n])  BY <2>1
  <2>6. out = before \/ \E o \in Marks : out = Append(before, o)  BY <2>4, <2>5 DEF Read, Wrote
  <2>7. Begins(before, out)
    <3>1. CASE out = before  BY <3>1 DEF Begins
    <3>2. CASE \E o \in Marks : out = Append(before, o)
      <4>1. PICK o \in Marks : out = Append(before, o)  BY <3>2
      <4> QED  BY <4>1 DEF Begins
    <3> QED  BY <2>6, <3>1, <3>2
  <2>8. PICK all \in Seq(Marks) : all = c[N].out  OBVIOUS
  <2>9. Begins(out, all)  BY <2>2, <2>4, <2>8
  <2>10. Begins(before, all)  BY <2>7, <2>9 DEF Begins
  <2>11. ToSet(w[n - 1].words) \subseteq ToSet(w[n].words)  BY <2>5 DEF Read
  <2>12. Stays(n - 1)  BY <2>2, <2>4, <2>8, <2>10, <2>11
  <2>13. N - (k + 1) = n - 1 /\ k + 1 \in 0..N  BY <1>2, <2>1
  <2> QED  BY <2>12, <2>13
<1>3. 0..N \subseteq S
  <2> HIDE DEF S
  <2> QED  BY <1>1, <1>2, Counting
<1>4. ASSUME NEW n \in 0..N PROVE Stays(n)
  <2>1. N - n \in 0..N /\ N - (N - n) = n  OBVIOUS
  <2> QED  BY <1>3, <2>1
<1> QED  BY <1>4

LEMMA KeptTwice ==
  ASSUME NEW W, NEW blocks \in Seq(Seq(W))
  PROVE  TwiceAtMost(blocks) \in Seq(Seq(W))
<1>1. PICK N \in Nat : N = Len(blocks) /\ \A n \in 1..N : blocks[n] \in Seq(W)
  BY MarkupTyped
<1>2. PICK V : V = Seq(Seq(W))  OBVIOUS
<1> DEFINE G == [n \in 1..N |-> [kept \in V |-> Repeated(kept, blocks[n])]]
           Equation(f) == f = [n \in 0..Len(blocks) |->
                                 IF n = 0 THEN <<>> ELSE Repeated(f[n - 1], blocks[n])]
<1>3. ASSUME NEW n \in 1..N, NEW kept \in V PROVE Repeated(kept, blocks[n]) \in V
  <2>1. PICK block \in Seq(W) : block = blocks[n]  BY <1>1
  <2>2. Append(kept, block) \in V  BY <1>2, Appended
  <2>3. Repeated(kept, block) \in {kept, Append(kept, block)}  BY DEF Repeated
  <2> QED  BY <2>1, <2>2, <2>3
<1>4. G \in [1..N -> [V -> V]]  BY <1>3
<1>5. <<>> \in V  BY <1>2
<1>6. PICK f \in [0..N -> V] : f[0] = <<>> /\ \A n \in 1..N : f[n] = G[n][f[n - 1]]
  <2>1. PICK H : H = G  OBVIOUS
  <2>2. H \in [1..N -> [V -> V]]  BY <1>4, <2>1
  <2> HIDE DEF G
  <2>3. PICK a \in V : a = <<>>  BY <1>5
  <2>4. Successions(N, V, a, H) # {}  BY <2>2, Successive
  <2> QED  BY <2>1, <2>3, <2>4 DEF Successions
<1>7. Equation(f)
  <2>1. ASSUME NEW n \in 1..N PROVE f[n] = Repeated(f[n - 1], blocks[n])
    <3>1. n - 1 \in 0..N  OBVIOUS
    <3> QED  BY <1>6, <3>1
  <2>2. ASSUME NEW n \in 0..N PROVE f[n] = IF n = 0 THEN <<>> ELSE Repeated(f[n - 1], blocks[n])
    <3>1. n = 0 \/ n \in 1..N  OBVIOUS
    <3> QED  BY <1>6, <2>1, <3>1
  <2> QED  BY <1>1, <2>2
<1>8. PICK kept : kept = CHOOSE x : Equation(x)  OBVIOUS
<1>9. Equation(kept)
  <2> HIDE DEF Equation
  <2> QED  BY <1>7, <1>8
<1>10. TwiceAtMost(blocks) = kept[N]  BY <1>1, <1>8 DEF TwiceAtMost
<1>11. kept[0] = <<>> /\ \A n \in 1..N : kept[n] = Repeated(kept[n - 1], blocks[n])
  <2>1. \A n \in 0..N : kept[n] = IF n = 0 THEN <<>> ELSE Repeated(kept[n - 1], blocks[n])  BY <1>1, <1>9
  <2>2. ASSUME NEW n \in 1..N PROVE kept[n] = Repeated(kept[n - 1], blocks[n])
    <3>1. n \in 0..N /\ n # 0  OBVIOUS
    <3> QED  BY <2>1, <3>1
  <2>3. kept[0] = <<>>  BY <2>1
  <2> QED  BY <2>2, <2>3
<1> DEFINE S == {n \in 0..N : kept[n] \in V}
<1>12. 0 \in S  BY <1>5, <1>11
<1>13. ASSUME NEW n \in 0..N, n \in S, n < N PROVE n + 1 \in S
  <2>1. n + 1 \in 1..N /\ (n + 1) - 1 = n  BY <1>13
  <2> QED  BY <1>3, <1>11, <1>13, <2>1
<1>14. 0..N \subseteq S
  <2> HIDE DEF S
  <2> QED  BY <1>12, <1>13, Counting
<1> QED  BY <1>2, <1>10, <1>14

\* The extractor has read words of W only, and is where the cleaner left it.
Follows(S, W, body, inner, acc) ==
  /\ acc \in ReadStates(W) /\ inner \in Bodily /\ acc.skip = SkipIn(inner)
  /\ Aligned(S, body, inner)

LEMMA FollowsWritten ==
  ASSUME NEW S, S \subseteq Marks, Plain(S), NEW s \in S, NEW o \in Marks, NEW W, NEW words,
         ToSet(words) \subseteq W, NEW body \in Bodily, NEW next, Turn(body, s, o, next, words),
         NEW inner, NEW acc, Follows(S, W, body, inner, acc),
         NEW e, e = EventOf(inner, o), NEW m, m = NextMode(inner, o), NEW t, t = TextStep(acc, e)
  PROVE  Follows(S, W, next, m, t)
<1>1. Aligned(S, next, m) /\ (inner = "none" /\ o.kind \in {"word", "alt", "spelled"} => o.of \in W)
  BY TurnAligned DEF Follows
<1>2. t \in ReadStates(W) /\ m \in Bodily /\ t.skip = SkipIn(m)  BY <1>1, TextSymbol DEF Follows
<1> QED  BY <1>1, <1>2 DEF Follows

\* Every word of a plain page's text is one that a reader of the page sees: what
\* the cleaner writes down is parsed a second time, and that parse shows none of
\* what the first one hid.
THEOREM TextIsOfThePage ==
  ASSUME NEW markup \in Seq(Marks), Plain(ToSet(markup))
  PROVE  \A block \in ToSet(Text(markup)) : ToSet(block) \subseteq ToSet(Seen(markup))
<1>1. PICK N \in Nat : N = Len(markup) /\ DOMAIN markup = 1..N /\ \A n \in 1..N : markup[n] \in Marks
  BY MarkupTyped
<1>2. PICK c : /\ c[0] = NothingOut
               /\ \A n \in 1..N : c[n] = CleanStep(c[n - 1], Events(markup)[n])
               /\ Cleaned(markup) = c[N].out
  BY <1>1, CleanRun
<1>3. PICK w : /\ w[0] = NothingSeen
               /\ \A n \in 1..N : w[n] = SeenStep(w[n - 1], Events(markup)[n])
               /\ Seen(markup) = w[N].words
  BY <1>1, SeenRun
<1>4. PICK mode : mode = Modes(markup)  OBVIOUS
<1>5. /\ \A n \in 0..N : Together(mode[n], c[n], w[n])
      /\ \A n \in 1..N : Read(c[n - 1], w[n - 1], markup[n], c[n], w[n])
  BY <1>1, <1>2, <1>3, <1>4, ReadPage
<1>6. \A n \in 0..N : c[n].out \in Seq(Marks) /\ c[n].body \in Bodily
  BY <1>5 DEF Together, CleanStates
<1>7. \A n \in 0..N : Begins(c[n].out, c[N].out) /\ ToSet(w[n].words) \subseteq ToSet(w[N].words)
  BY <1>5, <1>6, WhatIsReadStays
<1>8. PICK S, W : S = ToSet(markup) /\ W = ToSet(w[N].words)  OBVIOUS
<1>9. S \subseteq Marks /\ Plain(S) /\ \A n \in 1..N : markup[n] \in S  BY <1>1, <1>8 DEF ToSet
<1>10. PICK all \in Seq(Marks) : all = c[N].out  BY <1>6
<1>11. PICK M \in Nat : M = Len(all) /\ DOMAIN all = 1..M /\ \A k \in 1..M : all[k] \in Marks  BY MarkupTyped
<1>12. PICK t : /\ t[0] = NothingRead
                /\ \A k \in 1..M : t[k] = TextStep(t[k - 1], Events(all)[k])
                /\ Blocks(all) = t[M].blocks
  BY <1>11, TextRun
<1>13. PICK inner : inner = Modes(all)  OBVIOUS
<1>14. /\ inner[0] = "none"
       /\ \A k \in 1..M : inner[k] = NextMode(inner[k - 1], all[k])
       /\ \A k \in 1..M : Events(all)[k] = EventOf(inner[k - 1], all[k])
  BY <1>11, <1>13, ModesRun, EventsAre
<1> DEFINE At(n) == Len(c[n].out)
           Done == {n \in 0..N : Follows(S, W, c[n].body, inner[At(n)], t[At(n)])}
<1>15. 0 \in Done
  <2>1. NothingOut.out = <<>> /\ NothingOut.body = "none"  BY DEF NothingOut
  <2>2. NothingRead \in ReadStates(W) /\ NothingRead.skip = <<>>  BY DEF NothingRead, ReadStates, Names
  <2>3. Aligned(S, "none", "none")  BY DEF Aligned
  <2>4. At(0) = 0  BY <1>2, <2>1
  <2>5. Follows(S, W, "none", "none", NothingRead)  BY <2>2, <2>3 DEF Follows, SkipIn, Bodily
  <2> QED  BY <1>2, <1>12, <1>14, <2>1, <2>4, <2>5
<1>16. ASSUME NEW n \in 0..N, n \in Done, n < N PROVE n + 1 \in Done
  <2>1. n + 1 \in 1..N /\ (n + 1) - 1 = n /\ n + 1 \in 0..N  BY <1>16
  <2>2. PICK before, acc : before = c[n] /\ acc = c[n + 1]  OBVIOUS
  <2>3. PICK words : words = w[n + 1].words  OBVIOUS
  <2>4. before.out \in Seq(Marks) /\ before.body \in Bodily /\ acc.out \in Seq(Marks)
    BY <1>6, <2>1, <2>2
  <2>5. PICK L \in Nat : L = Len(before.out)  BY <2>4
  <2>6. Follows(S, W, before.body, inner[L], t[L])  BY <1>16, <2>2, <2>5
  <2>7. \/ acc.out = before.out /\ acc.body = before.body
        \/ \E o \in Marks : acc.out = Append(before.out, o)
                            /\ Turn(before.body, markup[n + 1], o, acc.body, words)
    <3>1. Read(c[n], w[n], markup[n + 1], c[n + 1], w[n + 1])  BY <1>5, <2>1
    <3> QED  BY <2>2, <2>3, <3>1 DEF Read, Wrote
  <2>8. CASE acc.out = before.out /\ acc.body = before.body
    <3>1. At(n + 1) = L  BY <2>2, <2>5, <2>8
    <3> QED  BY <2>1, <2>2, <2>6, <2>8, <3>1
  <2>9. CASE \E o \in Marks : acc.out = Append(before.out, o)
                              /\ Turn(before.body, markup[n + 1], o, acc.body, words)
    <3>1. PICK o \in Marks : acc.out = Append(before.out, o)
                             /\ Turn(before.body, markup[n + 1], o, acc.body, words)
      BY <2>9
    <3>2. Len(acc.out) = L + 1 /\ acc.out[L + 1] = o  BY <2>4, <2>5, <3>1
    <3>3. Begins(acc.out, all)  BY <1>7, <1>10, <2>1, <2>2
    <3>4. L + 1 \in 1..M /\ (L + 1) - 1 = L /\ all[L + 1] = o  BY <1>11, <3>2, <3>3 DEF Begins
    <3>5. inner[L + 1] = NextMode(inner[L], o) /\ t[L + 1] = TextStep(t[L], EventOf(inner[L], o))
      BY <1>12, <1>14, <3>4
    <3>6. PICK i, m, e, a, next :
            i = inner[L] /\ m = inner[L + 1] /\ e = EventOf(inner[L], o) /\ a = t[L] /\ next = t[L + 1]
      OBVIOUS
    <3>7. m = NextMode(i, o) /\ e = EventOf(i, o) /\ next = TextStep(a, e) /\ Follows(S, W, before.body, i, a)
      BY <2>6, <3>5, <3>6
    <3>8. PICK s \in S : s = markup[n + 1]  BY <1>9, <2>1
    <3>9. ToSet(words) \subseteq W  BY <1>7, <1>8, <2>1, <2>3
    <3>10. Follows(S, W, acc.body, m, next)
      BY <1>9, <2>4, <3>1, <3>7, <3>8, <3>9, FollowsWritten
    <3>11. At(n + 1) = L + 1  BY <2>2, <3>2
    <3> QED  BY <2>1, <2>2, <3>6, <3>10, <3>11
  <2> QED  BY <2>7, <2>8, <2>9
<1>17. 0..N \subseteq Done
  <2> HIDE DEF Done
  <2> QED  BY <1>15, <1>16, Counting
<1>18. Follows(S, W, c[N].body, inner[M], t[M])  BY <1>10, <1>11, <1>17
<1>19. Blocks(all) \in Seq(Seq(W))  BY <1>12, <1>18 DEF Follows, ReadStates
<1>20. PICK text \in Seq(Seq(W)) : text = Text(markup)
  BY <1>2, <1>10, <1>19, KeptTwice DEF Text
<1>21. ASSUME NEW block \in ToSet(text) PROVE ToSet(block) \subseteq W
  <2>1. block \in Seq(W)  BY DEF ToSet
  <2> QED  BY <2>1 DEF ToSet
<1> QED  BY <1>3, <1>8, <1>20, <1>21

\* No word of the text that is stored of a page is one that a reader of the page
\* does not see (html_cleaner.py, text_extractor.py), save for the pages that
\* the property names.
THEOREM StoredTextIsSeen == Spec => []TextIsSeen
<1>1. ASSUME NEW b \in BodyIds PROVE OnlySeen[b]
  <2>1. PICK markup : markup = Bodies[b]  OBVIOUS
  <2>2. markup \in Seq(Marks)
    <3>1. markup \in Seq(Symbols)  BY <2>1, SiteCrawlAssumption
    <3>2. PICK N \in Nat : N = Len(markup) /\ DOMAIN markup = 1..N /\ \A n \in 1..N : markup[n] \in Symbols
      BY <3>1, MarkupTyped
    <3>3. \A n \in 1..N : markup[n] \in Marks  BY <3>2 DEF Symbols, Marks, Names
    <3> QED  BY <3>1, <3>2, <3>3
  <2>3. Plain(ToSet(markup)) => \A block \in ToSet(Text(markup)) : ToSet(block) \subseteq ToSet(Seen(markup))
    BY <2>2, TextIsOfThePage
  <2> QED  BY <2>1, <2>3 DEF OnlySeen
<1>2. SiteInv => TextIsSeen
  <2> SUFFICES ASSUME SiteInv, NEW r \in Runs, NEW t \in Targets, NEW b,
                      b = pages[r][t].content["text"], b # NoBody
               PROVE  OnlySeen[b]
    BY DEF TextIsSeen
  <2>1. pages[r][t] \in PageRecords  BY DEF SiteInv, Typed
  <2>2. b \in BodyOrNone  BY <2>1 DEF PageRecords, Kinds
  <2> QED  BY <1>1, <2>2 DEF BodyOrNone
<1> QED  BY SiteInvariance, <1>1, <1>2, PTL
=============================================================================
