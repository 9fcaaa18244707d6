-------------------------- MODULE CrawlPlan_proofs --------------------------
(***************************************************************************)
(* Theorems about CrawlPlan and the selection of targets in it, for any    *)
(* requests, discovered URLs, limits and number of workers.                *)
(***************************************************************************)
EXTENDS CrawlPlan, FiniteSetTheorems, WellFoundedInduction, TLAPS

-----------------------------------------------------------------------------
(* Numbers, and functions defined from one to the next.                    *)

LEMMA LeastNat ==
  ASSUME NEW T, T \subseteq Nat, T # {}
  PROVE  \E x \in T : \A y \in T : x <= y
<1> DEFINE Less == {ss \in Nat \X Nat : ss[1] < ss[2]}
<1>1. IsWellFoundedOn(Less, Nat)  BY NatLessThanWellFounded DEF OpToRel
<1>2. PICK x \in T : \A y \in T : ~(<<y, x>> \in Less)  BY <1>1, WFMin
<1>3. ASSUME NEW y \in T, y < x PROVE FALSE
  <2>1. <<y, x>> \in Nat \X Nat /\ <<y, x>>[1] < <<y, x>>[2]  BY <1>3
  <2> QED  BY <1>2, <2>1
<1> QED  BY <1>3

LEMMA Counting ==
  ASSUME NEW N \in Nat, NEW S, 0 \in S, \A n \in 0..N : n \in S /\ n < N => n + 1 \in S
  PROVE  0..N \subseteq S
<1> SUFFICES ASSUME (0..N) \ S # {} PROVE FALSE  OBVIOUS
<1>1. PICK x \in (0..N) \ S : \A y \in (0..N) \ S : x <= y
  <2>1. PICK T : T = (0..N) \ S  OBVIOUS
  <2>2. T \subseteq Nat /\ T # {}  BY <2>1
  <2> QED  BY <2>1, <2>2, LeastNat
<1>2. x - 1 \in 0..N /\ x - 1 \in S /\ x - 1 < N  BY <1>1
<1> QED  BY <1>1, <1>2

\* The functions each of whose values is made of the one before.
Successions(k, V, a, G) ==
  {f \in [0..k -> V] : f[0] = a /\ \A n \in 1..k : f[n] = G[n][f[n - 1]]}

LEMMA Successive ==
  ASSUME NEW N \in Nat, NEW V, NEW a \in V, NEW G \in [1..N -> [V -> V]]
  PROVE  Successions(N, V, a, G) # {}
<1> USE DEF Successions
<1> DEFINE Starts(k) == Successions(k, V, a, G)
           S == {k \in 0..N : Starts(k) # {}}
<1>1. 0 \in S
  <2>1. [i \in 0..0 |-> a] \in Starts(0)  OBVIOUS
  <2> QED  BY <2>1
<1>2. ASSUME NEW k \in 0..N, k \in S, k < N PROVE k + 1 \in S
  <2>1. PICK f : f \in Starts(k)  BY <1>2
  <2> DEFINE h == [i \in 0..(k + 1) |-> IF i = k + 1 THEN G[k + 1][f[k]] ELSE f[i]]
  <2>2. k + 1 \in 1..N /\ k \in 0..k /\ f[k] \in V  BY <1>2, <2>1
  <2>3. h \in [0..(k + 1) -> V]  BY <2>1, <2>2
  <2>4. h[0] = a  BY <2>1
  <2>5. ASSUME NEW n \in 1..(k + 1) PROVE h[n] = G[n][h[n - 1]]
    <3>1. CASE n = k + 1  BY <2>2, <3>1
    <3>2. CASE n # k + 1
      <4>1. n \in 1..k /\ n - 1 \in 0..k  BY <3>2
      <4> QED  BY <2>1, <4>1
    <3> QED  BY <3>1, <3>2
  <2> HIDE DEF h
  <2>6. h \in Starts(k + 1)  BY <2>3, <2>4, <2>5
  <2>7. k + 1 \in 0..N  BY <2>2
  <2> QED  BY <2>6, <2>7
<1>3. 0..N \subseteq S
  <2> HIDE DEF S
  <2> QED  BY <1>1, <1>2, Counting
<1>4. Starts(N) # {}  BY <1>3
<1> QED  BY <1>4

-----------------------------------------------------------------------------
(* Sorting by keys.                                                        *)

LEMMA Lexicographic ==
  ASSUME NEW n \in Nat, NEW s \in Seq(Int), NEW t \in Seq(Int), Len(s) = n, Len(t) = n
  PROVE  /\ ~LexLess(s, s)
         /\ s # t => LexLess(s, t) \/ LexLess(t, s)
         /\ \A u \in Seq(Int) : Len(u) = n /\ LexLess(s, t) /\ LexLess(t, u) => LexLess(s, u)
<1>1. DOMAIN s = 1..n /\ DOMAIN t = 1..n  OBVIOUS
<1>2. \A i \in 1..n : s[i] \in Int /\ t[i] \in Int  BY <1>1
<1>3. ~LexLess(s, s)  BY <1>1, <1>2 DEF LexLess
<1>4. ASSUME s # t PROVE LexLess(s, t) \/ LexLess(t, s)
  <2> DEFINE D == {i \in 1..n : s[i] # t[i]}
  <2>1. D # {}
    <3>1. SUFFICES ASSUME \A i \in 1..n : s[i] = t[i] PROVE s = t  BY <1>4
    <3> QED  BY <1>1, <3>1
  <2>2. D \subseteq Nat  OBVIOUS
  <2>3. PICK i \in D : \A j \in D : i <= j
    <3> HIDE DEF D
    <3> QED  BY <2>1, <2>2, LeastNat
  <2>4. i \in 1..n /\ s[i] # t[i] /\ s[i] \in Int /\ t[i] \in Int  BY <1>2, <2>3
  <2>5. \A j \in 1..(i - 1) : j \in 1..n /\ s[j] = t[j]  BY <2>3, <2>4
  <2>6. CASE s[i] < t[i]  BY <1>1, <2>4, <2>5, <2>6 DEF LexLess
  <2>7. CASE t[i] < s[i]  BY <1>1, <2>4, <2>5, <2>7 DEF LexLess
  <2> QED  BY <2>4, <2>6, <2>7
<1>5. ASSUME NEW u \in Seq(Int), Len(u) = n, LexLess(s, t), LexLess(t, u)
      PROVE  LexLess(s, u)
  <2>1. PICK i \in 1..n : s[i] < t[i] /\ \A j \in 1..(i - 1) : s[j] = t[j]
    BY <1>1, <1>5 DEF LexLess
  <2>2. PICK k \in 1..n : t[k] < u[k] /\ \A j \in 1..(k - 1) : t[j] = u[j]
    BY <1>1, <1>5 DEF LexLess
  <2>3. \A j \in 1..n : s[j] \in Int /\ t[j] \in Int /\ u[j] \in Int  BY <1>2, <1>5
  <2>4. PICK m \in 1..n : m = IF i <= k THEN i ELSE k  OBVIOUS
  <2>5. m <= i /\ m <= k  BY <2>4
  <2>6. \A j \in 1..(m - 1) : s[j] = u[j]
    <3>1. ASSUME NEW j \in 1..(m - 1) PROVE j \in 1..(i - 1) /\ j \in 1..(k - 1)  BY <2>5
    <3> QED  BY <2>1, <2>2, <3>1
  <2>7. s[m] < u[m]
    <3>1. CASE i < k
      <4>1. m = i /\ i \in 1..(k - 1)  BY <2>4, <3>1
      <4> QED  BY <2>1, <2>2, <4>1
    <3>2. CASE k < i
      <4>1. m = k /\ k \in 1..(i - 1)  BY <2>4, <3>2
      <4> QED  BY <2>1, <2>2, <4>1
    <3>3. CASE i = k
      <4>1. m = i /\ s[i] < t[i] /\ t[i] < u[i]  BY <2>1, <2>2, <2>4, <3>3
      <4> QED  BY <2>3, <4>1
    <3> QED  BY <3>1, <3>2, <3>3
  <2> QED  BY <1>1, <2>6, <2>7 DEF LexLess
<1> QED  BY <1>3, <1>4, <1>5

\* Keys of one length, no two alike.
Keys(S, key, n) ==
  /\ key \in [S -> Seq(Int)]
  /\ \A c \in S : Len(key[c]) = n
  /\ \A c, d \in S : key[c] = key[d] => c = d

LEMMA SortedElements ==
  ASSUME NEW S, IsFiniteSet(S), NEW n \in Nat, NEW key, Keys(S, key, n)
  PROVE  LET order == SortedBy(S, key) IN
         /\ Cardinality(S) \in Nat
         /\ order \in [1..Cardinality(S) -> S]
         /\ \A c \in S : \E i \in 1..Cardinality(S) : order[i] = c
         /\ \A i, j \in 1..Cardinality(S) : i < j => LexLess(key[order[i]], key[order[j]])
<1>1. PICK K \in Nat : K = Cardinality(S)  BY FS_CardinalityType
<1> DEFINE Below(c) == {d \in S : LexLess(key[d], key[c])}
           rank == [c \in S |-> Cardinality(Below(c))]
<1>2. ASSUME NEW c \in S
      PROVE  IsFiniteSet(Below(c)) /\ Cardinality(Below(c)) \in 0..(K - 1) /\ c \notin Below(c)
  <2>1. c \notin Below(c)  BY Lexicographic DEF Keys
  <2>2. IsFiniteSet(S \ {c}) /\ Cardinality(S \ {c}) = K - 1  BY <1>1, FS_RemoveElement
  <2>3. Below(c) \in SUBSET (S \ {c})  BY <2>1
  <2> HIDE DEF Below
  <2>4. IsFiniteSet(Below(c)) /\ Cardinality(Below(c)) <= K - 1  BY <2>2, <2>3, FS_Subset
  <2>5. Cardinality(Below(c)) \in Nat  BY <2>4, FS_CardinalityType
  <2> QED  BY <2>1, <2>4, <2>5
<1>3. ASSUME NEW c \in S, NEW d \in S, LexLess(key[c], key[d])
      PROVE  Cardinality(Below(c)) < Cardinality(Below(d))
  <2>1. ASSUME NEW e \in Below(c) PROVE e \in Below(d)
    <3>1. key[e] \in Seq(Int) /\ key[c] \in Seq(Int) /\ key[d] \in Seq(Int)  BY <2>1 DEF Keys
    <3>2. Len(key[e]) = n /\ Len(key[c]) = n /\ Len(key[d]) = n  BY <2>1 DEF Keys
    <3>3. LexLess(key[e], key[c])  BY <2>1
    <3>4. LexLess(key[e], key[d])  BY <1>3, <3>1, <3>2, <3>3, Lexicographic
    <3> QED  BY <2>1, <3>4
  <2>2. c \in Below(d)  BY <1>3
  <2>3. IsFiniteSet(Below(c)) /\ Cardinality(Below(c)) \in Nat /\ c \notin Below(c)  BY <1>2
  <2>4. IsFiniteSet(Below(d)) /\ Cardinality(Below(d)) \in Nat  BY <1>2
  <2> HIDE DEF Below
  <2>5. Below(c) \cup {c} \in SUBSET Below(d)  BY <2>1, <2>2
  <2>6. Cardinality(Below(c) \cup {c}) = Cardinality(Below(c)) + 1  BY <2>3, FS_AddElement
  <2>7. Cardinality(Below(c) \cup {c}) <= Cardinality(Below(d))  BY <2>4, <2>5, FS_Subset
  <2> QED  BY <2>3, <2>4, <2>6, <2>7
<1>4. ASSUME NEW c \in S, NEW d \in S
      PROVE  c = d \/ LexLess(key[c], key[d]) \/ LexLess(key[d], key[c])
  <2>1. key[c] \in Seq(Int) /\ key[d] \in Seq(Int) /\ Len(key[c]) = n /\ Len(key[d]) = n  BY DEF Keys
  <2>2. key[c] = key[d] => c = d  BY DEF Keys
  <2> QED  BY <2>1, <2>2, Lexicographic
<1>5. rank \in [S -> 0..(K - 1)] /\ \A c \in S : rank[c] = Cardinality(Below(c))
  <2> HIDE DEF Below
  <2> QED  BY <1>2
<1>6. \A c, d \in S : rank[c] = rank[d] => c = d
  <2>1. ASSUME NEW c \in S, NEW d \in S, rank[c] = rank[d] PROVE c = d
    <3>1. rank[c] = Cardinality(Below(c)) /\ rank[d] = Cardinality(Below(d))  BY <1>5
    <3>2. Cardinality(Below(c)) \in Int  BY <1>2
    <3>3. Cardinality(Below(c)) = Cardinality(Below(d))  BY <2>1, <3>1
    <3> HIDE DEF Below, rank
    <3>4. ~LexLess(key[c], key[d]) /\ ~LexLess(key[d], key[c])  BY <1>3, <3>2, <3>3
    <3> QED  BY <1>4, <3>4
  <2> QED  BY <2>1
<1>7. \A r \in 0..(K - 1) : \E c \in S : rank[c] = r
  <2> HIDE DEF rank
  <2>1. rank \in Injection(S, 0..(K - 1))  BY <1>5, <1>6 DEF Injection, IsInjective
  <2>2. IsFiniteSet(0..(K - 1)) /\ Cardinality(0..(K - 1)) = K  BY FS_Interval
  <2>3. rank \in Surjection(S, 0..(K - 1))  BY <1>1, <2>1, <2>2, FS_Injection
  <2> QED  BY <2>3 DEF Surjection
<1>8. PICK order : order = SortedBy(S, key)  OBVIOUS
<1>9. ASSUME NEW i \in 1..K
      PROVE  order[i] \in S /\ Cardinality(Below(order[i])) = i - 1
  <2>1. order[i] = CHOOSE c \in S : Cardinality(Below(c)) = i - 1  BY <1>1, <1>8 DEF SortedBy
  <2>2. i - 1 \in 0..(K - 1)  OBVIOUS
  <2> HIDE DEF Below
  <2>3. \E c \in S : Cardinality(Below(c)) = i - 1  BY <1>5, <1>7, <2>2
  <2> QED  BY <2>1, <2>3
<1>10. order \in [1..K -> S]
  <2> DEFINE Nth(i) == CHOOSE c \in S : Cardinality({d \in S : LexLess(key[d], key[c])}) = i - 1
  <2>1. order = [i \in 1..K |-> Nth(i)]  BY <1>1, <1>8 DEF SortedBy
  <2> HIDE DEF Nth
  <2>2. \A i \in 1..K : Nth(i) \in S  BY <1>9, <2>1
  <2> QED  BY <2>1, <2>2
<1>11. ASSUME NEW c \in S PROVE \E i \in 1..K : order[i] = c
  <2>1. PICK i \in 1..K : i = rank[c] + 1
    <3> HIDE DEF rank
    <3> QED  BY <1>5
  <2>2. rank[order[i]] = i - 1  BY <1>5, <1>9
  <2>3. order[i] = c
    <3>1. order[i] \in S /\ rank[order[i]] = rank[c]
      <4> HIDE DEF rank
      <4>1. rank[c] \in 0..(K - 1)  BY <1>5
      <4>2. i - 1 = rank[c]  BY <2>1, <4>1
      <4> QED  BY <1>9, <2>2, <4>2
    <3> HIDE DEF rank
    <3> QED  BY <1>6, <3>1
  <2> QED  BY <2>3
<1>12. ASSUME NEW i \in 1..K, NEW j \in 1..K, i < j
       PROVE  LexLess(key[order[i]], key[order[j]])
  <2>1. order[i] \in S /\ order[j] \in S  BY <1>9
  <2>2. Cardinality(Below(order[i])) = i - 1 /\ Cardinality(Below(order[j])) = j - 1  BY <1>9
  <2> HIDE DEF Below
  <2>3. ~LexLess(key[order[j]], key[order[i]])  BY <1>3, <1>12, <2>1, <2>2
  <2>4. order[i] # order[j]  BY <1>12, <2>2
  <2> QED  BY <1>4, <2>1, <2>3, <2>4
<1> QED  BY <1>1, <1>8, <1>10, <1>11, <1>12

-----------------------------------------------------------------------------
(* Filling the caps: the greedy choice is the best choice.                 *)

Fills(d, c) == LexLess(FillOrderKey(d), FillOrderKey(c))
Ahead(chosen, always, c) == {d \in chosen \ always : Fills(d, c)}
OfKind(S, k) == {d \in S : CategoryOf(d.type) = k}

\* What is chosen and goes before a candidate leaves room for it.
Room(chosen, always, c, config) ==
  /\ Cardinality(always) + Cardinality(Ahead(chosen, always, c)) < config.maxPages
  /\ CategoryOf(c.type) \in Categories =>
       Cardinality(OfKind(Ahead(chosen, always, c), CategoryOf(c.type)))
         < config.caps[CategoryOf(c.type)]

Configs == [maxPages : Nat, caps : [Categories -> Nat]]
Accumulated(all) == [chosen : SUBSET all, counts : [Categories -> Nat], total : Nat, full : BOOLEAN]

\* What the loop holds after n candidates.
FilledUpTo(n, acc, order, always, pool, config) ==
  /\ acc \in Accumulated(always \cup pool)
  /\ always \subseteq acc.chosen
  /\ \A d \in acc.chosen \ always : \E i \in 1..n : d = order[i]
  /\ acc.total = Cardinality(always) + Cardinality(acc.chosen \ always)
  /\ \A k \in Categories : acc.counts[k] = Cardinality(OfKind(acc.chosen \ always, k))
  /\ acc.full => acc.total >= config.maxPages
  /\ \A i \in 1..n : order[i] \in acc.chosen <=> Room(acc.chosen, always, order[i], config)

LEMMA RankTyped == ASSUME NEW type \in PageTypes PROVE Rank[type] \in Int
<1>1. DOMAIN TypeOrder \subseteq Int  BY DEF TypeOrder
<1>2. \E i \in DOMAIN TypeOrder : TypeOrder[i] = type  BY DEF PageTypes, ToSet
<1>3. Rank[type] = CHOOSE i \in DOMAIN TypeOrder : TypeOrder[i] = type  BY DEF Rank
<1> HIDE DEF TypeOrder
<1> QED  BY <1>1, <1>2, <1>3

LEMMA KeyTyped ==
  ASSUME NEW c \in Candidates
  PROVE  /\ FillOrderKey(c) \in Seq(Int) /\ Len(FillOrderKey(c)) = 5 /\ FillOrderKey(c)[5] = c.url
         /\ FinalSortKey(c) \in Seq(Int) /\ Len(FinalSortKey(c)) = 3 /\ FinalSortKey(c)[3] = c.url
         /\ <<c.url>> \in Seq(Int) /\ Len(<<c.url>>) = 1 /\ <<c.url>>[1] = c.url
<1>1. c.type \in PageTypes /\ c.priority \in Int /\ c.depth \in Int /\ c.url \in Int
  BY DEF Candidates, Excluded
<1>2. PICK r \in Int : r = Rank[c.type]  BY <1>1, RankTyped
<1>3. PICK u \in Int : u = Unpreferred(c)  BY DEF Unpreferred
<1>4. FillOrderKey(c) = <<c.priority, r, c.depth, u, c.url>>  BY <1>2, <1>3 DEF FillOrderKey
<1>5. FinalSortKey(c) = <<r, c.priority, c.url>>  BY <1>2 DEF FinalSortKey
<1>6. FillOrderKey(c) \in Seq(Int) /\ Len(FillOrderKey(c)) = 5 /\ FillOrderKey(c)[5] = c.url
  BY <1>1, <1>4
<1>7. FinalSortKey(c) \in Seq(Int) /\ Len(FinalSortKey(c)) = 3 /\ FinalSortKey(c)[3] = c.url
  BY <1>1, <1>5
<1> QED  BY <1>1, <1>6, <1>7

LEMMA OneKind ==
  ASSUME NEW S, NEW c, NEW k
  PROVE  OfKind(S \cup {c}, k) =
           IF CategoryOf(c.type) = k THEN OfKind(S, k) \cup {c} ELSE OfKind(S, k)
BY DEF OfKind

\* One more candidate, behind all that have been considered.
LEMMA Considered ==
  ASSUME NEW always, IsFiniteSet(always), NEW pool, IsFiniteSet(pool), always \cap pool = {},
         NEW N \in Nat, NEW order \in [1..N -> pool],
         \A i, j \in 1..N : i < j => Fills(order[i], order[j]),
         \A i, j \in 1..N : i <= j => ~Fills(order[j], order[i]),
         NEW config \in Configs,
         NEW n \in 0..N, n < N, NEW acc, FilledUpTo(n, acc, order, always, pool, config)
  PROVE  FilledUpTo(n + 1, Consider(acc, order[n + 1], config), order, always, pool, config)
<1>1. PICK c : c = order[n + 1]  OBVIOUS
<1>2. n + 1 \in 1..N /\ c \in pool /\ c \notin always  BY <1>1
<1>3. PICK cat : cat = CategoryOf(c.type)  OBVIOUS
<1>4. PICK C : C = acc.chosen  OBVIOUS
<1>5. /\ acc \in Accumulated(always \cup pool) /\ always \subseteq C /\ C \subseteq always \cup pool
      /\ \A d \in C \ always : \E i \in 1..n : d = order[i]
      /\ acc.total = Cardinality(always) + Cardinality(C \ always)
      /\ \A k \in Categories : acc.counts[k] = Cardinality(OfKind(C \ always, k))
      /\ acc.full => acc.total >= config.maxPages
      /\ \A i \in 1..n : order[i] \in C <=> Room(C, always, order[i], config)
  BY <1>4 DEF FilledUpTo, Accumulated
<1>6. c \notin C
  <2>1. ASSUME c \in C PROVE FALSE
    <3>1. PICK i \in 1..n : c = order[i]  BY <1>2, <1>5, <2>1
    <3>2. i \in 1..N /\ i < n + 1  BY <3>1
    <3>3. Fills(order[i], order[n + 1]) /\ ~Fills(order[n + 1], order[n + 1])  BY <1>2, <3>2
    <3> QED  BY <1>1, <3>1, <3>3
  <2> QED  BY <2>1
<1>7. Ahead(C, always, c) = C \ always
  <2>1. ASSUME NEW d \in C \ always PROVE Fills(d, c)
    <3>1. PICK i \in 1..n : d = order[i]  BY <1>5
    <3> QED  BY <1>1, <1>2, <3>1
  <2> QED  BY <2>1 DEF Ahead
<1>8. Ahead(C \cup {c}, always, c) = C \ always
  <2>1. ~Fills(c, c)  BY <1>1, <1>2
  <2> QED  BY <1>2, <1>7, <2>1 DEF Ahead
<1>9. ASSUME NEW i \in 1..n PROVE Ahead(C \cup {c}, always, order[i]) = Ahead(C, always, order[i])
  <2>1. ~Fills(c, order[i])  BY <1>1, <1>2
  <2> QED  BY <2>1 DEF Ahead
<1>10. Room(C, always, c, config) <=>
         /\ acc.total < config.maxPages
         /\ cat \in Categories => acc.counts[cat] < config.caps[cat]
  BY <1>3, <1>5, <1>7 DEF Room
<1>11. Room(C \cup {c}, always, c, config) <=> Room(C, always, c, config)
  BY <1>7, <1>8 DEF Room
<1>12. ASSUME NEW i \in 1..n
       PROVE  Room(C \cup {c}, always, order[i], config) <=> Room(C, always, order[i], config)
  BY <1>9 DEF Room
<1>13. PICK next : next = Consider(acc, c, config)  OBVIOUS
<1>14. \A i \in 1..(n + 1) : i \in 1..n \/ i = n + 1  OBVIOUS
<1>15. acc.total \in Nat /\ acc.full \in BOOLEAN /\ acc.counts \in [Categories -> Nat]
       /\ config.maxPages \in Nat /\ config.caps \in [Categories -> Nat]
  BY <1>5 DEF Accumulated, Configs
<1>16. ASSUME NEW m, m \in Accumulated(always \cup pool), m.chosen = C, m.total = acc.total,
              m.counts = acc.counts, m.full => m.total >= config.maxPages,
              ~Room(C, always, c, config)
       PROVE  FilledUpTo(n + 1, m, order, always, pool, config)
  <2>1. \A d \in C \ always : \E i \in 1..(n + 1) : d = order[i]
    <3>1. \A i \in 1..n : i \in 1..(n + 1)  OBVIOUS
    <3> QED  BY <1>5, <3>1
  <2>2. \A i \in 1..(n + 1) : order[i] \in C <=> Room(C, always, order[i], config)
    BY <1>1, <1>5, <1>6, <1>14, <1>16
  <2> QED  BY <1>5, <1>16, <2>1, <2>2 DEF FilledUpTo
<1>17. CASE acc.full \/ (cat \in Categories /\ acc.counts[cat] >= config.caps[cat])
  <2>1. next = acc  BY <1>3, <1>13, <1>17 DEF Consider
  <2>2. ~Room(C, always, c, config)
    <3>1. CASE acc.full  BY <1>5, <1>10, <1>15, <3>1
    <3>2. CASE cat \in Categories /\ acc.counts[cat] >= config.caps[cat]
      <4>1. acc.counts[cat] \in Nat /\ config.caps[cat] \in Nat  BY <1>15, <3>2
      <4> QED  BY <1>10, <3>2, <4>1
    <3> QED  BY <1>17, <3>1, <3>2
  <2>3. FilledUpTo(n + 1, acc, order, always, pool, config)  BY <1>4, <1>5, <1>16, <2>2
  <2> QED  BY <1>1, <1>13, <2>1, <2>3
<1>18. CASE /\ ~(acc.full \/ (cat \in Categories /\ acc.counts[cat] >= config.caps[cat]))
            /\ acc.total >= config.maxPages
  <2>1. next = [acc EXCEPT !.full = TRUE]  BY <1>3, <1>13, <1>18 DEF Consider
  <2>2. ~Room(C, always, c, config)  BY <1>10, <1>15, <1>18
  <2>3. /\ next \in Accumulated(always \cup pool) /\ next.chosen = C /\ next.total = acc.total
        /\ next.counts = acc.counts /\ next.total >= config.maxPages
    BY <1>4, <1>5, <1>18, <2>1 DEF Accumulated
  <2>4. FilledUpTo(n + 1, next, order, always, pool, config)  BY <1>16, <2>2, <2>3
  <2> QED  BY <1>1, <1>13, <2>4
<1>19. CASE /\ ~(acc.full \/ (cat \in Categories /\ acc.counts[cat] >= config.caps[cat]))
            /\ ~(acc.total >= config.maxPages)
  <2>1. Room(C, always, c, config)
    <3>1. cat \in Categories => acc.counts[cat] \in Nat /\ config.caps[cat] \in Nat  BY <1>15
    <3> QED  BY <1>10, <1>15, <1>19, <3>1
  <2>2. next = [acc EXCEPT !.chosen = @ \cup {c}, !.total = @ + 1,
                           !.counts = [k \in Categories |-> @[k] + (IF k = cat THEN 1 ELSE 0)]]
    BY <1>3, <1>13, <1>19 DEF Consider
  <2>3. PICK counts : counts = [k \in Categories |-> acc.counts[k] + (IF k = cat THEN 1 ELSE 0)]
    OBVIOUS
  <2>4. counts \in [Categories -> Nat]  BY <1>15, <2>3
  <2>5. /\ next \in Accumulated(always \cup pool) /\ next.chosen = C \cup {c}
        /\ next.total = acc.total + 1 /\ next.counts = counts /\ next.full = acc.full
    <3>1. next = [acc EXCEPT !.chosen = C \cup {c}, !.total = acc.total + 1, !.counts = counts]
      BY <1>4, <2>2, <2>3
    <3>2. C \cup {c} \in SUBSET (always \cup pool) /\ acc.total + 1 \in Nat  BY <1>2, <1>5, <1>15
    <3>3. PICK E, t : E = C \cup {c} /\ t = acc.total + 1  OBVIOUS
    <3>4. next = [acc EXCEPT !.chosen = E, !.total = t, !.counts = counts]  BY <3>1, <3>3
    <3>5. E \in SUBSET (always \cup pool) /\ t \in Nat  BY <3>2, <3>3
    <3> QED  BY <1>5, <2>4, <3>3, <3>4, <3>5 DEF Accumulated
  <2>6. (C \cup {c}) \ always = (C \ always) \cup {c} /\ c \notin C \ always  BY <1>2, <1>6
  <2>7. IsFiniteSet(C \ always)
    <3>1. C \ always \in SUBSET pool  BY <1>5
    <3> QED  BY <3>1, FS_Subset
  <2>8. Cardinality((C \cup {c}) \ always) = Cardinality(C \ always) + 1
    BY <2>6, <2>7, FS_AddElement
  <2>9. ASSUME NEW k \in Categories
        PROVE  counts[k] = Cardinality(OfKind((C \cup {c}) \ always, k))
    <3>1. OfKind(C \ always, k) \in SUBSET (C \ always)  BY DEF OfKind
    <3>2. IsFiniteSet(OfKind(C \ always, k)) /\ c \notin OfKind(C \ always, k)
      BY <2>6, <2>7, <3>1, FS_Subset
    <3>3. Cardinality(OfKind(C \ always, k) \cup {c}) = Cardinality(OfKind(C \ always, k)) + 1
      BY <3>2, FS_AddElement
    <3>4. OfKind((C \cup {c}) \ always, k) =
            IF cat = k THEN OfKind(C \ always, k) \cup {c} ELSE OfKind(C \ always, k)
      <4>1. OfKind((C \ always) \cup {c}, k) =
              IF CategoryOf(c.type) = k THEN OfKind(C \ always, k) \cup {c} ELSE OfKind(C \ always, k)
        BY OneKind
      <4> QED  BY <1>3, <2>6, <4>1
    <3>5. acc.counts[k] = Cardinality(OfKind(C \ always, k)) /\ acc.counts[k] \in Nat
      BY <1>5, <1>15
    <3> QED  BY <2>3, <3>3, <3>4, <3>5
  <2>10. \A d \in (C \cup {c}) \ always : \E i \in 1..(n + 1) : d = order[i]
    <3>1. \A i \in 1..n : i \in 1..(n + 1)  OBVIOUS
    <3> QED  BY <1>1, <1>5, <3>1
  <2>11. ASSUME NEW i \in 1..(n + 1)
         PROVE  order[i] \in C \cup {c} <=> Room(C \cup {c}, always, order[i], config)
    <3>1. CASE i = n + 1  BY <1>1, <1>11, <2>1, <3>1
    <3>2. CASE i \in 1..n
      <4>1. order[i] # c
        <5>1. i \in 1..N /\ i < n + 1  BY <3>2
        <5>2. Fills(order[i], order[n + 1]) /\ ~Fills(order[n + 1], order[n + 1])  BY <1>2, <5>1
        <5> QED  BY <1>1, <5>2
      <4> QED  BY <1>5, <1>12, <3>2, <4>1
    <3> QED  BY <1>14, <3>1, <3>2
  <2>12. next.total = Cardinality(always) + Cardinality(next.chosen \ always)
    <3>1. Cardinality(always) \in Nat /\ Cardinality(C \ always) \in Nat
      BY <2>7, FS_CardinalityType
    <3> QED  BY <1>5, <2>5, <2>8, <3>1
  <2>13. FilledUpTo(n + 1, next, order, always, pool, config)
    <3>1. PICK D : D = C \cup {c}  OBVIOUS
    <3>2. /\ next.chosen = D /\ always \subseteq D
          /\ \A d \in D \ always : \E i \in 1..(n + 1) : d = order[i]
          /\ \A k \in Categories : next.counts[k] = Cardinality(OfKind(D \ always, k))
          /\ \A i \in 1..(n + 1) : order[i] \in D <=> Room(D, always, order[i], config)
      BY <1>5, <2>5, <2>9, <2>10, <2>11, <3>1
    <3>3. next.full => next.total >= config.maxPages  BY <1>19, <2>5
    <3> QED  BY <2>5, <2>12, <3>2, <3>3 DEF FilledUpTo
  <2> QED  BY <1>1, <1>13, <2>13
<1> QED  BY <1>17, <1>18, <1>19

LEMMA ConsiderTyped ==
  ASSUME NEW all, NEW acc \in Accumulated(all), NEW c \in all, NEW config
  PROVE  Consider(acc, c, config) \in Accumulated(all)
<1>1. PICK cat : cat = CategoryOf(c.type)  OBVIOUS
<1>2. PICK next : next = Consider(acc, c, config)  OBVIOUS
<1>3. \/ next = acc
      \/ next = [acc EXCEPT !.full = TRUE]
      \/ next = [acc EXCEPT !.chosen = @ \cup {c}, !.total = @ + 1,
                            !.counts = [k \in Categories |-> @[k] + (IF k = cat THEN 1 ELSE 0)]]
  BY <1>1, <1>2 DEF Consider
<1>4. CASE next = acc  BY <1>2, <1>4
<1>5. CASE next = [acc EXCEPT !.full = TRUE]  BY <1>2, <1>5 DEF Accumulated
<1>6. CASE next = [acc EXCEPT !.chosen = @ \cup {c}, !.total = @ + 1,
                              !.counts = [k \in Categories |-> @[k] + (IF k = cat THEN 1 ELSE 0)]]
  <2>1. PICK counts : counts = [k \in Categories |-> acc.counts[k] + (IF k = cat THEN 1 ELSE 0)]
    OBVIOUS
  <2>2. PICK E, t : E = acc.chosen \cup {c} /\ t = acc.total + 1  OBVIOUS
  <2>3. next = [acc EXCEPT !.chosen = E, !.total = t, !.counts = counts]  BY <1>6, <2>1, <2>2
  <2>4. counts \in [Categories -> Nat] /\ E \in SUBSET all /\ t \in Nat
    BY <2>1, <2>2 DEF Accumulated
  <2> QED  BY <1>2, <2>3, <2>4 DEF Accumulated
<1> QED  BY <1>3, <1>4, <1>5, <1>6

\* The keys of candidates with different URLs.
LEMMA FillKeys ==
  ASSUME NEW S, S \subseteq Candidates, \A c, d \in S : c.url = d.url => c = d
  PROVE  Keys(S, [c \in S |-> FillOrderKey(c)], 5)
BY KeyTyped DEF Keys

LEMMA FinalKeys ==
  ASSUME NEW S, S \subseteq Candidates, \A c, d \in S : c.url = d.url => c = d
  PROVE  Keys(S, [c \in S |-> FinalSortKey(c)], 3)
BY KeyTyped DEF Keys

LEMMA UrlKeys ==
  ASSUME NEW S, S \subseteq Candidates, \A c, d \in S : c.url = d.url => c = d
  PROVE  Keys(S, [c \in S |-> <<c.url>>], 1)
BY KeyTyped DEF Keys

\* Of the pool exactly those are chosen that find room behind the chosen ones
\* that outrank them.
LEMMA FilledIsBest ==
  ASSUME NEW always, IsFiniteSet(always), NEW pool, IsFiniteSet(pool), always \cap pool = {},
         pool \subseteq Candidates, \A c, d \in pool : c.url = d.url => c = d,
         NEW config \in Configs
  PROVE  LET filled == Filled(always, pool, config) IN
         /\ always \subseteq filled /\ filled \subseteq always \cup pool
         /\ \A c \in pool : c \in filled <=> Room(filled, always, c, config)
<1>1. PICK N : N = Cardinality(pool)  OBVIOUS
<1>2. PICK key : key = [c \in pool |-> FillOrderKey(c)]  OBVIOUS
<1>3. PICK order : order = SortedBy(pool, key)  OBVIOUS
<1>4. Keys(pool, key, 5)  BY <1>2, FillKeys
<1>5. /\ N \in Nat /\ order \in [1..N -> pool]
      /\ \A c \in pool : \E i \in 1..N : order[i] = c
      /\ \A i, j \in 1..N : i < j => LexLess(key[order[i]], key[order[j]])
  BY <1>1, <1>3, <1>4, SortedElements
<1>6. \A i, j \in 1..N : i < j => Fills(order[i], order[j])  BY <1>2, <1>5 DEF Fills
<1>7. ASSUME NEW i \in 1..N, NEW j \in 1..N, i <= j PROVE ~Fills(order[j], order[i])
  <2>1. PICK a, b : a = FillOrderKey(order[i]) /\ b = FillOrderKey(order[j])  OBVIOUS
  <2>2. a \in Seq(Int) /\ b \in Seq(Int) /\ Len(a) = 5 /\ Len(b) = 5  BY <1>5, <2>1, KeyTyped
  <2>3. ~LexLess(a, a) /\ (LexLess(a, b) /\ LexLess(b, a) => LexLess(a, a))
    BY <2>2, Lexicographic
  <2>4. i = j \/ LexLess(a, b)  BY <1>6, <1>7, <2>1 DEF Fills
  <2>5. i = j => a = b  BY <2>1
  <2> QED  BY <2>1, <2>3, <2>4, <2>5 DEF Fills
<1>8. PICK V : V = Accumulated(always \cup pool)  OBVIOUS
<1>9. PICK a : a = Unfilled(always)  OBVIOUS
<1>10. FilledUpTo(0, a, order, always, pool, config) /\ a \in V
  <2>1. Cardinality(always) \in Nat  BY FS_CardinalityType
  <2>2. a \in V  BY <1>8, <1>9, <2>1 DEF Unfilled, Accumulated
  <2>3. a.chosen \ always = {} /\ \A k : OfKind({}, k) = {}  BY <1>9 DEF Unfilled, OfKind
  <2>4. Cardinality(a.chosen \ always) = 0 /\ \A k : Cardinality(OfKind(a.chosen \ always, k)) = 0
    BY <2>3, FS_EmptySet
  <2>5. a.chosen = always /\ a.total = Cardinality(always) /\ ~a.full
        /\ \A k \in Categories : a.counts[k] = 0
    BY <1>9 DEF Unfilled
  <2>6. a.total = Cardinality(always) + Cardinality(a.chosen \ always)  BY <2>1, <2>4, <2>5
  <2>7. \A i \in 1..0 : FALSE  OBVIOUS
  <2>8. a.chosen \ always = {}  BY <2>3
  <2> QED  BY <1>8, <2>2, <2>4, <2>5, <2>6, <2>7, <2>8 DEF FilledUpTo
<1> DEFINE G == [n \in 1..N |-> [acc \in V |-> Consider(acc, order[n], config)]]
           Equation(after) ==
             after = [n \in 0..Cardinality(pool) |->
                        IF n = 0 THEN Unfilled(always) ELSE Consider(after[n - 1], order[n], config)]
<1>11. G \in [1..N -> [V -> V]]
  <2>1. ASSUME NEW n \in 1..N, NEW acc \in V PROVE Consider(acc, order[n], config) \in V
    <3>1. order[n] \in always \cup pool  BY <1>5
    <3> QED  BY <1>8, <3>1, ConsiderTyped
  <2> QED  BY <2>1
<1>12. PICK f \in [0..N -> V] : f[0] = a /\ \A n \in 1..N : f[n] = G[n][f[n - 1]]
  <2>1. PICK H : H = G  OBVIOUS
  <2>2. a \in V /\ H \in [1..N -> [V -> V]]  BY <1>10, <1>11, <2>1
  <2> HIDE DEF G
  <2>3. Successions(N, V, a, H) # {}  BY <1>5, <2>2, Successive
  <2> QED  BY <2>1, <2>3 DEF Successions
<1>13. ASSUME NEW n \in 1..N PROVE f[n - 1] \in V /\ f[n] = Consider(f[n - 1], order[n], config)
  <2>1. n - 1 \in 0..N  BY <1>5
  <2> QED  BY <1>12, <2>1
<1>14. Equation(f)
  <2>1. ASSUME NEW n \in 0..N
        PROVE  f[n] = IF n = 0 THEN Unfilled(always) ELSE Consider(f[n - 1], order[n], config)
    <3>1. n = 0 \/ n \in 1..N  BY <1>5
    <3> QED  BY <1>9, <1>12, <1>13, <3>1
  <2> QED  BY <1>1, <2>1
<1>15. PICK after : after = CHOOSE x : Equation(x)  OBVIOUS
<1>16. Equation(after)
  <2> HIDE DEF Equation
  <2> QED  BY <1>14, <1>15
<1>17. Filled(always, pool, config) = after[N].chosen  BY <1>1, <1>2, <1>3, <1>15 DEF Filled
<1>18. after[0] = a /\ \A n \in 1..N : after[n] = Consider(after[n - 1], order[n], config)
  BY <1>1, <1>5, <1>9, <1>16
<1> DEFINE S == {n \in 0..N : FilledUpTo(n, after[n], order, always, pool, config)}
<1>19. 0 \in S  BY <1>5, <1>10, <1>18
<1>20. ASSUME NEW n \in 0..N, n \in S, n < N PROVE n + 1 \in S
  <2>1. n + 1 \in 1..N /\ (n + 1) - 1 = n  BY <1>5, <1>20
  <2>2. PICK acc : acc = after[n]  OBVIOUS
  <2>3. after[n + 1] = Consider(acc, order[n + 1], config)  BY <1>18, <2>1, <2>2
  <2>4. FilledUpTo(n, acc, order, always, pool, config)  BY <1>20, <2>2
  <2>5. FilledUpTo(n + 1, Consider(acc, order[n + 1], config), order, always, pool, config)
    BY <1>5, <1>6, <1>7, <1>20, <2>4, Considered
  <2> QED  BY <2>1, <2>3, <2>5
<1>21. 0..N \subseteq S
  <2> HIDE DEF S
  <2> QED  BY <1>5, <1>19, <1>20, Counting
<1>22. FilledUpTo(N, after[N], order, always, pool, config)
  <2>1. N \in 0..N  BY <1>5
  <2> QED  BY <1>21, <2>1
<1>23. PICK F : F = after[N].chosen  OBVIOUS
<1>24. /\ always \subseteq F /\ F \subseteq always \cup pool
       /\ \A i \in 1..N : order[i] \in F <=> Room(F, always, order[i], config)
  BY <1>22, <1>23 DEF FilledUpTo, Accumulated
<1> QED  BY <1>5, <1>17, <1>23, <1>24

\* When a URL is listed as one thing, there is nothing to choose between its occurrences.
LEMMA DedupedIsSet ==
  ASSUME NEW cands \in Seq(Candidates),
         \A i, j \in DOMAIN cands : cands[i].url = cands[j].url => cands[i] = cands[j]
  PROVE  Deduped(cands) = ToSet(cands)
<1> DEFINE Key(i) == <<cands[i].depth, Unpreferred(cands[i]), i>>
           Beaten(i) == \E j \in DOMAIN cands : cands[j].url = cands[i].url /\ LexLess(Key(j), Key(i))
<1>1. Deduped(cands) = {cands[i] : i \in {i \in DOMAIN cands : ~Beaten(i)}}  BY DEF Deduped
<1>2. ToSet(cands) = {cands[i] : i \in DOMAIN cands}  BY DEF ToSet
<1>3. ASSUME NEW i \in DOMAIN cands
      PROVE  \E k \in DOMAIN cands : cands[k] = cands[i] /\ ~Beaten(k)
  <2> DEFINE D == {j \in DOMAIN cands : cands[j].url = cands[i].url}
  <2>1. D \subseteq Nat /\ i \in D  OBVIOUS
  <2>2. PICK k \in D : \A j \in D : k <= j
    <3>1. D # {}  BY <2>1
    <3> HIDE DEF D
    <3> QED  BY <2>1, <3>1, LeastNat
  <2>3. k \in DOMAIN cands /\ cands[k] = cands[i]  BY <2>2
  <2>4. ASSUME NEW j \in DOMAIN cands, cands[j].url = cands[k].url, LexLess(Key(j), Key(k))
        PROVE  FALSE
    <3>1. cands[j] = cands[k] /\ k <= j  BY <2>2, <2>3, <2>4
    <3>2. PICK d, u : d = cands[k].depth /\ u = Unpreferred(cands[k])  OBVIOUS
    <3>3. cands[k] \in Candidates  BY <2>3
    <3>4. d \in Int /\ u \in Int  BY <3>2, <3>3 DEF Candidates, Unpreferred
    <3>5. LexLess(<<d, u, j>>, <<d, u, k>>)  BY <2>4, <3>1, <3>2
    <3>6. PICK m \in 1..3 : <<d, u, j>>[m] < <<d, u, k>>[m]  BY <3>5 DEF LexLess
    <3>7. j \in Int /\ k \in Int /\ (m = 1 \/ m = 2 \/ m = 3)  BY <2>3
    <3> QED  BY <3>1, <3>4, <3>6, <3>7
  <2> QED  BY <2>3, <2>4
<1> HIDE DEF Beaten
<1> QED  BY <1>1, <1>2, <1>3

\* The URLs selected are those that are always taken and those that fill the caps.
LEMMA SelectedUrls ==
  ASSUME NEW cands \in Seq(Candidates),
         \A i, j \in DOMAIN cands : cands[i].url = cands[j].url => cands[i] = cands[j],
         NEW config \in Configs, NEW options,
         NEW always, always = AlwaysIncluded(ToSet(cands), options),
         NEW pool, pool = CappedPool(ToSet(cands), options),
         NEW selected, selected = SelectCrawlTargets(cands, config, options)
  PROVE  \E filled \in SUBSET (always \cup pool) :
           /\ always \subseteq filled /\ IsFiniteSet(always) /\ IsFiniteSet(filled)
           /\ \A c \in pool : c \in filled <=> Room(filled, always, c, config)
           /\ selected \in Seq(Candidates)
           /\ \A c \in ToSet(cands) :
                c \in filled <=> \E i \in DOMAIN selected : selected[i].url = c.url
<1>1. PICK listed : listed = ToSet(cands)  OBVIOUS
<1>2. IsFiniteSet(listed) /\ listed \subseteq Candidates
  <2>1. listed = {cands[i] : i \in 1..Len(cands)}  BY <1>1 DEF ToSet
  <2>2. cands \in [1..Len(cands) -> listed] /\ \A c \in listed : \E i \in 1..Len(cands) : cands[i] = c
    BY <2>1
  <2>3. cands \in Surjection(1..Len(cands), listed)  BY <2>2 DEF Surjection
  <2>4. IsFiniteSet(1..Len(cands))  BY FS_Interval
  <2> QED  BY <2>1, <2>3, <2>4, FS_Surjection
<1>3. \A c, d \in listed : c.url = d.url => c = d  BY <1>1 DEF ToSet
<1>4. Deduped(cands) = listed  BY <1>1, DedupedIsSet
<1>5. always \subseteq listed /\ pool \subseteq listed /\ always \cap pool = {}
  BY <1>1 DEF AlwaysIncluded, CappedPool
<1>6. IsFiniteSet(always) /\ IsFiniteSet(pool)  BY <1>2, <1>5, FS_Subset
<1>7. PICK filled : filled = Filled(always, pool, config)  OBVIOUS
<1>8. /\ always \subseteq filled /\ filled \subseteq always \cup pool
      /\ \A c \in pool : c \in filled <=> Room(filled, always, c, config)
  <2>1. pool \subseteq Candidates /\ \A c, d \in pool : c.url = d.url => c = d  BY <1>2, <1>3, <1>5
  <2> QED  BY <1>5, <1>6, <1>7, <2>1, FilledIsBest
<1>9. IsFiniteSet(filled) /\ filled \subseteq listed  BY <1>2, <1>5, <1>8, FS_Subset
<1>10. PICK key : key = [c \in filled |-> FinalSortKey(c)]  OBVIOUS
<1>11. Keys(filled, key, 3)
  <2>1. filled \subseteq Candidates /\ \A c, d \in filled : c.url = d.url => c = d
    BY <1>2, <1>3, <1>9
  <2> QED  BY <1>10, <2>1, FinalKeys
<1>12. selected = SortedBy(filled, key)  BY <1>1, <1>4, <1>7, <1>10 DEF SelectCrawlTargets
<1>13. PICK n : n = Cardinality(filled)  OBVIOUS
<1>14. /\ n \in Nat /\ selected \in [1..n -> filled]
       /\ \A c \in filled : \E i \in 1..n : selected[i] = c
  BY <1>9, <1>11, <1>12, <1>13, SortedElements
<1>15. selected \in Seq(Candidates)
  <2>1. selected \in [1..n -> Candidates]  BY <1>2, <1>9, <1>14
  <2> QED  BY <1>14, <2>1
<1>16. ASSUME NEW c \in listed
       PROVE  c \in filled <=> \E i \in DOMAIN selected : selected[i].url = c.url
  BY <1>3, <1>9, <1>14
<1> QED  BY <1>1, <1>6, <1>8, <1>9, <1>15, <1>16

\* Outranks is the order in which the pool is considered.
LEMMA OutranksFills ==
  ASSUME NEW d \in Candidates, NEW c \in Candidates
  PROVE  Outranks(d, c) <=> Fills(d, c)
BY DEF Outranks, Fills, FillOrderKey, Unpreferred

\* What BestTargetsSelected says of one selection.
Best(cands, config, options, chosen) ==
  LET listed == ToSet(cands)
      selected == {c \in listed : \E i \in DOMAIN chosen : chosen[i].url = c.url}
      always == {c \in listed : c.url \in ToSet(options.manual)
                                 \/ (TypeAllowed(c.type, options) /\ c.priority = 1)}
      Fits(c) ==
        LET before == {d \in selected \ always : Outranks(d, c)}
            rivals == {d \in before : CategoryOf(d.type) = CategoryOf(c.type)}
        IN /\ Cardinality(always) + Cardinality(before) < config.maxPages
           /\ CategoryOf(c.type) \in Categories =>
                Cardinality(rivals) < config.caps[CategoryOf(c.type)]
  IN \A c \in listed :
       c \in selected <=>
         (c \in always \/ (TypeAllowed(c.type, options) /\ c.priority \in {2, 3} /\ Fits(c)))

LEMMA SelectionIsBest ==
  ASSUME NEW cands \in Seq(Candidates),
         \A i, j \in DOMAIN cands : cands[i].url = cands[j].url => cands[i] = cands[j],
         NEW config \in Configs, NEW options,
         NEW chosen, chosen = SelectCrawlTargets(cands, config, options)
  PROVE  Best(cands, config, options, chosen)
<1>1. PICK listed : listed = ToSet(cands)  OBVIOUS
<1>2. PICK always : always = AlwaysIncluded(listed, options)  OBVIOUS
<1>3. PICK pool : pool = CappedPool(listed, options)  OBVIOUS
<1>4. PICK filled \in SUBSET (always \cup pool) :
        /\ always \subseteq filled
        /\ \A c \in pool : c \in filled <=> Room(filled, always, c, config)
        /\ \A c \in listed : c \in filled <=> \E i \in DOMAIN chosen : chosen[i].url = c.url
  <2>1. always = AlwaysIncluded(ToSet(cands), options) /\ pool = CappedPool(ToSet(cands), options)
    BY <1>1, <1>2, <1>3
  <2> QED  BY <1>1, <2>1, SelectedUrls
<1>5. filled \subseteq listed /\ listed \subseteq Candidates
  BY <1>1, <1>2, <1>3, <1>4 DEF AlwaysIncluded, CappedPool, ToSet
<1>6. filled = {c \in listed : \E i \in DOMAIN chosen : chosen[i].url = c.url}  BY <1>4, <1>5
<1>7. always = {c \in listed : c.url \in ToSet(options.manual)
                                \/ (TypeAllowed(c.type, options) /\ c.priority = 1)}
  BY <1>2 DEF AlwaysIncluded, Manual
<1>8. ASSUME NEW c \in listed
      PROVE  c \in pool <=> (c \notin always /\ TypeAllowed(c.type, options) /\ c.priority \in {2, 3})
  BY <1>2, <1>3 DEF AlwaysIncluded, CappedPool, Manual
<1>9. ASSUME NEW c \in listed
      PROVE  LET before == {d \in filled \ always : Outranks(d, c)} IN
             /\ before = Ahead(filled, always, c)
             /\ {d \in before : CategoryOf(d.type) = CategoryOf(c.type)}
                  = OfKind(Ahead(filled, always, c), CategoryOf(c.type))
  BY <1>5, OutranksFills DEF Ahead, OfKind
<1>10. ASSUME NEW c \in listed
       PROVE  LET before == {d \in filled \ always : Outranks(d, c)}
                  rivals == {d \in before : CategoryOf(d.type) = CategoryOf(c.type)}
              IN Room(filled, always, c, config) <=>
                   /\ Cardinality(always) + Cardinality(before) < config.maxPages
                   /\ CategoryOf(c.type) \in Categories =>
                        Cardinality(rivals) < config.caps[CategoryOf(c.type)]
  BY <1>9 DEF Room
<1>11. ASSUME NEW c \in listed
       PROVE  LET before == {d \in filled \ always : Outranks(d, c)}
                  rivals == {d \in before : CategoryOf(d.type) = CategoryOf(c.type)}
              IN c \in filled <=>
                   (c \in always \/ (/\ TypeAllowed(c.type, options) /\ c.priority \in {2, 3}
                                     /\ Cardinality(always) + Cardinality(before) < config.maxPages
                                     /\ CategoryOf(c.type) \in Categories =>
                                          Cardinality(rivals) < config.caps[CategoryOf(c.type)]))
  <2>1. c \in filled => c \in always \/ c \in pool  BY <1>4
  <2>2. c \in pool => (c \in filled <=> Room(filled, always, c, config))  BY <1>4
  <2> QED  BY <1>4, <1>8, <1>10, <2>1, <2>2
<1> QED  BY <1>1, <1>6, <1>7, <1>11 DEF Best

-----------------------------------------------------------------------------
(* The invariant of the requests and their jobs.                           *)

Unadmitted == {"new", "checked", "admitted", "conflict", "not_found"}
Steps == Unadmitted \cup {"queued", "starting", "listing", "selecting", "saving", "ended", "dead"}
RetrySteps == {"new", "loaded", "marked", "queued", "retrying", "ended", "dead"}
Statuses == Active \cup {"none", "cancelled", "finished"}
RunKeys == {<<>>} \cup {IdempotencyKey(a) : a \in Asked}
Works ==
  [conflict : SUBSET Requests, seen : SUBSET Requests, page : Nat \ {0}, listed : Seq(Candidates),
   settled : BOOLEAN, selected : Seq(Candidates)]

Typed ==
  /\ asked \in [Requests -> Asked] /\ pc \in [Requests -> Steps]
  /\ runs \in [Requests -> [status : Statuses, key : RunKeys]]
  /\ work \in [Requests -> Works] /\ targets \in [Requests -> Seq(Candidates)]
  /\ unsaved \in Seq(Candidates) /\ stored \in SUBSET Candidates /\ IsFiniteSet(stored)
  /\ retried \in [Retries -> Requests] /\ retryPc \in [Retries -> RetrySteps]
  /\ current \subseteq Requests \cup Retries /\ reopened \in [Requests -> SUBSET Requests]

\* No URL is saved twice.
UrlsOK ==
  /\ \A c, d \in stored : c.url = d.url => c = d
  /\ \A i, j \in DOMAIN unsaved : unsaved[i].url = unsaved[j].url => i = j
  /\ \A i \in DOMAIN unsaved, c \in stored : unsaved[i].url # c.url

\* A run has the key of its request; while its job waits it is not finished,
\* and a job that starts with the stored document has one that is active.
StatusOK ==
  \A q \in Requests :
    /\ runs[q].status = "none" <=> pc[q] \in Unadmitted
    /\ runs[q].status # "none" => runs[q].key = IdempotencyKey(asked[q])
    /\ pc[q] = "queued" => runs[q].status # "finished"
    /\ pc[q] = "starting" /\ q \in current => runs[q].status \in Active

\* What is retried exists, and its own job is no longer in the queue when the
\* retry's job runs.
RetryOK ==
  \A y \in Retries :
    /\ retryPc[y] # "new" => runs[retried[y]].status # "none"
    /\ y \in current => retryPc[y] # "new"
    /\ retryPc[y] = "retrying" => pc[retried[y]] # "queued"

\* Of the runs a request saw when it was checked, those that are active are
\* other runs than the one it asks for, or have been reopened since.
SeenOK ==
  \A r \in Requests :
    /\ reopened[r] \subseteq work[r].seen
    /\ \A q \in work[r].seen :
         /\ runs[q].status # "none"
         /\ runs[q].status \in Active /\ pc[r] # "conflict" =>
              runs[q].key # IdempotencyKey(asked[r]) \/ q \in reopened[r]

\* The listing so far is the first k URLs of the index, or all of them.
Index(S) == SortedBy(S, [c \in S |-> <<c.url>>])
FirstOf(listed, k, S) ==
  /\ Len(listed) = IF k <= Cardinality(S) THEN k ELSE Cardinality(S)
  /\ \A i \in DOMAIN listed : listed[i] = Index(S)[i]
Whole(listed, S) == Len(listed) = Cardinality(S) /\ ToSet(listed) = S

ListedOK ==
  \A q \in Requests :
    /\ \A i \in DOMAIN work[q].listed : work[q].listed[i] \in stored
    /\ pc[q] \in Unadmitted \cup {"queued", "starting"} =>
         work[q].listed = <<>> /\ work[q].page = 1 /\ ~work[q].settled
    /\ work[q].settled => unsaved = <<>>
    /\ work[q].settled /\ pc[q] = "listing" =>
         FirstOf(work[q].listed, (work[q].page - 1) * PageSize, stored)
    /\ work[q].settled /\ pc[q] \in {"selecting", "saving", "ended"} => Whole(work[q].listed, stored)

\* The job saves what it selected of what it listed.
SelectedOK ==
  \A q \in Requests :
    /\ Len(targets[q]) <= Len(work[q].selected)
    /\ pc[q] \notin {"saving", "ended", "dead"} => targets[q] = <<>>
    /\ pc[q] = "saving" =>
         work[q].selected =
           SelectCrawlTargets(work[q].listed, EffectiveConfig(asked[q].options), asked[q].options)

PlanInv == Typed /\ UrlsOK /\ StatusOK /\ RetryOK /\ SeenOK /\ ListedOK /\ SelectedOK

-----------------------------------------------------------------------------
(* The pages of a listing.                                                 *)

LEMMA LesserOf ==
  ASSUME NEW a \in Int, NEW b \in Int
  PROVE  Min({a, b}) = IF a <= b THEN a ELSE b
<1>1. \E x \in {a, b} : \A y \in {a, b} : x <= y  OBVIOUS
<1>2. Min({a, b}) \in {a, b} /\ \A y \in {a, b} : Min({a, b}) <= y  BY <1>1 DEF Min
<1>3. Min({a, b}) = a \/ Min({a, b}) = b  BY <1>2
<1> QED  BY <1>2, <1>3

LEMMA StoredOrder ==
  ASSUME Typed, UrlsOK
  PROVE  /\ Cardinality(stored) \in Nat
         /\ Stored \in Seq(Candidates) /\ Len(Stored) = Cardinality(stored)
         /\ Stored \in [1..Cardinality(stored) -> stored]
         /\ \A c \in stored : \E i \in 1..Cardinality(stored) : Stored[i] = c
<1>1. PICK key : key = [c \in stored |-> <<c.url>>]  OBVIOUS
<1>2. IsFiniteSet(stored) /\ stored \subseteq Candidates  BY DEF Typed
<1>3. Keys(stored, key, 1)  BY <1>1, <1>2, UrlKeys DEF UrlsOK
<1>4. Stored = SortedBy(stored, key)  BY <1>1 DEF Stored
<1>5. PICK n : n = Cardinality(stored)  OBVIOUS
<1>6. /\ n \in Nat /\ Stored \in [1..n -> stored]
      /\ \A c \in stored : \E i \in 1..n : Stored[i] = c
  BY <1>2, <1>3, <1>4, <1>5, SortedElements
<1>7. PICK s : s = Stored  OBVIOUS
<1>8. s \in [1..n -> Candidates]  BY <1>2, <1>6, <1>7
<1>9. s \in Seq(Candidates) /\ Len(s) = n  BY <1>6, <1>8
<1> QED  BY <1>5, <1>6, <1>7, <1>9

LEMMA PageRead ==
  ASSUME Typed, UrlsOK, NEW k \in Nat \ {0}
  PROVE  LET a == (k - 1) * PageSize
             n == Cardinality(stored)
             m == IF a + PageSize <= n THEN a + PageSize ELSE n
         IN /\ a \in Nat /\ a + PageSize = k * PageSize
            /\ PageOf(k) \in Seq(Candidates)
            /\ Len(PageOf(k)) = IF a < m THEN m - a ELSE 0
            /\ \A i \in 1..Len(PageOf(k)) : PageOf(k)[i] \in stored /\ PageOf(k)[i] = Stored[a + i]
<1>1. PICK a : a = (k - 1) * PageSize  OBVIOUS
<1>2. PICK n : n = Cardinality(stored)  OBVIOUS
<1>3. PICK s : s = Stored  OBVIOUS
<1>4. PageSize \in Nat \ {0}  BY CrawlPlanAssumption
<1>5. a \in Nat /\ a + PageSize = k * PageSize  BY <1>1, <1>4
<1>6. /\ n \in Nat /\ s \in Seq(Candidates) /\ Len(s) = n
      /\ \A i \in 1..n : s[i] \in stored
  BY <1>2, <1>3, StoredOrder
<1>7. PICK m : m = IF a + PageSize <= n THEN a + PageSize ELSE n  OBVIOUS
<1>8. m \in Nat /\ m <= n  BY <1>4, <1>5, <1>6, <1>7
<1>9. Min({k * PageSize, Len(Stored)}) = m
  <2>1. a + PageSize \in Int /\ n \in Int  BY <1>4, <1>5, <1>6
  <2>2. Min({a + PageSize, n}) = m  BY <1>7, <2>1, LesserOf
  <2> QED  BY <1>3, <1>5, <1>6, <2>2
<1>10. PICK items : items = PageOf(k)  OBVIOUS
<1>11. items = SubSeq(s, a + 1, m)  BY <1>1, <1>3, <1>9, <1>10 DEF PageOf
<1>12. /\ items \in Seq(Candidates)
       /\ Len(items) = IF a < m THEN m - a ELSE 0
       /\ \A i \in 1..Len(items) : items[i] = s[a + i]
  <2>1. CASE a < m
    <3>1. Len(items) = m - a /\ \A i \in 1..(m - a) : items[i] = s[a + i]
      BY <1>5, <1>6, <1>8, <1>11, <2>1
    <3>2. items \in Seq(Candidates)  BY <1>5, <1>6, <1>8, <1>11, <2>1
    <3> QED  BY <2>1, <3>1, <3>2
  <2>2. CASE ~(a < m)
    <3>1. items = <<>>  BY <1>5, <1>6, <1>8, <1>11, <2>2
    <3>2. items \in Seq(Candidates) /\ Len(items) = 0  BY <3>1
    <3>3. \A i \in 1..Len(items) : FALSE  BY <3>2
    <3> QED  BY <2>2, <3>2, <3>3
  <2> QED  BY <2>1, <2>2
<1>13. \A i \in 1..Len(items) : s[a + i] \in stored
  <2>1. ASSUME NEW i \in 1..Len(items) PROVE a + i \in 1..n
    <3>1. PICK l : l = Len(items)  OBVIOUS
    <3>2. l = IF a < m THEN m - a ELSE 0  BY <1>12, <3>1
    <3>3. i \in 1..l /\ n \in Nat  BY <1>6, <3>1
    <3> QED  BY <1>5, <1>8, <3>2, <3>3
  <2> QED  BY <1>6, <2>1
<1>14. \A i \in 1..Len(items) : items[i] \in stored /\ items[i] = s[a + i]  BY <1>12, <1>13
<1> HIDE DEF Stored, PageOf
<1> QED  BY <1>1, <1>2, <1>3, <1>5, <1>7, <1>10, <1>12, <1>14









-----------------------------------------------------------------------------
(* The steps.                                                              *)

LEMMA KeyOfRequest == ASSUME Typed, NEW q \in Requests PROVE IdempotencyKey(asked[q]) \in RunKeys
BY DEF Typed, RunKeys

LEMMA ConfigTyped ==
  ASSUME NEW options \in Options
  PROVE  EffectiveConfig(options) \in Configs
BY CrawlPlanAssumption DEF EffectiveConfig, Options, Configs, NotGiven

\* What a job has listed is one thing per URL.
LEMMA ListedOnce ==
  ASSUME PlanInv, NEW q \in Requests
  PROVE  /\ work[q].listed \in Seq(Candidates)
         /\ \A i, j \in DOMAIN work[q].listed :
              work[q].listed[i].url = work[q].listed[j].url => work[q].listed[i] = work[q].listed[j]
BY DEF PlanInv, Typed, Works, ListedOK, UrlsOK

LEMMA SelectionTyped ==
  ASSUME PlanInv, NEW q \in Requests
  PROVE  SelectCrawlTargets(work[q].listed, EffectiveConfig(asked[q].options), asked[q].options)
           \in Seq(Candidates)
<1>1. asked[q].options \in Options  BY CrawlPlanAssumption DEF PlanInv, Typed
<1>2. PICK config : config = EffectiveConfig(asked[q].options)  OBVIOUS
<1>3. PICK cands : cands = work[q].listed  OBVIOUS
<1>4. config \in Configs  BY <1>1, <1>2, ConfigTyped
<1>5. PICK options : options = asked[q].options  OBVIOUS
<1>6. cands \in Seq(Candidates)
      /\ \A i, j \in DOMAIN cands : cands[i].url = cands[j].url => cands[i] = cands[j]
  BY <1>3, ListedOnce
<1>7. PICK always, pool, selected :
        /\ always = AlwaysIncluded(ToSet(cands), options)
        /\ pool = CappedPool(ToSet(cands), options)
        /\ selected = SelectCrawlTargets(cands, config, options)
  OBVIOUS
<1>8. selected \in Seq(Candidates)  BY <1>4, <1>6, <1>7, SelectedUrls
<1> QED  BY <1>2, <1>3, <1>5, <1>7, <1>8

\* A write of a run changes its status only, if the copy is the stored one,
\* and leaves no other copy that is.
LEMMA Saved ==
  ASSUME Typed, NEW q \in Requests, NEW h, NEW status \in Statuses, NEW keeps \in BOOLEAN,
         SaveRun(q, h, status, keeps)
  PROVE  /\ runs' \in [Requests -> [status : Statuses, key : RunKeys]]
         /\ \A r \in Requests : runs'[r].key = runs[r].key /\ (r # q => runs'[r].status = runs[r].status)
         /\ runs'[q].status = IF h \in current THEN status ELSE runs[q].status
         /\ current' \subseteq current
         /\ h \in current => \A x \in current' : x \in Holders(q) => x = h
<1>1. CASE h \in current
  <2>1. runs' = [runs EXCEPT ![q].status = status]  BY <1>1 DEF SaveRun
  <2>2. current' = (current \ Holders(q)) \cup (IF keeps THEN {h} ELSE {})  BY <1>1 DEF SaveRun
  <2>3. runs \in [Requests -> [status : Statuses, key : RunKeys]]  BY DEF Typed
  <2> HIDE DEF Statuses
  <2>4. runs' \in [Requests -> [status : Statuses, key : RunKeys]]  BY <2>1, <2>3
  <2>5. \A r \in Requests : runs'[r].key = runs[r].key /\ (r # q => runs'[r].status = runs[r].status)
    BY <2>1, <2>3
  <2>6. runs'[q].status = status  BY <2>1, <2>3
  <2> QED  BY <1>1, <2>2, <2>4, <2>5, <2>6
<1>2. CASE h \notin current
  <2>1. runs' = runs /\ current' = current  BY <1>2 DEF SaveRun
  <2> QED  BY <1>2, <2>1 DEF Typed
<1> QED  BY <1>1, <1>2

\* Retries and cancellations leave requests, jobs and targets alone.
LEMMA RetryLeaves ==
  ASSUME NEW y \in Retries, RetryStep(y)
  PROVE  UNCHANGED <<unsaved, stored, asked, pc, work, targets, retried>>
BY DEF RetryStep, RetryLoad, RetryMark, RetryEnqueue, StartRetry, FinishRetry, RetryDie

\* The documents, and what jobs hold, keep their types.
LEMMA StepTyped == PlanInv /\ [Next]_vars => Typed'
<1> SUFFICES ASSUME PlanInv, [Next]_vars PROVE Typed'  OBVIOUS
<1> USE DEF PlanInv, Goto, Unadmitted, Steps, retryVars
<1>1. CASE SaveUrl
  <2>1. unsaved # <<>> /\ stored' = stored \cup {Head(unsaved)} /\ unsaved' = Tail(unsaved)
    BY <1>1 DEF SaveUrl
  <2>2. Head(unsaved) \in Candidates /\ Tail(unsaved) \in Seq(Candidates)  BY <2>1 DEF Typed
  <2>3. IsFiniteSet(stored \cup {Head(unsaved)})  BY FS_AddElement DEF Typed
  <2> QED  BY <1>1, <2>1, <2>2, <2>3 DEF SaveUrl, Typed
<1>2. ASSUME NEW q \in Requests, CheckActive(q) PROVE Typed'
  <2>1. PICK active, seen :
          /\ active = ActiveRuns(IdempotencyKey(asked[q]))
          /\ seen = {r \in Requests : runs[r].status # "none"}
    OBVIOUS
  <2>2. active \subseteq Requests /\ seen \subseteq Requests  BY <2>1 DEF ActiveRuns
  <2>3. work' = [work EXCEPT ![q].conflict = active, ![q].seen = seen]  BY <1>2, <2>1 DEF CheckActive
  <2>4. PICK w : w = [work[q] EXCEPT !.conflict = active, !.seen = seen]  OBVIOUS
  <2>5. w \in Works
    <3>1. work[q] \in Works  BY DEF Typed
    <3> QED  BY <2>2, <2>4, <3>1 DEF Works
  <2>6. work' = [work EXCEPT ![q] = w]  BY <2>3, <2>4 DEF Typed
  <2>7. pc' \in [Requests -> Steps]  BY <1>2 DEF CheckActive, Typed
  <2>8. work' \in [Requests -> Works]  BY <2>5, <2>6 DEF Typed
  <2> QED  BY <1>2, <2>7, <2>8 DEF CheckActive, Typed
<1>3. ASSUME NEW q \in Requests, CheckDiscoveryRun(q) PROVE Typed'
  BY <1>3 DEF CheckDiscoveryRun, Typed, Works
<1>4. ASSUME NEW q \in Requests, CreateRun(q) PROVE Typed'
  <2>1. PICK key \in RunKeys : key = IdempotencyKey(asked[q])  BY KeyOfRequest
  <2>2. [status |-> "queued", key |-> key] \in [status : Statuses, key : RunKeys]
    BY <2>1 DEF Statuses, Active
  <2>3. runs' = [runs EXCEPT ![q] = [status |-> "queued", key |-> key]]  BY <1>4, <2>1 DEF CreateRun
  <2>4. runs' \in [Requests -> [status : Statuses, key : RunKeys]]  BY <2>2, <2>3 DEF Typed
  <2>5. pc' \in [Requests -> Steps]  BY <1>4 DEF CreateRun, Typed
  <2> QED  BY <1>4, <2>4, <2>5 DEF CreateRun, Typed
<1>5. ASSUME NEW q \in Requests, LoadRun(q) PROVE Typed'
  BY <1>5 DEF LoadRun, Typed, Works
<1>6. ASSUME NEW q \in Requests, StartRun(q) PROVE Typed'
  <2>0. SaveRun(q, q, "running", TRUE)  BY <1>6 DEF StartRun
  <2>1. PICK w : w = [work[q] EXCEPT !.settled = (unsaved = <<>>)]  OBVIOUS
  <2>2. w \in Works
    <3>1. (unsaved = <<>>) \in BOOLEAN  OBVIOUS
    <3>2. work[q] \in Works  BY DEF Typed
    <3> QED  BY <2>1, <3>1, <3>2, Zenon DEF Works
  <2>3. work' = [work EXCEPT ![q] = w]  BY <1>6, <2>1 DEF StartRun, Typed
  <2>4. runs' \in [Requests -> [status : Statuses, key : RunKeys]] /\ current' \subseteq current
    <3>1. Typed /\ "running" \in Statuses  BY DEF Statuses, Active
    <3> QED  BY <2>0, <3>1, Saved
  <2>5. pc' \in [Requests -> Steps]  BY <1>6 DEF StartRun, Typed
  <2>6. work' \in [Requests -> Works]  BY <2>2, <2>3 DEF Typed
  <2> QED  BY <1>6, <2>4, <2>5, <2>6 DEF StartRun, Typed
<1>7. ASSUME NEW q \in Requests, ListUrls(q) PROVE Typed'
  <2>1. PICK items : items = PageOf(work[q].page)  OBVIOUS
  <2>2. PICK listed : listed = work[q].listed \o items  OBVIOUS
  <2>0. PICK done : done = IF items = <<>> \/ Len(listed) >= Cardinality(stored) THEN 0 ELSE 1
    OBVIOUS
  <2>3. done \in {0, 1} /\ (done = 0 <=> (items = <<>> \/ Len(listed) >= Cardinality(stored)))
    BY <2>0
  <2>4. work[q] \in Works /\ work[q].page \in Nat \ {0} /\ work[q].listed \in Seq(Candidates)
    BY DEF Typed, Works
  <2>5. items \in Seq(Candidates)  BY <2>1, <2>4, PageRead
  <2>6. listed \in Seq(Candidates)  BY <2>2, <2>4, <2>5
  <2>7. work' = [work EXCEPT ![q].listed = listed, ![q].page = work[q].page + done]
    BY <1>7, <2>1, <2>2, <2>3 DEF ListUrls, Typed
  <2>8. PICK page : page = work[q].page + done  OBVIOUS
  <2>9. page \in Nat \ {0}
    <3>1. PICK k : k = work[q].page  OBVIOUS
    <3>2. k \in Nat \ {0} /\ page = k + done /\ (done = 0 \/ done = 1)  BY <2>3, <2>4, <2>8, <3>1
    <3> QED  BY <3>2
  <2>10. work' \in [Requests -> Works]
    <3>1. PICK w : w = [work[q] EXCEPT !.listed = listed, !.page = page]  OBVIOUS
    <3>2. w \in Works  BY <2>4, <2>6, <2>9, <3>1 DEF Works
    <3>3. work' = [work EXCEPT ![q] = w]  BY <2>7, <2>8, <3>1 DEF Typed
    <3> QED  BY <3>2, <3>3 DEF Typed
  <2>11. pc' \in [Requests -> Steps]  BY <1>7 DEF ListUrls, Typed
  <2> QED  BY <1>7, <2>10, <2>11 DEF ListUrls, Typed
<1>8. ASSUME NEW q \in Requests, SelectTargets(q) PROVE Typed'
  <2>1. PICK chosen : chosen = SelectCrawlTargets(work[q].listed, EffectiveConfig(asked[q].options),
                                                  asked[q].options)
    OBVIOUS
  <2>2. chosen \in Seq(Candidates)  BY <2>1, SelectionTyped
  <2>3. work' = [work EXCEPT ![q].selected = chosen]  BY <1>8, <2>1 DEF SelectTargets
  <2>4. PICK w : w = [work[q] EXCEPT !.selected = chosen]  OBVIOUS
  <2>5. w \in Works
    <3>1. work[q] \in Works  BY DEF Typed
    <3> QED  BY <2>2, <2>4, <3>1 DEF Works
  <2>6. work' = [work EXCEPT ![q] = w]  BY <2>3, <2>4 DEF Typed
  <2>7. work' \in [Requests -> Works]  BY <2>5, <2>6 DEF Typed
  <2>8. pc' \in [Requests -> Steps]  BY <1>8 DEF SelectTargets, Typed
  <2>9. UNCHANGED <<unsaved, stored, asked, runs, targets, retryVars>>  BY <1>8 DEF SelectTargets
  <2> QED  BY <2>7, <2>8, <2>9 DEF Typed
<1>9. ASSUME NEW q \in Requests, SaveTarget(q) PROVE Typed'
  BY <1>9 DEF SaveTarget, Typed, Works
<1>10. ASSUME NEW q \in Requests, FinishRun(q) PROVE Typed'
  <2>1. SaveRun(q, q, "finished", FALSE)  BY <1>10 DEF FinishRun
  <2>2. runs' \in [Requests -> [status : Statuses, key : RunKeys]] /\ current' \subseteq current
    <3>1. Typed /\ "finished" \in Statuses  BY DEF Statuses
    <3> QED  BY <2>1, <3>1, Saved
  <2> QED  BY <1>10, <2>2 DEF FinishRun, Typed
<1>11. ASSUME NEW q \in Requests, Die(q) PROVE Typed'
  BY <1>11 DEF Die, Typed, Works
<1>12. ASSUME NEW q \in Requests, CancelRun(q) PROVE Typed'
  BY <1>12 DEF CancelRun, Typed, Works, Statuses
<1>13. ASSUME NEW q \in Requests, CancelJobs(q) PROVE Typed'
  BY <1>13 DEF CancelJobs, RetryGoto, Typed, RetrySteps
<1>14. ASSUME NEW y \in Retries, RetryStep(y) PROVE Typed'
  <2>1. UNCHANGED <<unsaved, stored, asked, pc, work, targets, retried>>  BY <1>14, RetryLeaves
  <2>2. retried[y] \in Requests  BY DEF Typed
  <2>3. retryPc' \in [Retries -> RetrySteps]
    BY <1>14 DEF RetryStep, RetryLoad, RetryMark, RetryEnqueue, StartRetry, FinishRetry, RetryDie,
                 RetryGoto, RetrySteps, Typed
  <2>4. /\ runs' \in [Requests -> [status : Statuses, key : RunKeys]]
        /\ current' \subseteq Requests \cup Retries
    <3>1. CASE RetryMark(y)
      <4>1. SaveRun(retried[y], y, "queued", FALSE)  BY <3>1 DEF RetryMark
      <4>2. Typed /\ "queued" \in Statuses  BY DEF Statuses, Active
      <4>3. runs' \in [Requests -> [status : Statuses, key : RunKeys]] /\ current' \subseteq current
        BY <2>2, <4>1, <4>2, Saved
      <4> QED  BY <4>3 DEF Typed
    <3>2. CASE FinishRetry(y)
      <4>1. SaveRun(retried[y], y, "finished", FALSE)  BY <3>2 DEF FinishRetry
      <4>2. Typed /\ "finished" \in Statuses  BY DEF Statuses
      <4>3. runs' \in [Requests -> [status : Statuses, key : RunKeys]] /\ current' \subseteq current
        BY <2>2, <4>1, <4>2, Saved
      <4> QED  BY <4>3 DEF Typed
    <3>3. CASE RetryLoad(y) \/ RetryEnqueue(y) \/ StartRetry(y) \/ RetryDie(y)
      BY <3>3 DEF RetryLoad, RetryEnqueue, StartRetry, RetryDie, Typed
    <3> QED  BY <1>14, <3>1, <3>2, <3>3 DEF RetryStep
  <2>5. reopened' \in [Requests -> SUBSET Requests]
    <3>1. CASE RetryMark(y)
      <4>1. \A r \in Requests : reopened[r] \cup {retried[y]} \in SUBSET Requests
        BY <2>2 DEF Typed
      <4> QED  BY <3>1, <4>1 DEF RetryMark, Typed
    <3>2. CASE ~RetryMark(y)
      BY <1>14, <3>2 DEF RetryStep, RetryLoad, RetryEnqueue, StartRetry, FinishRetry, RetryDie, Typed
    <3> QED  BY <3>1, <3>2
  <2> QED  BY <2>1, <2>3, <2>4, <2>5 DEF Typed
<1>15. CASE UNCHANGED vars
  BY <1>15 DEF vars, retryVars, Typed, Works
<1> QED
  BY <1>1, <1>2, <1>3, <1>4, <1>5, <1>6, <1>7,
     <1>8, <1>9, <1>10, <1>11, <1>12, <1>13, <1>14, <1>15 DEF Next, Handle, JobStep

\* Saving a URL keeps the URLs apart.
LEMMA StepUrls == PlanInv /\ [Next]_vars => UrlsOK'
<1> SUFFICES ASSUME PlanInv, [Next]_vars PROVE UrlsOK'  OBVIOUS
<1> USE DEF PlanInv, Goto, Unadmitted, Steps
<1>1. CASE SaveUrl
  <2>1. unsaved # <<>> /\ stored' = stored \cup {Head(unsaved)} /\ unsaved' = Tail(unsaved)
    BY <1>1 DEF SaveUrl
  <2>2. PICK n : n = Len(unsaved)  OBVIOUS
  <2>3. n \in Nat \ {0} /\ DOMAIN unsaved = 1..n /\ Head(unsaved) = unsaved[1]
        /\ DOMAIN unsaved' = 1..(n - 1) /\ \A i \in 1..(n - 1) : unsaved'[i] = unsaved[i + 1]
    BY <2>1, <2>2 DEF Typed
  <2>4. \A i \in 1..(n - 1) : i + 1 \in 1..n /\ i + 1 # 1 /\ 1 \in 1..n  BY <2>3
  <2>5. \A i, j \in 1..(n - 1) : i + 1 = j + 1 => i = j  BY <2>3
  <2> QED  BY <2>1, <2>3, <2>4, <2>5 DEF UrlsOK
<1>2. ASSUME NEW q \in Requests, CheckActive(q) PROVE UrlsOK'
  BY <1>2 DEF CheckActive, UrlsOK
<1>3. ASSUME NEW q \in Requests, CheckDiscoveryRun(q) PROVE UrlsOK'
  BY <1>3 DEF CheckDiscoveryRun, UrlsOK
<1>4. ASSUME NEW q \in Requests, CreateRun(q) PROVE UrlsOK'
  BY <1>4 DEF CreateRun, UrlsOK
<1>5. ASSUME NEW q \in Requests, LoadRun(q) PROVE UrlsOK'
  BY <1>5 DEF LoadRun, UrlsOK
<1>6. ASSUME NEW q \in Requests, StartRun(q) PROVE UrlsOK'
  BY <1>6 DEF StartRun, UrlsOK
<1>7. ASSUME NEW q \in Requests, ListUrls(q) PROVE UrlsOK'
  BY <1>7 DEF ListUrls, UrlsOK
<1>8. ASSUME NEW q \in Requests, SelectTargets(q) PROVE UrlsOK'
  BY <1>8 DEF SelectTargets, UrlsOK
<1>9. ASSUME NEW q \in Requests, SaveTarget(q) PROVE UrlsOK'
  BY <1>9 DEF SaveTarget, UrlsOK
<1>10. ASSUME NEW q \in Requests, FinishRun(q) PROVE UrlsOK'
  BY <1>10 DEF FinishRun, UrlsOK
<1>11. ASSUME NEW q \in Requests, Die(q) PROVE UrlsOK'
  BY <1>11 DEF Die, UrlsOK
<1>12. ASSUME NEW q \in Requests, CancelRun(q) PROVE UrlsOK'
  BY <1>12 DEF CancelRun, UrlsOK
<1>13. ASSUME NEW q \in Requests, CancelJobs(q) PROVE UrlsOK'
  BY <1>13 DEF CancelJobs, UrlsOK
<1>14. ASSUME NEW y \in Retries, RetryStep(y) PROVE UrlsOK'
  <2>1. UNCHANGED <<unsaved, stored, asked, pc, work, targets>>  BY <1>14, RetryLeaves
  <2> QED  BY <2>1 DEF UrlsOK
<1>15. CASE UNCHANGED vars
  BY <1>15 DEF vars, UrlsOK
<1> QED
  BY <1>1, <1>2, <1>3, <1>4, <1>5, <1>6, <1>7,
     <1>8, <1>9, <1>10, <1>11, <1>12, <1>13, <1>14, <1>15 DEF Next, Handle, JobStep

\* What a retry's write does to the runs.
LEMMA RetryWrites ==
  ASSUME PlanInv, NEW y \in Retries, RetryStep(y)
  PROVE  /\ \A r \in Requests : runs'[r].key = runs[r].key
         /\ \A r \in Requests : r # retried[y] => runs'[r].status = runs[r].status
         /\ runs'[retried[y]].status # runs[retried[y]].status =>
              /\ y \in current /\ current' \cap Holders(retried[y]) = {}
              /\ RetryMark(y) \/ (FinishRetry(y) /\ runs'[retried[y]].status = "finished")
              /\ RetryMark(y) => runs'[retried[y]].status = "queued"
         /\ current' \subseteq current \cup {y}
<1> DEFINE q == retried[y]
<1>1. q \in Requests /\ Typed  BY DEF PlanInv, Typed
<1>2. CASE RetryMark(y)
  <2>1. SaveRun(q, y, "queued", FALSE)  BY <1>2 DEF RetryMark
  <2>2. "queued" \in Statuses  BY DEF Statuses, Active
  <2> HIDE DEF q
  <2>3. y \in current => current' \cap Holders(q) = {}  BY <2>1 DEF SaveRun
  <2>4. /\ \A r \in Requests : runs'[r].key = runs[r].key /\ (r # q => runs'[r].status = runs[r].status)
        /\ runs'[q].status = IF y \in current THEN "queued" ELSE runs[q].status
        /\ current' \subseteq current
    BY <1>1, <2>1, <2>2, Saved
  <2> QED  BY <1>2, <2>3, <2>4 DEF q
<1>3. CASE FinishRetry(y)
  <2>1. SaveRun(q, y, "finished", FALSE)  BY <1>3 DEF FinishRetry
  <2>2. "finished" \in Statuses  BY DEF Statuses
  <2>3. ~RetryMark(y)  BY <1>3 DEF FinishRetry, RetryMark
  <2> HIDE DEF q
  <2>4. y \in current => current' \cap Holders(q) = {}  BY <2>1 DEF SaveRun
  <2>5. /\ \A r \in Requests : runs'[r].key = runs[r].key /\ (r # q => runs'[r].status = runs[r].status)
        /\ runs'[q].status = IF y \in current THEN "finished" ELSE runs[q].status
        /\ current' \subseteq current
    BY <1>1, <2>1, <2>2, Saved
  <2> QED  BY <1>3, <2>3, <2>4, <2>5 DEF q
<1>4. CASE RetryLoad(y) \/ RetryEnqueue(y) \/ StartRetry(y) \/ RetryDie(y)
  BY <1>4 DEF RetryLoad, RetryEnqueue, StartRetry, RetryDie
<1> QED  BY <1>2, <1>3, <1>4 DEF RetryStep

\* The status of a run follows its request and its job.
LEMMA StepStatus == PlanInv /\ [Next]_vars => StatusOK'
<1> SUFFICES ASSUME PlanInv, [Next]_vars PROVE StatusOK'  OBVIOUS
<1> USE DEF PlanInv, Goto, Unadmitted, Steps
<1>1. CASE SaveUrl  BY <1>1 DEF SaveUrl, StatusOK, retryVars
<1>2. ASSUME NEW q \in Requests, CheckActive(q) PROVE StatusOK'
  BY <1>2 DEF CheckActive, StatusOK, Typed, retryVars
<1>3. ASSUME NEW q \in Requests, CheckDiscoveryRun(q) PROVE StatusOK'
  BY <1>3 DEF CheckDiscoveryRun, StatusOK, Typed, retryVars
<1>4. ASSUME NEW q \in Requests, CreateRun(q) PROVE StatusOK'
  BY <1>4 DEF CreateRun, StatusOK, Typed, Active, retryVars
<1>5. ASSUME NEW q \in Requests, LoadRun(q) PROVE StatusOK'
  <2>1. runs[q].status # "cancelled" => runs[q].status \in Active
    BY <1>5 DEF LoadRun, StatusOK, Typed, Statuses
  <2>2. runs' = runs /\ asked' = asked /\ current' \subseteq current \cup {q}  BY <1>5 DEF LoadRun
  <2>3. pc[q] = "queued" /\ pc' = [pc EXCEPT ![q] = IF runs[q].status = "cancelled" THEN "ended" ELSE "starting"]
    BY <1>5 DEF LoadRun
  <2> QED  BY <2>1, <2>2, <2>3 DEF StatusOK, Typed
<1>6. ASSUME NEW q \in Requests, StartRun(q) PROVE StatusOK'
  <2>1. SaveRun(q, q, "running", TRUE) /\ pc[q] = "starting" /\ pc' = [pc EXCEPT ![q] = "listing"]
        /\ asked' = asked
    BY <1>6 DEF StartRun
  <2>2. "running" \in Statuses /\ "running" # "none" /\ "running" # "finished"  BY DEF Statuses, Active
  <2>3. /\ \A r \in Requests : runs'[r].key = runs[r].key /\ (r # q => runs'[r].status = runs[r].status)
        /\ runs'[q].status = IF q \in current THEN "running" ELSE runs[q].status
        /\ current' \subseteq current
    BY <2>1, <2>2, Saved
  <2> QED  BY <2>1, <2>2, <2>3 DEF StatusOK, Typed
<1>7. ASSUME NEW q \in Requests, ListUrls(q) PROVE StatusOK'
  BY <1>7 DEF ListUrls, StatusOK, Typed, retryVars
<1>8. ASSUME NEW q \in Requests, SelectTargets(q) PROVE StatusOK'
  BY <1>8 DEF SelectTargets, StatusOK, Typed, retryVars
<1>9. ASSUME NEW q \in Requests, SaveTarget(q) PROVE StatusOK'
  BY <1>9 DEF SaveTarget, StatusOK, Typed, retryVars
<1>10. ASSUME NEW q \in Requests, FinishRun(q) PROVE StatusOK'
  <2>1. SaveRun(q, q, "finished", FALSE) /\ pc[q] = "saving" /\ pc' = [pc EXCEPT ![q] = "ended"]
        /\ asked' = asked
    BY <1>10 DEF FinishRun
  <2>2. "finished" \in Statuses /\ "finished" # "none"  BY DEF Statuses
  <2>3. /\ \A r \in Requests : runs'[r].key = runs[r].key /\ (r # q => runs'[r].status = runs[r].status)
        /\ runs'[q].status = IF q \in current THEN "finished" ELSE runs[q].status
        /\ current' \subseteq current
    BY <2>1, <2>2, Saved
  <2> QED  BY <2>1, <2>2, <2>3 DEF StatusOK, Typed
<1>11. ASSUME NEW q \in Requests, Die(q) PROVE StatusOK'
  <2>1. pc[q] \in {"starting", "listing", "selecting", "saving"}
    BY <1>11, CrawlPlanAssumption DEF Die, Working
  <2>2. pc' = [pc EXCEPT ![q] = "dead"] /\ runs' = runs /\ asked' = asked /\ current' \subseteq current
    BY <1>11 DEF Die
  <2> QED  BY <2>1, <2>2 DEF StatusOK, Typed
<1>12. ASSUME NEW q \in Requests, CancelRun(q) PROVE StatusOK'
  <2>1. runs' = [runs EXCEPT ![q].status = "cancelled"] /\ runs[q].status # "none"
        /\ current' = current \ Holders(q) /\ pc' = pc /\ asked' = asked
    BY <1>12 DEF CancelRun
  <2>2. q \notin current'  BY <2>1 DEF Holders
  <2>3. runs'[q].status = "cancelled" /\ \A r \in Requests :
          runs'[r].key = runs[r].key /\ (r # q => runs'[r].status = runs[r].status)
    BY <2>1 DEF Typed
  <2> QED  BY <2>1, <2>2, <2>3 DEF StatusOK
<1>13. ASSUME NEW q \in Requests, CancelJobs(q) PROVE StatusOK'
  <2>1. runs' = runs /\ asked' = asked /\ current' = current
        /\ (pc' = pc \/ (pc[q] = "queued" /\ pc' = [pc EXCEPT ![q] = "ended"]))
    BY <1>13 DEF CancelJobs
  <2> QED  BY <2>1 DEF StatusOK, Typed
<1>14. ASSUME NEW y \in Retries, RetryStep(y) PROVE StatusOK'
  <2>1. pc' = pc /\ asked' = asked  BY <1>14, RetryLeaves
  <2>2. PICK q \in Requests : q = retried[y]  BY DEF Typed
  <2>3. /\ \A r \in Requests : runs'[r].key = runs[r].key
        /\ \A r \in Requests : r # q => runs'[r].status = runs[r].status
        /\ runs'[q].status # runs[q].status =>
             /\ y \in current /\ current' \cap Holders(q) = {}
             /\ RetryMark(y) \/ (FinishRetry(y) /\ runs'[q].status = "finished")
             /\ RetryMark(y) => runs'[q].status = "queued"
        /\ current' \subseteq current \cup {y}
    BY <1>14, <2>2, RetryWrites
  <2>4. y \notin Requests  BY CrawlPlanAssumption
  <2>5. runs'[q].status # runs[q].status =>
          /\ runs[q].status # "none" /\ runs'[q].status # "none" /\ q \notin current'
          /\ pc[q] = "queued" => runs'[q].status # "finished"
    <3>1. y \in current => runs[q].status # "none"  BY <2>2 DEF RetryOK
    <3>2. FinishRetry(y) => pc[q] # "queued"  BY <2>2 DEF FinishRetry, RetryOK
    <3>3. q \in Holders(q)  BY DEF Holders
    <3> QED  BY <2>3, <3>1, <3>2, <3>3
  <2>6. runs'[q].status = runs[q].status \/ runs'[q].status # runs[q].status  OBVIOUS
  <2>7. ASSUME NEW r \in Requests
        PROVE  /\ runs'[r].status = "none" <=> pc[r] \in Unadmitted
               /\ runs'[r].status # "none" => runs'[r].key = IdempotencyKey(asked[r])
               /\ pc[r] = "queued" => runs'[r].status # "finished"
               /\ pc[r] = "starting" /\ r \in current' => runs'[r].status \in Active
    <3>1. CASE runs'[r].status = runs[r].status
      <4>1. r \in current' => r \in current  BY <2>3, <2>4
      <4> QED  BY <2>3, <3>1, <4>1 DEF StatusOK
    <3>2. CASE runs'[r].status # runs[r].status
      <4>1. r = q  BY <2>3, <3>2
      <4> QED  BY <2>3, <2>5, <3>2, <4>1 DEF StatusOK
    <3> QED  BY <3>1, <3>2
  <2> QED  BY <2>1, <2>7 DEF StatusOK
<1>15. CASE UNCHANGED vars
  BY <1>15 DEF vars, retryVars, StatusOK
<1> QED
  BY <1>1, <1>2, <1>3, <1>4, <1>5, <1>6, <1>7,
     <1>8, <1>9, <1>10, <1>11, <1>12, <1>13, <1>14, <1>15 DEF Next, Handle, JobStep

\* A run never ceases to exist.
LEMMA RunsStay ==
  ASSUME PlanInv, StatusOK', pc' \in [Requests -> Steps],
         \A q \in Requests : pc[q] \notin Unadmitted => pc'[q] \notin Unadmitted
  PROVE  \A q \in Requests : runs[q].status # "none" => runs'[q].status # "none"
BY DEF PlanInv, StatusOK

\* Retries find their run, and their jobs run behind its own.
LEMMA StepRetry == PlanInv /\ [Next]_vars => RetryOK'
<1> SUFFICES ASSUME PlanInv, [Next]_vars PROVE RetryOK'  OBVIOUS
<1> USE DEF PlanInv, Goto
<1>1. Typed' /\ StatusOK'  BY StepTyped, StepStatus
<1>2. ASSUME UNCHANGED <<retried, retryPc>>, current' \cap Retries \subseteq current,
             \A q \in Requests : runs[q].status # "none" => runs'[q].status # "none",
             \A q \in Requests : pc[q] # "queued" /\ runs[q].status # "none" => pc'[q] # "queued"
      PROVE  RetryOK'
  <2>1. \A y \in Retries : retried[y] \in Requests  BY DEF Typed
  <2> QED  BY <1>2, <2>1 DEF RetryOK
<1>3. ASSUME NEW q \in Requests, UNCHANGED <<retried, retryPc>>, current' \subseteq current \cup {q},
             pc' \in [Requests -> Steps], \A r \in Requests : r # q => pc'[r] = pc[r],
             pc[q] \notin Unadmitted => pc'[q] \notin Unadmitted \cup {"queued"}
      PROVE  RetryOK'
  <2>1. current' \cap Retries \subseteq current  BY <1>3, CrawlPlanAssumption
  <2>2. \A r \in Requests : pc[r] \notin Unadmitted => pc'[r] \notin Unadmitted  BY <1>3
  <2>3. \A r \in Requests : runs[r].status # "none" => runs'[r].status # "none"
    BY <1>1, <1>3, <2>2, RunsStay
  <2>4. \A r \in Requests : pc[r] # "queued" /\ runs[r].status # "none" => pc'[r] # "queued"
    BY <1>3 DEF StatusOK
  <2> QED  BY <1>2, <1>3, <2>1, <2>3, <2>4
<1>4. CASE SaveUrl  BY <1>2, <1>4 DEF SaveUrl, retryVars
<1>5. ASSUME NEW q \in Requests, Handle(q) \/ JobStep(q) \/ Die(q) PROVE RetryOK'
  <2>1. UNCHANGED <<retried, retryPc>>
    BY <1>5 DEF Handle, JobStep, CheckActive, CheckDiscoveryRun, CreateRun, LoadRun, StartRun, ListUrls,
                SelectTargets, SaveTarget, FinishRun, Die, retryVars
  <2>2. current' \subseteq current \cup {q}
    BY <1>5 DEF Handle, JobStep, CheckActive, CheckDiscoveryRun, CreateRun, LoadRun, StartRun, ListUrls,
                SelectTargets, SaveTarget, FinishRun, Die, retryVars, SaveRun
  <2>3. pc' \in [Requests -> Steps]  BY <1>1 DEF Typed
  <2>4. \A r \in Requests : r # q => pc'[r] = pc[r]
    BY <1>5 DEF Handle, JobStep, CheckActive, CheckDiscoveryRun, CreateRun, LoadRun, StartRun, ListUrls,
                SelectTargets, SaveTarget, FinishRun, Die, Typed
  <2>5. pc[q] \notin Unadmitted => pc'[q] \notin Unadmitted \cup {"queued"}
    <3>1. CASE Handle(q)
      BY <3>1 DEF Handle, CheckActive, CheckDiscoveryRun, CreateRun, Unadmitted
    <3>2. CASE JobStep(q) \/ Die(q)
      BY <3>2 DEF JobStep, LoadRun, StartRun, ListUrls, SelectTargets, SaveTarget, FinishRun, Die,
                  Typed, Unadmitted
    <3> QED  BY <1>5, <3>1, <3>2
  <2> QED  BY <1>3, <2>1, <2>2, <2>3, <2>4, <2>5
<1>6. ASSUME NEW q \in Requests, CancelRun(q) PROVE RetryOK'
  <2>1. UNCHANGED <<retried, retryPc, pc>> /\ current' \subseteq current  BY <1>6 DEF CancelRun
  <2>2. pc' \in [Requests -> Steps]  BY <1>1 DEF Typed
  <2>3. \A r \in Requests : runs[r].status # "none" => runs'[r].status # "none"
    BY <1>1, <2>1, <2>2, RunsStay
  <2> QED  BY <1>2, <2>1, <2>3
<1>7. ASSUME NEW q \in Requests, CancelJobs(q) PROVE RetryOK'
  <2>1. UNCHANGED <<retried, current, runs>>  BY <1>7 DEF CancelJobs
  <2>2. \A r \in Requests : pc'[r] = "queued" => pc[r] = "queued"  BY <1>7 DEF CancelJobs, Typed
  <2>3. \A y \in Retries : /\ retryPc'[y] # "new" <=> retryPc[y] # "new"
                           /\ retryPc'[y] = "retrying" => retryPc[y] = "retrying"
    BY <1>7 DEF CancelJobs, RetryGoto, Typed
  <2>4. \A y \in Retries : retried[y] \in Requests  BY DEF Typed
  <2> QED  BY <2>1, <2>2, <2>3, <2>4 DEF RetryOK
<1>8. ASSUME NEW y \in Retries, RetryStep(y) PROVE RetryOK'
  <2>1. pc' = pc /\ retried' = retried  BY <1>8, RetryLeaves
  <2>2. current' \subseteq current \cup {y}  BY <1>8, RetryWrites
  <2>3. pc' \in [Requests -> Steps]  BY <1>1 DEF Typed
  <2>4. \A r \in Requests : runs[r].status # "none" => runs'[r].status # "none"
    BY <1>1, <2>1, <2>3, RunsStay
  <2>5. retryPc'[y] # "new" /\ \A z \in Retries : z # y => retryPc'[z] = retryPc[z]
    BY <1>8 DEF RetryStep, RetryLoad, RetryMark, RetryEnqueue, StartRetry, FinishRetry, RetryDie,
                RetryGoto, Typed
  <2>6. runs[retried[y]].status # "none"
    <3>1. CASE RetryLoad(y)  BY <3>1 DEF RetryLoad
    <3>2. CASE ~RetryLoad(y)
      <4>1. retryPc[y] # "new"
        BY <1>8, <3>2 DEF RetryStep, RetryMark, RetryEnqueue, StartRetry, FinishRetry, RetryDie
      <4> QED  BY <4>1 DEF RetryOK
    <3> QED  BY <3>1, <3>2
  <2>7. retryPc'[y] = "retrying" => pc[retried[y]] # "queued"
    <3>1. CASE StartRetry(y)  BY <3>1 DEF StartRetry
    <3>2. CASE ~StartRetry(y)
      BY <1>8, <3>2 DEF RetryStep, RetryLoad, RetryMark, RetryEnqueue, FinishRetry, RetryDie,
                        RetryGoto, Typed
    <3> QED  BY <3>1, <3>2
  <2>8. \A z \in Retries : retried[z] \in Requests  BY DEF Typed
  <2> QED  BY <2>1, <2>2, <2>4, <2>5, <2>6, <2>7, <2>8 DEF RetryOK
<1>9. CASE UNCHANGED vars
  BY <1>2, <1>9 DEF vars, retryVars
<1> QED  BY <1>4, <1>5, <1>6, <1>7, <1>8, <1>9 DEF Next

LEMMA Joined ==
  ASSUME NEW V, NEW s \in Seq(V), NEW t \in Seq(V)
  PROVE  DOMAIN (s \o t) = 1..(Len(s) + Len(t)) /\ Len(s \o t) = Len(s) + Len(t)
OBVIOUS

\* The next page continues a listing where it ended; an empty one follows the last.
LEMMA ReadOn ==
  ASSUME Typed, UrlsOK, NEW k \in Nat \ {0}, NEW listed \in Seq(Candidates),
         FirstOf(listed, (k - 1) * PageSize, stored),
         NEW items, items = PageOf(k), NEW next, next = listed \o items
  PROVE  /\ FirstOf(next, k * PageSize, stored)
         /\ items = <<>> => Len(next) = Cardinality(stored)
<1>1. PICK a : a = (k - 1) * PageSize  OBVIOUS
<1>2. PICK n : n = Cardinality(stored)  OBVIOUS
<1>3. PICK s : s = Index(stored)  OBVIOUS
<1>4. PICK m : m = IF a + PageSize <= n THEN a + PageSize ELSE n  OBVIOUS
<1>5. PageSize \in Nat \ {0}  BY CrawlPlanAssumption
<1>6. n \in Nat  BY <1>2, StoredOrder
<1>7. Stored = Index(stored)  BY DEF Stored, Index
<1>8. /\ a \in Nat /\ a + PageSize = k * PageSize
      /\ items \in Seq(Candidates)
      /\ Len(items) = IF a < m THEN m - a ELSE 0
      /\ \A i \in 1..Len(items) : items[i] = s[a + i]
  <2> HIDE DEF PageOf, Stored
  <2> QED  BY <1>1, <1>2, <1>3, <1>4, <1>7, PageRead
<1>9. PICK l : l = Len(listed)  OBVIOUS
<1>10. PICK p : p = Len(items)  OBVIOUS
<1>11. /\ l = IF a <= n THEN a ELSE n
       /\ \A i \in 1..l : listed[i] = s[i]
  BY <1>1, <1>2, <1>3, <1>9 DEF FirstOf
<1>12. p = IF a < m THEN m - a ELSE 0  BY <1>8, <1>10
<1>13. a \in Nat /\ m \in Nat /\ l \in Nat /\ p \in Nat  BY <1>4, <1>5, <1>6, <1>8, <1>9, <1>10
<1>14. l + p = m /\ (p = 0 => m = n) /\ (p # 0 => l = a)
  BY <1>4, <1>5, <1>6, <1>11, <1>12, <1>13
<1>15. Len(next) = m /\ DOMAIN next = 1..m
  <2>1. PICK all : all = listed \o items  OBVIOUS
  <2>2. DOMAIN all = 1..(Len(listed) + Len(items)) /\ Len(all) = Len(listed) + Len(items)
    BY <1>8, <2>1, Joined
  <2>3. next = all  BY <2>1
  <2> QED  BY <1>9, <1>10, <1>14, <2>2, <2>3
<1>16. ASSUME NEW i \in 1..m PROVE next[i] = s[i]
  <2>1. CASE i <= l
    <3>1. i \in 1..l /\ next[i] = listed[i]  BY <1>8, <1>9, <1>13, <1>15, <2>1
    <3> QED  BY <1>11, <3>1
  <2>2. CASE i > l
    <3>1. i - l \in 1..p /\ p # 0  BY <1>13, <1>14, <2>2
    <3>2. next[i] = items[i - l]  BY <1>8, <1>9, <1>10, <1>13, <1>14, <2>2, <3>1
    <3>3. a + (i - l) = i  BY <1>13, <1>14, <3>1
    <3> QED  BY <1>8, <1>10, <3>1, <3>2, <3>3
  <2>3. i <= l \/ i > l  BY <1>13
  <2> QED  BY <2>1, <2>2, <2>3
<1>17. items = <<>> => p = 0  BY <1>10
<1>18. m = IF k * PageSize <= n THEN k * PageSize ELSE n  BY <1>4, <1>8
<1> QED  BY <1>2, <1>3, <1>14, <1>15, <1>16, <1>17, <1>18 DEF FirstOf

\* The first URLs, as many as there are, are all of them.
LEMMA ReadAll ==
  ASSUME Typed, UrlsOK, NEW k \in Nat, NEW listed \in Seq(Candidates), FirstOf(listed, k, stored),
         Len(listed) >= Cardinality(stored)
  PROVE  Whole(listed, stored)
<1>1. PICK n : n = Cardinality(stored)  OBVIOUS
<1>2. PICK s : s = Index(stored)  OBVIOUS
<1>3. Stored = Index(stored)  BY DEF Stored, Index
<1>4. n \in Nat /\ (\A i \in 1..n : s[i] \in stored) /\ \A c \in stored : \E i \in 1..n : s[i] = c
  <2> HIDE DEF Stored
  <2> QED  BY <1>1, <1>2, <1>3, StoredOrder
<1>5. Len(listed) = n  BY <1>1, <1>4 DEF FirstOf
<1>6. DOMAIN listed = 1..n /\ \A i \in 1..n : listed[i] = s[i]  BY <1>2, <1>5 DEF FirstOf
<1>7. ToSet(listed) = stored  BY <1>4, <1>6 DEF ToSet
<1> QED  BY <1>1, <1>5, <1>7 DEF Whole

\* A step after which no run is active that was not keeps what was seen.
LEMMA SeenStays ==
  ASSUME PlanInv, asked' = asked,
         \A r \in Requests : work'[r].seen = work[r].seen /\ reopened'[r] = reopened[r],
         \A r \in Requests : pc'[r] # "conflict" => pc[r] # "conflict",
         \A q \in Requests : runs[q].status # "none" => runs'[q].status # "none",
         \A q \in Requests : runs[q].status # "none" /\ runs'[q].status \in Active =>
                               runs[q].status \in Active /\ runs'[q].key = runs[q].key
  PROVE  SeenOK'
<1>1. \A r \in Requests : work[r].seen \subseteq Requests  BY DEF PlanInv, Typed, Works
<1>2. ASSUME NEW r \in Requests, NEW q \in work'[r].seen
      PROVE  /\ runs'[q].status # "none"
             /\ runs'[q].status \in Active /\ pc'[r] # "conflict" =>
                  runs'[q].key # IdempotencyKey(asked'[r]) \/ q \in reopened'[r]
  <2>1. q \in Requests /\ q \in work[r].seen  BY <1>1, <1>2
  <2>2. runs[q].status # "none"  BY <2>1 DEF PlanInv, SeenOK
  <2>3. runs[q].status \in Active /\ pc[r] # "conflict" =>
          runs[q].key # IdempotencyKey(asked[r]) \/ q \in reopened[r]
    BY <2>1 DEF PlanInv, SeenOK
  <2> QED  BY <2>1, <2>2, <2>3
<1>3. \A r \in Requests : reopened'[r] \subseteq work'[r].seen  BY DEF PlanInv, SeenOK
<1> QED  BY <1>2, <1>3 DEF SeenOK

\* No run of the key becomes active again but by a retry.
LEMMA StepSeen == PlanInv /\ [Next]_vars => SeenOK'
<1> SUFFICES ASSUME PlanInv, [Next]_vars PROVE SeenOK'  OBVIOUS
<1> USE DEF PlanInv, Goto
<1>1. Typed' /\ StatusOK'  BY StepTyped, StepStatus
<1>2. CASE SaveUrl \/ UNCHANGED vars
  <2>1. UNCHANGED <<asked, work, pc, runs, reopened>>  BY <1>2 DEF SaveUrl, vars, retryVars
  <2> QED  BY <2>1, SeenStays
<1>3. ASSUME NEW q \in Requests, CheckActive(q) PROVE SeenOK'
  <2>1. PICK active, seen :
          /\ active = ActiveRuns(IdempotencyKey(asked[q]))
          /\ seen = {r \in Requests : runs[r].status # "none"}
    OBVIOUS
  <2>2. work' = [work EXCEPT ![q].conflict = active, ![q].seen = seen]  BY <1>3, <2>1 DEF CheckActive
  <2>3. work'[q].seen = seen /\ \A r \in Requests : r # q => work'[r] = work[r]
    BY <2>2 DEF Typed, Works
  <2>4. pc' = [pc EXCEPT ![q] = IF active # {} THEN "conflict" ELSE "checked"]
    BY <1>3, <2>1 DEF CheckActive
  <2>5. pc'[q] = "conflict" \/ active = {}  BY <2>4 DEF Typed
  <2>6. \A r \in Requests : r # q => pc'[r] = pc[r]  BY <2>4 DEF Typed
  <2>7. ASSUME NEW x \in seen
        PROVE  /\ runs[x].status # "none"
               /\ runs[x].status \in Active /\ pc'[q] # "conflict" => runs[x].key # IdempotencyKey(asked[q])
    BY <2>1, <2>5 DEF ActiveRuns
  <2>8. runs' = runs /\ asked' = asked /\ reopened' = reopened  BY <1>3 DEF CheckActive, retryVars
  <2>9. ASSUME NEW r \in Requests, NEW x \in work'[r].seen
        PROVE  /\ runs[x].status # "none"
               /\ runs[x].status \in Active /\ pc'[r] # "conflict" =>
                    runs[x].key # IdempotencyKey(asked[r]) \/ x \in reopened[r]
    BY <2>3, <2>6, <2>7, <2>9 DEF SeenOK
  <2>10. ASSUME NEW r \in Requests PROVE reopened[r] \subseteq work'[r].seen
    <3>1. reopened[q] \subseteq seen  BY <2>1 DEF SeenOK, Typed
    <3> QED  BY <2>3, <3>1 DEF SeenOK
  <2> QED  BY <2>8, <2>9, <2>10 DEF SeenOK
<1>4. ASSUME NEW q \in Requests,
             CheckDiscoveryRun(q) \/ ListUrls(q) \/ SelectTargets(q) \/ SaveTarget(q) \/ LoadRun(q) \/ Die(q)
               \/ CancelJobs(q)
      PROVE  SeenOK'
  <2>1. UNCHANGED <<asked, runs, reopened>>
    BY <1>4 DEF CheckDiscoveryRun, ListUrls, SelectTargets, SaveTarget, LoadRun, Die, CancelJobs, retryVars
  <2>2. \A r \in Requests : work'[r].seen = work[r].seen
    <3>1. CASE ListUrls(q)
      <4>1. PICK listed, page : work' = [work EXCEPT ![q].listed = listed, ![q].page = page]
        BY <3>1 DEF ListUrls, Typed
      <4> QED  BY <4>1 DEF Typed, Works
    <3>2. CASE SelectTargets(q)
      <4>1. PICK chosen : work' = [work EXCEPT ![q].selected = chosen]  BY <3>2 DEF SelectTargets
      <4> QED  BY <4>1 DEF Typed, Works
    <3>3. CASE ~ListUrls(q) /\ ~SelectTargets(q)
      <4>1. UNCHANGED work
        BY <1>4, <3>3 DEF CheckDiscoveryRun, SaveTarget, LoadRun, Die, CancelJobs
      <4> QED  BY <4>1
    <3> QED  BY <3>1, <3>2, <3>3
  <2>3. \A r \in Requests : pc'[r] # "conflict" => pc[r] # "conflict"
    <3>1. CASE UNCHANGED pc  BY <3>1
    <3>2. CASE pc[q] # "conflict" /\ \A r \in Requests : r # q => pc'[r] = pc[r]  BY <3>2
    <3>3. CASE CheckDiscoveryRun(q)  BY <3>2, <3>3 DEF CheckDiscoveryRun, Typed
    <3>4. CASE ListUrls(q)  BY <3>2, <3>4 DEF ListUrls, Typed
    <3>5. CASE SelectTargets(q)  BY <3>2, <3>5 DEF SelectTargets, Typed
    <3>6. CASE SaveTarget(q)  BY <3>1, <3>6 DEF SaveTarget
    <3>7. CASE LoadRun(q)  BY <3>2, <3>7 DEF LoadRun, Typed
    <3>8. CASE Die(q)
      <4>1. pc[q] # "conflict"  BY <3>8, CrawlPlanAssumption DEF Die, Working
      <4> QED  BY <3>2, <3>8, <4>1 DEF Die, Typed
    <3>9. CASE CancelJobs(q)  BY <3>1, <3>2, <3>9 DEF CancelJobs, Typed
    <3> QED  BY <1>4, <3>3, <3>4, <3>5, <3>6, <3>7, <3>8, <3>9
  <2> QED  BY <2>1, <2>2, <2>3, SeenStays
<1>5. ASSUME NEW q \in Requests, CreateRun(q) PROVE SeenOK'
  <2>1. UNCHANGED <<asked, work, reopened>> /\ pc[q] = "admitted" /\ pc' = [pc EXCEPT ![q] = "queued"]
    BY <1>5 DEF CreateRun, retryVars
  <2>2. runs' = [runs EXCEPT ![q] = [status |-> "queued", key |-> IdempotencyKey(asked[q])]]
    BY <1>5 DEF CreateRun
  <2>3. runs[q].status = "none"  BY <2>1 DEF StatusOK, Unadmitted
  <2>4. \A r \in Requests : r # q => runs'[r] = runs[r]  BY <2>2 DEF Typed
  <2>5. \A r \in Requests : pc'[r] # "conflict" => pc[r] # "conflict"  BY <2>1 DEF Typed
  <2> QED  BY <2>1, <2>3, <2>4, <2>5, SeenStays
<1>6. ASSUME NEW q \in Requests, StartRun(q) \/ FinishRun(q) PROVE SeenOK'
  <2>1. PICK status \in {"running", "finished"}, keeps \in BOOLEAN :
          SaveRun(q, q, status, keeps) /\ (status = "running" => pc[q] = "starting")
    <3>1. CASE StartRun(q)
      <4>1. SaveRun(q, q, "running", TRUE) /\ pc[q] = "starting"  BY <3>1 DEF StartRun
      <4> QED  BY <4>1
    <3>2. CASE FinishRun(q)
      <4>1. SaveRun(q, q, "finished", FALSE)  BY <3>2 DEF FinishRun
      <4> QED  BY <4>1
    <3> QED  BY <1>6, <3>1, <3>2
  <2>2. status \in Statuses /\ status # "none" /\ "finished" \notin Active  BY <2>1 DEF Statuses, Active
  <2>3. /\ \A r \in Requests : runs'[r].key = runs[r].key /\ (r # q => runs'[r].status = runs[r].status)
        /\ runs'[q].status = IF q \in current THEN status ELSE runs[q].status
    BY <2>1, <2>2, Saved
  <2>4. q \in current /\ status \in Active => runs[q].status \in Active  BY <2>1, <2>2 DEF StatusOK
  <2>5. UNCHANGED <<asked, reopened>>  BY <1>6 DEF StartRun, FinishRun
  <2>6. \A r \in Requests : work'[r].seen = work[r].seen
    <3>1. CASE StartRun(q)
      <4>1. PICK settled : settled = (unsaved = <<>>)  OBVIOUS
      <4>2. work' = [work EXCEPT ![q].settled = settled]  BY <3>1, <4>1 DEF StartRun
      <4> QED  BY <4>2 DEF Typed, Works
    <3>2. CASE FinishRun(q)  BY <3>2 DEF FinishRun
    <3> QED  BY <1>6, <3>1, <3>2
  <2>7. \A r \in Requests : pc'[r] # "conflict" => pc[r] # "conflict"
    BY <1>6 DEF StartRun, FinishRun, Typed
  <2> QED  BY <2>2, <2>3, <2>4, <2>5, <2>6, <2>7, SeenStays
<1>7. ASSUME NEW q \in Requests, CancelRun(q) PROVE SeenOK'
  <2>1. UNCHANGED <<asked, work, pc, reopened>> /\ runs' = [runs EXCEPT ![q].status = "cancelled"]
    BY <1>7 DEF CancelRun
  <2>2. runs'[q].status = "cancelled" /\ "cancelled" \notin Active /\ \A r \in Requests : r # q => runs'[r] = runs[r]
    BY <2>1 DEF Typed, Active
  <2> QED  BY <2>1, <2>2, SeenStays
<1>8. ASSUME NEW y \in Retries, RetryStep(y) PROVE SeenOK'
  <2>1. UNCHANGED <<asked, work, pc>>  BY <1>8, RetryLeaves
  <2>2. PICK q \in Requests : q = retried[y]  BY DEF Typed
  <2>3. /\ \A r \in Requests : runs'[r].key = runs[r].key
        /\ \A r \in Requests : r # q => runs'[r].status = runs[r].status
        /\ runs'[q].status # runs[q].status =>
             /\ y \in current
             /\ RetryMark(y) \/ (FinishRetry(y) /\ runs'[q].status = "finished")
    BY <1>8, <2>2, RetryWrites
  <2>4. \A r \in Requests : runs[r].status # "none" => runs'[r].status # "none"
    <3>1. pc' \in [Requests -> Steps]  BY <1>1 DEF Typed
    <3> QED  BY <1>1, <2>1, <3>1, RunsStay
  <2>5. "finished" \notin Active  BY DEF Active
  <2>6. CASE ~RetryMark(y)
    <3>1. UNCHANGED reopened
      BY <1>8, <2>6 DEF RetryStep, RetryLoad, RetryEnqueue, StartRetry, FinishRetry, RetryDie
    <3>2. \A r \in Requests : runs'[r].status \in Active => runs'[r].status = runs[r].status
      BY <2>3, <2>5, <2>6
    <3> QED  BY <2>1, <2>3, <2>4, <3>1, <3>2, SeenStays
  <2>7. CASE RetryMark(y)
    <3>1. reopened' = [r \in Requests |->
             IF y \in current /\ runs[q].status \notin Active /\ q \in work[r].seen
               THEN reopened[r] \cup {q} ELSE reopened[r]]
      BY <2>2, <2>7 DEF RetryMark
    <3>2. ASSUME NEW r \in Requests
          PROVE  /\ reopened[r] \subseteq reopened'[r] /\ reopened'[r] \subseteq work[r].seen
                 /\ y \in current /\ runs[q].status \notin Active /\ q \in work[r].seen => q \in reopened'[r]
      BY <3>1 DEF SeenOK
    <3>3. ASSUME NEW r \in Requests, NEW x \in work[r].seen
          PROVE  /\ runs'[x].status # "none"
                 /\ runs'[x].status \in Active /\ pc[r] # "conflict" =>
                      runs'[x].key # IdempotencyKey(asked[r]) \/ x \in reopened'[r]
      <4>1. x \in Requests /\ runs[x].status # "none"  BY DEF Typed, Works, SeenOK
      <4>2. runs[x].status \in Active /\ pc[r] # "conflict" =>
              runs[x].key # IdempotencyKey(asked[r]) \/ x \in reopened[r]
        BY DEF SeenOK
      <4>3. CASE runs'[x].status = runs[x].status  BY <2>3, <3>2, <4>1, <4>2, <4>3
      <4>4. CASE runs'[x].status # runs[x].status
        <5>1. x = q /\ y \in current  BY <2>3, <4>1, <4>4
        <5>2. runs[q].status \in Active \/ q \in reopened'[r]  BY <3>2, <5>1
        <5> QED  BY <2>3, <2>4, <3>2, <4>1, <4>2, <5>1, <5>2
      <4> QED  BY <4>3, <4>4
    <3> QED  BY <2>1, <3>2, <3>3 DEF SeenOK
  <2> QED  BY <2>6, <2>7
<1> QED  BY <1>2, <1>3, <1>4, <1>5, <1>6, <1>7, <1>8 DEF Next, Handle, JobStep

\* A page continues the listing where the page before it ended.
LEMMA StepListed == PlanInv /\ [Next]_vars => ListedOK'
<1> SUFFICES ASSUME PlanInv, [Next]_vars PROVE ListedOK'  OBVIOUS
<1> USE DEF PlanInv, Goto, Unadmitted, Steps
<1>1. CASE SaveUrl  BY <1>1 DEF SaveUrl, ListedOK
<1>2. ASSUME NEW q \in Requests, CheckActive(q) PROVE ListedOK'
  BY <1>2 DEF CheckActive, ListedOK, Typed, Works
<1>3. ASSUME NEW q \in Requests, CheckDiscoveryRun(q) PROVE ListedOK'
  BY <1>3 DEF CheckDiscoveryRun, ListedOK, Typed, Works
<1>4. ASSUME NEW q \in Requests, CreateRun(q) PROVE ListedOK'
  BY <1>4 DEF CreateRun, ListedOK, Typed, Works
<1>5. ASSUME NEW q \in Requests, LoadRun(q) PROVE ListedOK'
  BY <1>5 DEF LoadRun, ListedOK, Typed, Works
<1>6. ASSUME NEW q \in Requests, StartRun(q) PROVE ListedOK'
  <2>1. PICK settled \in BOOLEAN : settled <=> unsaved = <<>>  OBVIOUS
  <2>2. work' = [work EXCEPT ![q].settled = settled]
    <3>1. (unsaved = <<>>) = settled  BY <2>1, Zenon
    <3> QED  BY <1>6, <3>1 DEF StartRun
  <2>3. pc[q] = "starting" /\ pc' = [pc EXCEPT ![q] = "listing"] /\ unsaved' = unsaved /\ stored' = stored
    BY <1>6 DEF StartRun
  <2>4. work[q] \in Works  BY DEF Typed
  <2>5. /\ work'[q].listed = work[q].listed /\ work'[q].page = work[q].page
        /\ work'[q].settled = settled
        /\ \A r \in Requests : r # q => work'[r] = work[r]
    BY <2>2, <2>4 DEF Typed, Works
  <2>6. pc'[q] = "listing" /\ \A r \in Requests : r # q => pc'[r] = pc[r]  BY <2>3 DEF Typed
  <2>7. work[q].listed = <<>> /\ work[q].page = 1  BY <2>3 DEF ListedOK
  <2>8. FirstOf(<<>>, (1 - 1) * PageSize, stored)
    <3>1. (1 - 1) * PageSize = 0 /\ Cardinality(stored) \in Nat
      BY StoredOrder, CrawlPlanAssumption
    <3> QED  BY <3>1 DEF FirstOf
  <2>9. ASSUME NEW r \in Requests
         PROVE  /\ \A i \in DOMAIN work'[r].listed : work'[r].listed[i] \in stored
                /\ pc'[r] \in Unadmitted \cup {"queued", "starting"} =>
                     work'[r].listed = <<>> /\ work'[r].page = 1 /\ ~work'[r].settled
                /\ work'[r].settled => unsaved = <<>>
                /\ work'[r].settled /\ pc'[r] = "listing" =>
                     FirstOf(work'[r].listed, (work'[r].page - 1) * PageSize, stored)
                /\ work'[r].settled /\ pc'[r] \in {"selecting", "saving", "ended"} =>
                     Whole(work'[r].listed, stored)
    <3>1. CASE r = q  BY <2>1, <2>5, <2>6, <2>7, <2>8, <3>1
    <3>2. CASE r # q  BY <2>5, <2>6, <3>2 DEF ListedOK
    <3> QED  BY <3>1, <3>2
  <2> QED  BY <2>3, <2>9 DEF ListedOK
<1>7. ASSUME NEW q \in Requests, ListUrls(q) PROVE ListedOK'
  <2>1. PICK items : items = PageOf(work[q].page)  OBVIOUS
  <2>2. PICK listed : listed = work[q].listed \o items  OBVIOUS
  <2>0. PICK done : done = IF items = <<>> \/ Len(listed) >= Cardinality(stored) THEN 0 ELSE 1
    OBVIOUS
  <2>3. done \in {0, 1} /\ (done = 0 <=> (items = <<>> \/ Len(listed) >= Cardinality(stored)))
    BY <2>0
  <2>4. PICK k : k = work[q].page  OBVIOUS
  <2>5. PICK before : before = work[q].listed  OBVIOUS
  <2>6. work[q] \in Works /\ k \in Nat \ {0} /\ before \in Seq(Candidates)
    BY <2>4, <2>5 DEF Typed, Works
  <2>7. /\ items \in Seq(Candidates)
        /\ \A i \in 1..Len(items) : items[i] \in stored
    BY <2>1, <2>4, <2>6, PageRead
  <2>8. listed = before \o items /\ listed \in Seq(Candidates)  BY <2>2, <2>5, <2>6, <2>7
  <2>9. work' = [work EXCEPT ![q].listed = listed, ![q].page = k + done]
    BY <1>7, <2>1, <2>2, <2>3, <2>4 DEF ListUrls, Typed
  <2>10. /\ work'[q].listed = listed /\ work'[q].page = k + done /\ work'[q].settled = work[q].settled
         /\ \A r \in Requests : r # q => work'[r] = work[r]
    BY <2>6, <2>9 DEF Typed, Works
  <2>11. pc' = [pc EXCEPT ![q] = IF done = 0 THEN "selecting" ELSE "listing"]
    BY <1>7, <2>1, <2>2, <2>3 DEF ListUrls
  <2>12. /\ pc'[q] = (IF done = 0 THEN "selecting" ELSE "listing") /\ pc[q] = "listing"
         /\ \A r \in Requests : r # q => pc'[r] = pc[r]
    BY <1>7, <2>11 DEF Typed, ListUrls
  <2>13. unsaved' = unsaved /\ stored' = stored  BY <1>7 DEF ListUrls
  <2>14. \A i \in DOMAIN listed : listed[i] \in stored
    <3>1. \A i \in DOMAIN before : before[i] \in stored  BY <2>5 DEF ListedOK
    <3>2. ASSUME NEW i \in DOMAIN listed PROVE listed[i] \in stored
      <4>1. CASE i <= Len(before)
        <5>1. i \in DOMAIN before /\ listed[i] = before[i]  BY <2>6, <2>7, <2>8, <4>1
        <5> QED  BY <3>1, <5>1
      <4>2. CASE i > Len(before)
        <5>1. i - Len(before) \in 1..Len(items) /\ listed[i] = items[i - Len(before)]
          BY <2>6, <2>7, <2>8, <4>2
        <5> QED  BY <2>7, <5>1
      <4> QED  BY <2>6, <2>8, <4>1, <4>2
    <3> QED  BY <3>2
  <2>15. ASSUME work[q].settled
         PROVE  /\ done = 1 => FirstOf(listed, ((k + done) - 1) * PageSize, stored)
                /\ done = 0 => Whole(listed, stored)
    <3>1. FirstOf(before, (k - 1) * PageSize, stored)
      BY <2>4, <2>5, <2>12, <2>15 DEF ListedOK
    <3>2. /\ FirstOf(listed, k * PageSize, stored)
          /\ items = <<>> => Len(listed) = Cardinality(stored)
      BY <2>1, <2>4, <2>6, <2>8, <3>1, ReadOn
    <3>3. done = 1 => (k + done) - 1 = k  BY <2>6
    <3>4. PICK m : m = k * PageSize  OBVIOUS
    <3>5. m \in Nat  BY <2>6, <3>4, CrawlPlanAssumption
    <3>6. Cardinality(stored) \in Nat  BY StoredOrder
    <3>7. done = 0 => Len(listed) >= Cardinality(stored)  BY <2>3, <3>2, <3>6
    <3>8. done = 0 => Whole(listed, stored)  BY <2>8, <3>2, <3>4, <3>5, <3>7, ReadAll
    <3> QED  BY <3>2, <3>3, <3>8
  <2>16. work'[q].settled => unsaved = <<>>  BY <2>10 DEF ListedOK
  <2>17. ASSUME NEW r \in Requests
         PROVE  /\ \A i \in DOMAIN work'[r].listed : work'[r].listed[i] \in stored
                /\ pc'[r] \in Unadmitted \cup {"queued", "starting"} =>
                     work'[r].listed = <<>> /\ work'[r].page = 1 /\ ~work'[r].settled
                /\ work'[r].settled => unsaved = <<>>
                /\ work'[r].settled /\ pc'[r] = "listing" =>
                     FirstOf(work'[r].listed, (work'[r].page - 1) * PageSize, stored)
                /\ work'[r].settled /\ pc'[r] \in {"selecting", "saving", "ended"} =>
                     Whole(work'[r].listed, stored)
    <3>1. CASE r = q
      <4>1. done = 0 \/ done = 1  BY <2>3
      <4> QED  BY <2>10, <2>12, <2>14, <2>15, <2>16, <3>1, <4>1
    <3>2. CASE r # q  BY <2>10, <2>12, <3>2 DEF ListedOK
    <3> QED  BY <3>1, <3>2
  <2> QED  BY <2>13, <2>17 DEF ListedOK
<1>8. ASSUME NEW q \in Requests, SelectTargets(q) PROVE ListedOK'
  BY <1>8 DEF SelectTargets, ListedOK, Typed, Works
<1>9. ASSUME NEW q \in Requests, SaveTarget(q) PROVE ListedOK'
  BY <1>9 DEF SaveTarget, ListedOK, Typed, Works
<1>10. ASSUME NEW q \in Requests, FinishRun(q) PROVE ListedOK'
  BY <1>10 DEF FinishRun, ListedOK, Typed, Works
<1>11. ASSUME NEW q \in Requests, Die(q) PROVE ListedOK'
  BY <1>11 DEF Die, ListedOK, Typed, Works, Working
<1>12. ASSUME NEW q \in Requests, CancelRun(q) PROVE ListedOK'
  BY <1>12 DEF CancelRun, ListedOK, Typed, Works
<1>13. ASSUME NEW q \in Requests, CancelJobs(q) PROVE ListedOK'
  BY <1>13 DEF CancelJobs, ListedOK, Typed, Works
<1>14. ASSUME NEW y \in Retries, RetryStep(y) PROVE ListedOK'
  <2>1. UNCHANGED <<unsaved, stored, asked, pc, work, targets>>  BY <1>14, RetryLeaves
  <2> QED  BY <2>1 DEF ListedOK
<1>15. CASE UNCHANGED vars
  BY <1>15 DEF vars, ListedOK, Typed, Works
<1> QED
  BY <1>1, <1>2, <1>3, <1>4, <1>5, <1>6, <1>7,
     <1>8, <1>9, <1>10, <1>11, <1>12, <1>13, <1>14, <1>15 DEF Next, Handle, JobStep

\* What is saved is what was selected of what was listed.
LEMMA StepSelected == PlanInv /\ [Next]_vars => SelectedOK'
<1> SUFFICES ASSUME PlanInv, [Next]_vars PROVE SelectedOK'  OBVIOUS
<1> USE DEF PlanInv, Goto, Unadmitted, Steps
<1>1. CASE SaveUrl  BY <1>1 DEF SaveUrl, SelectedOK
<1>2. ASSUME NEW q \in Requests, CheckActive(q) PROVE SelectedOK'
  BY <1>2 DEF CheckActive, SelectedOK, Typed, Works
<1>3. ASSUME NEW q \in Requests, CheckDiscoveryRun(q) PROVE SelectedOK'
  BY <1>3 DEF CheckDiscoveryRun, SelectedOK, Typed, Works
<1>4. ASSUME NEW q \in Requests, CreateRun(q) PROVE SelectedOK'
  BY <1>4 DEF CreateRun, SelectedOK, Typed, Works
<1>5. ASSUME NEW q \in Requests, LoadRun(q) PROVE SelectedOK'
  BY <1>5 DEF LoadRun, SelectedOK, Typed, Works
<1>6. ASSUME NEW q \in Requests, StartRun(q) PROVE SelectedOK'
  BY <1>6 DEF StartRun, SelectedOK, Typed, Works
<1>7. ASSUME NEW q \in Requests, ListUrls(q) PROVE SelectedOK'
  BY <1>7 DEF ListUrls, SelectedOK, Typed, Works
<1>8. ASSUME NEW q \in Requests, SelectTargets(q) PROVE SelectedOK'
  BY <1>8 DEF SelectTargets, SelectedOK, Typed, Works
<1>9. ASSUME NEW q \in Requests, SaveTarget(q) PROVE SelectedOK'
  BY <1>9 DEF SaveTarget, SelectedOK, Typed, Works
<1>10. ASSUME NEW q \in Requests, FinishRun(q) PROVE SelectedOK'
  BY <1>10 DEF FinishRun, SelectedOK, Typed, Works
<1>11. ASSUME NEW q \in Requests, Die(q) PROVE SelectedOK'
  BY <1>11 DEF Die, SelectedOK, Typed, Works
<1>12. ASSUME NEW q \in Requests, CancelRun(q) PROVE SelectedOK'
  BY <1>12 DEF CancelRun, SelectedOK, Typed, Works
<1>13. ASSUME NEW q \in Requests, CancelJobs(q) PROVE SelectedOK'
  BY <1>13 DEF CancelJobs, SelectedOK, Typed, Works
<1>14. ASSUME NEW y \in Retries, RetryStep(y) PROVE SelectedOK'
  <2>1. UNCHANGED <<unsaved, stored, asked, pc, work, targets>>  BY <1>14, RetryLeaves
  <2> QED  BY <2>1 DEF SelectedOK
<1>15. CASE UNCHANGED vars
  BY <1>15 DEF vars, SelectedOK, Typed, Works
<1> QED
  BY <1>1, <1>2, <1>3, <1>4, <1>5, <1>6, <1>7,
     <1>8, <1>9, <1>10, <1>11, <1>12, <1>13, <1>14, <1>15 DEF Next, Handle, JobStep

LEMMA PlanInit == Init => PlanInv
<1> SUFFICES ASSUME Init PROVE PlanInv  OBVIOUS
<1> USE DEF Init, NoWork
<1>1. unsaved \in Seq(Candidates) /\ \A i, j \in DOMAIN unsaved : i # j => unsaved[i].url # unsaved[j].url
  BY CrawlPlanAssumption
<1>2. Typed
  <2>1. NoWork \in Works  BY DEF Works
  <2>2. [status |-> "none", key |-> <<>>]
          \in [status : Statuses, key : RunKeys]
    BY DEF RunKeys, Statuses
  <2>3. IsFiniteSet({})  BY FS_EmptySet
  <2> QED  BY <1>1, <2>1, <2>2, <2>3 DEF Typed, Steps, Unadmitted, RetrySteps
<1>3. UrlsOK  BY <1>1 DEF UrlsOK
<1>4. StatusOK  BY DEF StatusOK, Unadmitted
<1>5. SeenOK  BY DEF SeenOK
<1>6. ListedOK  BY DEF ListedOK
<1>7. SelectedOK  BY DEF SelectedOK
<1>8. RetryOK  BY DEF RetryOK
<1> QED  BY <1>2, <1>3, <1>4, <1>5, <1>6, <1>7, <1>8 DEF PlanInv

-----------------------------------------------------------------------------
(* The theorems.                                                           *)

\* What admission, listing, selection and saving rely on holds throughout.
THEOREM PlanInvariance == Spec => []PlanInv
<1>1. PlanInv /\ [Next]_vars => PlanInv'
  BY StepTyped, StepUrls, StepStatus, StepRetry, StepSeen, StepListed, StepSelected DEF PlanInv
<1> QED  BY <1>1, PlanInit, PTL DEF Spec

\* The documents have their types, and only admitted requests have a run.
THEOREM TypeCorrect == Spec => []TypeOK
<1>1. PlanInv => TypeOK
  <2> SUFFICES ASSUME PlanInv PROVE TypeOK  OBVIOUS
  <2> USE DEF PlanInv
  <2>1. ToSet(unsaved) \cap stored = {}  BY DEF UrlsOK, ToSet
  <2>2. pc \in [Requests -> {"new", "checked", "admitted", "queued", "starting", "listing", "selecting",
                             "saving", "ended", "dead", "conflict", "not_found"}]
    <3>1. Steps = {"new", "checked", "admitted", "queued", "starting", "listing", "selecting",
                   "saving", "ended", "dead", "conflict", "not_found"}
      BY DEF Steps, Unadmitted
    <3> QED  BY <3>1 DEF Typed
  <2>3. ASSUME NEW q \in Requests
        PROVE  /\ runs[q].status \in Active \cup {"none", "cancelled", "finished"}
               /\ runs[q].status \in {"none"} <=> pc[q] \in {"new", "checked", "admitted", "conflict", "not_found"}
               /\ work[q].conflict \cup work[q].seen \subseteq Requests
               /\ Len(targets[q]) <= Len(work[q].selected)
               /\ reopened[q] \subseteq work[q].seen
    <3>1. runs[q].status \in Active \cup {"none", "cancelled", "finished"}  BY DEF Typed, Statuses
    <3>2. runs[q].status \in {"none"} <=> pc[q] \in {"new", "checked", "admitted", "conflict", "not_found"}
      BY DEF StatusOK, Unadmitted
    <3>3. work[q].conflict \cup work[q].seen \subseteq Requests  BY DEF Typed, Works
    <3>4. Len(targets[q]) <= Len(work[q].selected)  BY DEF SelectedOK
    <3>5. reopened[q] \subseteq work[q].seen  BY DEF SeenOK
    <3> QED  BY <3>1, <3>2, <3>3, <3>4, <3>5
  <2>4. retryPc \in [Retries -> {"new", "loaded", "marked", "queued", "retrying", "ended", "dead"}]
        /\ current \subseteq Requests \cup Retries
    BY DEF Typed, RetrySteps
  <2>5. \A y \in Retries : y \in current => runs[retried[y]].status # "none"  BY DEF RetryOK
  <2> QED  BY <2>1, <2>2, <2>3, <2>4, <2>5 DEF TypeOK
<1> QED  BY <1>1, PlanInvariance, PTL

\* A job that begins when the discovery run has saved everything lists every
\* URL once, however many pages that takes (list_discovered_urls).
THEOREM SettledListings == Spec => []SettledListingsAreWhole
<1>1. PlanInv => SettledListingsAreWhole
  BY DEF PlanInv, ListedOK, Whole, SettledListingsAreWhole
<1> QED  BY <1>1, PlanInvariance, PTL

\* The greedy walk over the sorted pool selects the best targets the limits
\* allow (select_crawl_targets).
THEOREM BestTargets == Spec => []BestTargetsSelected
<1>1. PlanInv => BestTargetsSelected
  <2> SUFFICES ASSUME PlanInv
               PROVE  \A q \in Requests : pc[q] = "saving" =>
                        Best(work[q].listed, EffectiveConfig(asked[q].options), asked[q].options,
                             work[q].selected)
    BY DEF BestTargetsSelected, Best
  <2> TAKE q \in Requests
  <2> HAVE pc[q] = "saving"
  <2>1. PICK options : options = asked[q].options  OBVIOUS
  <2>2. PICK config : config = EffectiveConfig(options)  OBVIOUS
  <2>3. PICK cands : cands = work[q].listed  OBVIOUS
  <2>4. PICK chosen : chosen = work[q].selected  OBVIOUS
  <2>5. config \in Configs
    <3>1. options \in Options  BY <2>1, CrawlPlanAssumption DEF PlanInv, Typed
    <3> QED  BY <2>2, <3>1, ConfigTyped
  <2>6. cands \in Seq(Candidates) /\ \A i, j \in DOMAIN cands : cands[i].url = cands[j].url => cands[i] = cands[j]
    BY <2>3, ListedOnce
  <2>7. chosen = SelectCrawlTargets(cands, config, options)
    BY <2>1, <2>2, <2>3, <2>4 DEF PlanInv, SelectedOK
  <2>8. Best(cands, config, options, chosen)
    BY <2>5, <2>6, <2>7, SelectionIsBest
  <2> QED  BY <2>1, <2>2, <2>3, <2>4, <2>8
<1> QED  BY <1>1, PlanInvariance, PTL

\* Lists of the same elements have the same permutations.
LEMMA OnePermutation ==
  ASSUME NEW s \in Seq(Nat), NEW t \in Seq(Nat), Permuted(s, t)
  PROVE  Permutated(s) = Permutated(t)
<1>1. DOMAIN s = DOMAIN t  BY DEF Permuted
<1>2. ASSUME NEW x \in ToSet(s) \cup ToSet(t) PROVE x \in ToSet(s) /\ x \in ToSet(t)
  <2> DEFINE At(u) == {i \in DOMAIN u : u[i] = x}
  <2>1. Cardinality(At(s)) = Cardinality(At(t))  BY DEF Permuted
  <2>2. IsFiniteSet(At(s)) /\ IsFiniteSet(At(t))
    <3>1. IsFiniteSet(1..Len(s)) /\ IsFiniteSet(1..Len(t))  BY FS_Interval
    <3> QED  BY <3>1, FS_Subset
  <2>3. At(s) # {} \/ At(t) # {}  BY DEF ToSet
  <2>4. At(s) # {} /\ At(t) # {}
    <3> HIDE DEF At
    <3> QED  BY <2>1, <2>2, <2>3, FS_EmptySet
  <2> QED  BY <2>4 DEF ToSet
<1>3. ToSet(s) = ToSet(t)  BY <1>2
<1>4. ASSUME NEW u \in [DOMAIN s -> ToSet(s)] PROVE Permuted(s, u) <=> Permuted(t, u)
  <2> DEFINE Times(v, x) == Cardinality({i \in DOMAIN v : v[i] = x})
  <2>1. \A x \in ToSet(s) : Times(s, x) = Times(t, x)  BY DEF Permuted
  <2>2. ToSet(u) \subseteq ToSet(s)  BY DEF ToSet
  <2>3. Permuted(s, u) <=> (DOMAIN s = DOMAIN u /\ \A x \in ToSet(s) \cup ToSet(u) : Times(s, x) = Times(u, x))
    BY DEF Permuted
  <2>4. Permuted(t, u) <=> (DOMAIN t = DOMAIN u /\ \A x \in ToSet(t) \cup ToSet(u) : Times(t, x) = Times(u, x))
    BY DEF Permuted
  <2> HIDE DEF Times
  <2> QED  BY <1>1, <1>3, <2>1, <2>2, <2>3, <2>4
<1> QED  BY <1>1, <1>3, <1>4 DEF Permutated

\* Equal requests have equal keys, in whatever order they list their URLs.
LEMMA EqualKeys ==
  ASSUME NEW a \in Asked, NEW b \in Asked, SameRequest(a, b)
  PROVE  IdempotencyKey(a) = IdempotencyKey(b)
<1>1. a \in [discoveryRun : STRING, options : Options] /\ b \in [discoveryRun : STRING, options : Options]
  BY CrawlPlanAssumption
<1>2. PICK o, p : o = a.options /\ p = b.options  OBVIOUS
<1>3. o \in Options /\ p \in Options /\ Permuted(o.manual, p.manual)
  BY <1>1, <1>2 DEF SameRequest
<1>4. a.discoveryRun = b.discoveryRun /\ [o EXCEPT !.manual = <<>>] = [p EXCEPT !.manual = <<>>]
  <2>1. [a EXCEPT !.options.manual = <<>>] = [b EXCEPT !.options.manual = <<>>]  BY DEF SameRequest
  <2>2. [a EXCEPT !.options.manual = <<>>].discoveryRun = a.discoveryRun
        /\ [b EXCEPT !.options.manual = <<>>].discoveryRun = b.discoveryRun
    BY <1>1
  <2>3. [a EXCEPT !.options.manual = <<>>].options = [o EXCEPT !.manual = <<>>]
        /\ [b EXCEPT !.options.manual = <<>>].options = [p EXCEPT !.manual = <<>>]
    BY <1>1, <1>2
  <2> QED  BY <2>1, <2>2, <2>3
<1>5. o.maxPages = p.maxPages /\ o.includeTypes = p.includeTypes /\ o.excludeTypes = p.excludeTypes
      /\ o.forceRefresh = p.forceRefresh
  <2>1. PICK x, y : x = [o EXCEPT !.manual = <<>>] /\ y = [p EXCEPT !.manual = <<>>]  OBVIOUS
  <2>2. /\ x.maxPages = o.maxPages /\ x.includeTypes = o.includeTypes
        /\ x.excludeTypes = o.excludeTypes /\ x.forceRefresh = o.forceRefresh
    BY <1>3, <2>1 DEF Options
  <2>3. /\ y.maxPages = p.maxPages /\ y.includeTypes = p.includeTypes
        /\ y.excludeTypes = p.excludeTypes /\ y.forceRefresh = p.forceRefresh
    BY <1>3, <2>1 DEF Options
  <2> QED  BY <1>4, <2>1, <2>2, <2>3
<1>6. PICK m : m = Ascending(Permutated(o.manual))  OBVIOUS
<1>7. m = Ascending(Permutated(p.manual))
  <2>1. o.manual \in Seq(Nat) /\ p.manual \in Seq(Nat)  BY <1>3 DEF Options
  <2>2. Permutated(o.manual) = Permutated(p.manual)  BY <1>3, <2>1, OnePermutation
  <2> QED  BY <1>6, <2>2
<1>8. [o EXCEPT !.manual = m] = [p EXCEPT !.manual = m]  BY <1>3, <1>5 DEF Options
<1>9. EffectiveConfig(o) = EffectiveConfig(p)  BY <1>5 DEF EffectiveConfig
<1>10. IdempotencyKey(a) = <<a.discoveryRun, EffectiveConfig(o), [o EXCEPT !.manual = m]>>
  BY <1>2, <1>6 DEF IdempotencyKey
<1>11. IdempotencyKey(b) = <<b.discoveryRun, EffectiveConfig(p), [p EXCEPT !.manual = m]>>
  BY <1>2, <1>7 DEF IdempotencyKey
<1> QED  BY <1>4, <1>8, <1>9, <1>10, <1>11

\* A request that repeats an active run is refused: of equal runs that are
\* both active neither existed when the other was asked for, or a retry has
\* reopened the one that did (find_active_run, enqueue_retry).
THEOREM Twins == Spec => []TwinsOverlap
<1>1. PlanInv => TwinsOverlap
  <2> SUFFICES ASSUME PlanInv, NEW q \in Requests, NEW r \in Requests,
                      {runs[q].status, runs[r].status} \subseteq Active, SameRequest(asked[q], asked[r]),
                      q \in work[r].seen
               PROVE  q \in reopened[r]
    BY DEF TwinsOverlap
  <2> USE DEF PlanInv
  <2>1. asked[q] \in Asked /\ asked[r] \in Asked  BY DEF Typed
  <2>2. IdempotencyKey(asked[q]) = IdempotencyKey(asked[r])  BY <2>1, EqualKeys
  <2>3. runs[q].key = IdempotencyKey(asked[q])  BY DEF StatusOK, Active
  <2>4. pc[r] # "conflict"  BY DEF StatusOK, Active, Unadmitted
  <2>5. runs[q].key # IdempotencyKey(asked[r]) \/ q \in reopened[r]  BY <2>4 DEF SeenOK
  <2> QED  BY <2>2, <2>3, <2>5
<1> QED  BY <1>1, PlanInvariance, PTL

=============================================================================
