----------------------- MODULE DecisionAnalysisProofs ----------------------
(***************************************************************************)
(* Theorems about DecisionAnalysis, for any number of alternatives and    *)
(* criteria, any integers as weights and any judgments: what the arithmetic*)
(* never recommends, and what two swings of a weight say of those between.*)
(* They rest on sums over the criteria, which are recursive: the first section*)
(* proves induction and recursion over an interval, with sets in the place of*)
(* predicates.                                                            *)
(***************************************************************************)
EXTENDS DecisionAnalysis, FiniteSetTheorems, TLAPS

----------------------------------------------------------------------------
(* Induction over an interval, with sets in place of predicates. *)

\* A set of naturals has a least element.
LEMMA LeastNumber ==
  ASSUME NEW T \in SUBSET Nat, T # {}
  PROVE  \E x \in T : \A y \in T : x <= y
<1> DEFINE R == OpToRel(<, Nat)
<1>1. IsWellFoundedOn(R, Nat)
  BY NatLessThanWellFounded, Zenon
<1>2. \A y, z \in Nat : y < z => <<y, z>> \in R
  BY DEF OpToRel
<1> HIDE DEF R
<1>3. PICK x \in T : \A y \in T : ~ (<<y, x>> \in R)
  BY <1>1, WFMin, Zenon
<1>4. ASSUME NEW y \in T PROVE x <= y
  <2>1. x \in Nat /\ y \in Nat /\ ~ (y < x)
    BY <1>2, <1>3, Zenon
  <2> QED
    BY <2>1
<1> QED
  BY <1>4

\* What holds at 0, and goes from one number to the next, holds up to n.
LEMMA IntervalInduction ==
  ASSUME NEW n \in Nat, NEW P \in SUBSET (0 .. n), 0 \in P,
         \A k \in 1 .. n : k - 1 \in P => k \in P
  PROVE  P = 0 .. n
<1> SUFFICES ASSUME (0 .. n) \ P # {} PROVE FALSE
  OBVIOUS
<1> DEFINE T == (0 .. n) \ P
<1>0. T \in SUBSET Nat /\ T # {}
  OBVIOUS
<1>1. PICK x \in T : \A y \in T : x <= y
  <2> HIDE DEF T
  <2> QED
    BY <1>0, LeastNumber
<1>2. x \in 1 .. n /\ x - 1 \in 0 .. n /\ ~ (x <= x - 1)
  OBVIOUS
<1>3. x - 1 \in P
  BY <1>1, <1>2
<1> QED
  BY <1>2, <1>3

\* A function on 0 .. n that is a at 0 and that F takes from one value to the next.
IsIteration(g, n, S, a, F) ==
  g \in [0 .. n -> S] /\ g[0] = a /\ \A k \in 1 .. n : g[k] = F[<<k, g[k - 1]>>]

\* There is one.
LEMMA IntervalRecursion ==
  ASSUME NEW n \in Nat, NEW S, NEW a, a \in S, NEW F, F \in [(1 .. n) \X S -> S]
  PROVE  \E g : IsIteration(g, n, S, a, F)
<1> DEFINE Good(m, g) == g[0] = a /\ \A k \in 1 .. m : g[k] = F[<<k, g[k - 1]>>]
           P == {m \in 0 .. n : \E g \in [0 .. m -> S] : Good(m, g)}
<1>1. 0 \in P
  <2>1. [k \in 0 .. 0 |-> a] \in [0 .. 0 -> S] /\ Good(0, [k \in 0 .. 0 |-> a])
    OBVIOUS
  <2> HIDE DEF Good
  <2> QED
    BY <2>1
<1>2. ASSUME NEW m \in 1 .. n, m - 1 \in P PROVE m \in P
  <2>1. PICK g \in [0 .. m - 1 -> S] : Good(m - 1, g)
    BY <1>2
  <2> DEFINE h == [k \in 0 .. m |-> IF k = m THEN F[<<m, g[m - 1]>>] ELSE g[k]]
  <2>2. g[m - 1] \in S /\ F[<<m, g[m - 1]>>] \in S
    OBVIOUS
  <2>3. h \in [0 .. m -> S]
    BY <2>2
  <2>4. h[0] = a
    BY <2>1
  <2>5. ASSUME NEW k \in 1 .. m PROVE h[k] = F[<<k, h[k - 1]>>]
    <3>1. h[k - 1] = g[k - 1]
      OBVIOUS
    <3>2. CASE k = m
      <4>1. h[m] = F[<<m, g[m - 1]>>]
        OBVIOUS
      <4> QED
        BY <3>1, <3>2, <4>1
    <3>3. CASE k # m
      <4>1. k \in 1 .. m - 1 /\ h[k] = g[k]
        BY <3>3
      <4> QED
        BY <3>1, <4>1, <2>1
    <3> QED
      BY <3>2, <3>3
  <2> HIDE DEF h
  <2> QED
    BY <2>3, <2>4, <2>5
<1> HIDE DEF P
<1>3. P = 0 .. n
  BY <1>1, <1>2, IntervalInduction DEF P
<1>4. n \in P
  BY <1>3
<1>5. PICK g \in [0 .. n -> S] : Good(n, g)
  BY <1>4 DEF P
<1> QED
  BY <1>5 DEF IsIteration

----------------------------------------------------------------------------
(* Sums over the criteria. *)

LastCriterion == Cardinality(Criteria)

\* The criteria are numbered from 1.
LEMMA CriteriaFacts == LastCriterion \in Nat /\ Criteria = 1 .. LastCriterion /\ {0} \cup Criteria = 0 .. LastCriterion
<1>1. LastCriterion \in Nat /\ Criteria = 1 .. LastCriterion
  BY DecisionAssumption, FS_CardinalityType DEF LastCriterion
<1> QED
  BY <1>1

Weighings == [Criteria -> Int]

\* The partial sums of SumOf.
IsSumUpTo(g, f) ==
  g \in [0 .. LastCriterion -> Int] /\ g[0] = 0 /\ \A c \in Criteria : g[c] = g[c - 1] + f[c]

\* They exist, and the last one is the sum.
LEMMA SumUpTo ==
  ASSUME NEW f \in Weighings
  PROVE  \E g : IsSumUpTo(g, f) /\ SumOf(f) = g[LastCriterion]
<1> DEFINE upTo == CHOOSE g : g = [c \in {0} \cup Criteria |-> IF c = 0 THEN 0 ELSE g[c - 1] + f[c]]
           F == [x \in (1 .. LastCriterion) \X Int |-> x[2] + f[x[1]]]
<1>1. SumOf(f) = upTo[LastCriterion]
  BY DEF SumOf, LastCriterion
<1>2. F \in [(1 .. LastCriterion) \X Int -> Int]
  BY CriteriaFacts DEF Weighings
<1>3. PICK g : IsIteration(g, LastCriterion, Int, 0, F)
  <2>1. LastCriterion \in Nat /\ 0 \in Int
    BY CriteriaFacts
  <2> HIDE DEF F
  <2> QED
    BY <1>2, <2>1, IntervalRecursion, Zenon
<1>4. ASSUME NEW k \in 1 .. LastCriterion PROVE F[<<k, g[k - 1]>>] = g[k - 1] + f[k]
  <2>1. g[k - 1] \in Int
    BY <1>3, CriteriaFacts DEF IsIteration
  <2> QED
    BY <2>1
<1> HIDE DEF F
<1>5. g = [c \in {0} \cup Criteria |-> IF c = 0 THEN 0 ELSE g[c - 1] + f[c]]
  BY <1>3, <1>4, CriteriaFacts DEF IsIteration
<1>6. upTo = [c \in {0} \cup Criteria |-> IF c = 0 THEN 0 ELSE upTo[c - 1] + f[c]]
  BY <1>5
<1> HIDE DEF upTo
<1>7. ASSUME NEW h, h = [c \in {0} \cup Criteria |-> IF c = 0 THEN 0 ELSE h[c - 1] + f[c]]
      PROVE  h[0] = 0 /\ \A c \in Criteria : h[c] = h[c - 1] + f[c]
  BY <1>7, CriteriaFacts
<1>8. upTo[0] = 0 /\ \A c \in Criteria : upTo[c] = upTo[c - 1] + f[c]
  BY <1>6, <1>7
<1>9. DOMAIN upTo = 0 .. LastCriterion
  BY <1>6, CriteriaFacts
<1>10. upTo \in [0 .. LastCriterion -> Int]
  <2> DEFINE P == {k \in 0 .. LastCriterion : upTo[k] \in Int}
  <2>1. 0 \in P
    BY <1>8, CriteriaFacts
  <2>2. ASSUME NEW k \in 1 .. LastCriterion, k - 1 \in P PROVE k \in P
    BY <2>2, <1>8, CriteriaFacts DEF Weighings
  <2> HIDE DEF P
  <2>3. P = 0 .. LastCriterion
    BY <2>1, <2>2, CriteriaFacts, IntervalInduction DEF P
  <2>4. \A k \in 0 .. LastCriterion : upTo[k] \in Int
    BY <2>3 DEF P
  <2>5. upTo = [k \in 0 .. LastCriterion |-> upTo[k]]
    BY <1>6, <1>9
  <2> QED
    BY <2>4, <2>5
<1> QED
  BY <1>1, <1>8, <1>10 DEF IsSumUpTo

\* A sum grows with its terms, and strictly if one of them does.
LEMMA SumMonotone ==
  ASSUME NEW f \in Weighings, NEW h \in Weighings, \A c \in Criteria : f[c] <= h[c]
  PROVE  /\ SumOf(f) \in Int /\ SumOf(h) \in Int
         /\ SumOf(f) <= SumOf(h)
         /\ (\E c \in Criteria : f[c] < h[c]) => SumOf(f) < SumOf(h)
<1>1. PICK u : IsSumUpTo(u, f) /\ SumOf(f) = u[LastCriterion]
  BY SumUpTo
<1>2. PICK v : IsSumUpTo(v, h) /\ SumOf(h) = v[LastCriterion]
  BY SumUpTo
<1> DEFINE Grown(k) == u[k] <= v[k] /\ ((\E c \in 1 .. k : f[c] < h[c]) => u[k] < v[k])
           P == {k \in 0 .. LastCriterion : Grown(k)}
<1>3. 0 \in P
  <2>1. u[0] = 0 /\ v[0] = 0 /\ 0 \in 0 .. LastCriterion
    BY <1>1, <1>2, CriteriaFacts DEF IsSumUpTo
  <2> QED
    BY <2>1
<1>4. ASSUME NEW k \in 1 .. LastCriterion, k - 1 \in P PROVE k \in P
  <2>1. k \in Criteria /\ k \in Nat /\ k \in 0 .. LastCriterion /\ k - 1 \in 0 .. LastCriterion
    BY CriteriaFacts
  <2>2. /\ u[k] = u[k - 1] + f[k] /\ v[k] = v[k - 1] + h[k]
        /\ u[k - 1] \in Int /\ v[k - 1] \in Int
    BY <1>1, <1>2, <2>1 DEF IsSumUpTo
  <2>3. f[k] \in Int /\ h[k] \in Int /\ f[k] <= h[k]
    BY <2>1 DEF Weighings
  <2>4. Grown(k - 1)
    BY <1>4
  <2>5. u[k] <= v[k]
    BY <2>2, <2>3, <2>4
  <2>6. ASSUME NEW c \in 1 .. k, f[c] < h[c] PROVE u[k] < v[k]
    <3>1. CASE c = k
      BY <3>1, <2>2, <2>3, <2>4, <2>6
    <3>2. CASE c # k
      <4>1. c \in 1 .. k - 1
        BY <2>1, <3>2
      <4>2. u[k - 1] < v[k - 1]
        BY <2>4, <2>6, <4>1
      <4> QED
        BY <4>2, <2>2, <2>3
    <3> QED
      BY <3>1, <3>2
  <2> QED
    BY <2>1, <2>5, <2>6
<1> HIDE DEF P
<1>5. P = 0 .. LastCriterion
  BY <1>3, <1>4, CriteriaFacts, IntervalInduction DEF P
<1>6. Grown(LastCriterion)
  <2>1. LastCriterion \in P
    BY <1>5, CriteriaFacts
  <2> QED
    BY <2>1 DEF P
<1>7. u[LastCriterion] \in Int /\ v[LastCriterion] \in Int
  BY <1>1, <1>2, CriteriaFacts DEF IsSumUpTo
<1> QED
  BY <1>1, <1>2, <1>6, <1>7, CriteriaFacts

\* x times f and y times h, term by term.
Combined(x, f, y, h) == [c \in Criteria |-> x * f[c] + y * h[c]]

\* A sum of multiples is a sum of multiples of sums.
LEMMA SumLinear ==
  ASSUME NEW f \in Weighings, NEW h \in Weighings, NEW x \in Int, NEW y \in Int
  PROVE  /\ Combined(x, f, y, h) \in Weighings
         /\ SumOf(Combined(x, f, y, h)) = x * SumOf(f) + y * SumOf(h)
<1> DEFINE e == Combined(x, f, y, h)
<1>1. PICK u : IsSumUpTo(u, f) /\ SumOf(f) = u[LastCriterion]
  BY SumUpTo
<1>2. PICK v : IsSumUpTo(v, h) /\ SumOf(h) = v[LastCriterion]
  BY SumUpTo
<1>3. e \in Weighings
  BY DEF Weighings, Combined
<1>4. PICK w : IsSumUpTo(w, e) /\ SumOf(e) = w[LastCriterion]
  <2> HIDE DEF e
  <2> QED
    BY <1>3, SumUpTo
<1> DEFINE P == {k \in 0 .. LastCriterion : w[k] = x * u[k] + y * v[k]}
<1>5. 0 \in P
  <2>1. u[0] = 0 /\ v[0] = 0 /\ w[0] = 0 /\ 0 \in 0 .. LastCriterion
    BY <1>1, <1>2, <1>4, CriteriaFacts DEF IsSumUpTo
  <2> QED
    BY <2>1
<1>6. ASSUME NEW k \in 1 .. LastCriterion, k - 1 \in P PROVE k \in P
  <2>1. k \in Criteria /\ k \in 0 .. LastCriterion /\ k - 1 \in 0 .. LastCriterion
    BY CriteriaFacts
  <2>2. /\ u[k] = u[k - 1] + f[k] /\ v[k] = v[k - 1] + h[k]
        /\ w[k] = w[k - 1] + (x * f[k] + y * h[k])
        /\ u[k - 1] \in Int /\ v[k - 1] \in Int
    BY <1>1, <1>2, <1>4, <2>1 DEF IsSumUpTo, Combined
  <2>3. f[k] \in Int /\ h[k] \in Int
    BY <2>1 DEF Weighings
  <2>4. w[k - 1] = x * u[k - 1] + y * v[k - 1]
    BY <1>6
  <2>5. \A a, b, c, d \in Int :
          (x * a + y * b) + (x * c + y * d) = x * (a + c) + y * (b + d)
    OBVIOUS
  <2>6. w[k] = x * u[k] + y * v[k]
    BY <2>2, <2>3, <2>4, <2>5
  <2> QED
    BY <2>1, <2>6
<1> HIDE DEF P
<1>7. P = 0 .. LastCriterion
  BY <1>5, <1>6, CriteriaFacts, IntervalInduction DEF P
<1>8. w[LastCriterion] = x * u[LastCriterion] + y * v[LastCriterion]
  <2>1. LastCriterion \in P
    BY <1>7, CriteriaFacts
  <2> QED
    BY <2>1 DEF P
<1> QED
  BY <1>1, <1>2, <1>3, <1>4, <1>8

\* x for t and nothing for the other criteria.
Only(t, x) == [c \in Criteria |-> IF c = t THEN x ELSE 0]

\* A sum with one term.
LEMMA SumOfOne ==
  ASSUME NEW t \in Criteria, NEW x \in Int
  PROVE  Only(t, x) \in Weighings /\ SumOf(Only(t, x)) = x
<1> DEFINE f == Only(t, x)
<1>1. f \in Weighings
  BY DEF Only, Weighings
<1>2. PICK u : IsSumUpTo(u, f) /\ SumOf(f) = u[LastCriterion]
  <2> HIDE DEF f
  <2> QED
    BY <1>1, SumUpTo
<1> DEFINE P == {k \in 0 .. LastCriterion : u[k] = IF t <= k THEN x ELSE 0}
<1>3. t \in Nat /\ 1 <= t /\ t <= LastCriterion /\ LastCriterion \in Nat
  BY CriteriaFacts
<1>4. 0 \in P
  BY <1>2, <1>3 DEF IsSumUpTo
<1>5. ASSUME NEW k \in 1 .. LastCriterion, k - 1 \in P PROVE k \in P
  <2>1. k \in Criteria /\ k \in 0 .. LastCriterion /\ u[k] = u[k - 1] + f[k]
    BY <1>2, CriteriaFacts DEF IsSumUpTo
  <2>2. f[k] = IF k = t THEN x ELSE 0
    BY <2>1 DEF Only
  <2>3. u[k - 1] = IF t <= k - 1 THEN x ELSE 0
    BY <1>5
  <2> QED
    BY <1>3, <2>1, <2>2, <2>3
<1> HIDE DEF P
<1>6. P = 0 .. LastCriterion
  BY <1>3, <1>4, <1>5, IntervalInduction DEF P
<1>7. u[LastCriterion] = x
  <2>1. LastCriterion \in P
    BY <1>3, <1>6
  <2> QED
    BY <1>3, <2>1 DEF P
<1> QED
  BY <1>1, <1>2, <1>7

\* No term of a sum of shares exceeds it, and one reaches it only alone.
LEMMA SumOfShares ==
  ASSUME NEW f \in [Criteria -> Nat], NEW t \in Criteria
  PROVE  /\ f \in Weighings /\ SumOf(f) \in Nat /\ f[t] <= SumOf(f)
         /\ SumOf(f) = f[t] <=> \A c \in Criteria \ {t} : f[c] = 0
<1>1. f \in Weighings /\ f[t] \in Nat
  BY DEF Weighings
<1>2. Only(t, f[t]) \in Weighings /\ SumOf(Only(t, f[t])) = f[t]
  BY <1>1, SumOfOne
<1>3. \A c \in Criteria : Only(t, f[t])[c] <= f[c]
  BY DEF Only
<1>4. /\ f[t] <= SumOf(f) /\ SumOf(f) \in Int
      /\ (\E c \in Criteria : Only(t, f[t])[c] < f[c]) => f[t] < SumOf(f)
  BY <1>1, <1>2, <1>3, SumMonotone
<1>5. ASSUME NEW c \in Criteria \ {t}, f[c] # 0 PROVE f[t] < SumOf(f)
  <2>1. Only(t, f[t])[c] < f[c]
    BY <1>5 DEF Only
  <2> QED
    BY <1>4, <2>1
<1>6. ASSUME \A c \in Criteria \ {t} : f[c] = 0 PROVE SumOf(f) = f[t]
  <2>1. f = Only(t, f[t])
    BY <1>6 DEF Only
  <2> QED
    BY <1>2, <2>1
<1>7. SumOf(f) \in Nat
  BY <1>1, <1>4
<1>8. ASSUME SumOf(f) = f[t], NEW c \in Criteria \ {t} PROVE f[c] = 0
  <2>1. ~ (f[t] < SumOf(f))
    BY <1>1, <1>8
  <2> QED
    BY <1>5, <2>1
<1> QED
  BY <1>1, <1>4, <1>6, <1>7, <1>8

----------------------------------------------------------------------------
(* The recommendation. *)

\* a is picked rather than b.
Beats(totals, a, b) == totals[b] < totals[a] \/ (totals[b] = totals[a] /\ a <= b)

\* The first of the largest totals exists and is the recommendation.
LEMMA Picked ==
  ASSUME NEW totals \in [Alternatives -> Int], Alternatives # {}
  PROVE  /\ PickRecommended(totals) \in Alternatives
         /\ \A b \in Alternatives : Beats(totals, PickRecommended(totals), b)
         /\ \A r \in Alternatives :
              (\A b \in Alternatives : Beats(totals, r, b)) => PickRecommended(totals) = r
<1> DEFINE n == Cardinality(Alternatives)
           P == {k \in 0 .. n : k = 0 \/ \E a \in 1 .. k : \A b \in 1 .. k : Beats(totals, a, b)}
<1>1. n \in Nat /\ Alternatives = 1 .. n
  BY DecisionAssumption, FS_CardinalityType
<1> HIDE DEF n
<1>2. n \in 1 .. n
  BY <1>1
<1>3. ASSUME NEW k \in 1 .. n, k - 1 \in P PROVE k \in P
  <2>0. /\ \A b \in 1 .. k : totals[b] \in Int
        /\ \A b \in 1 .. k : b = k \/ b \in 1 .. k - 1
        /\ k \in Int /\ k \in 1 .. k
    BY <1>1
  <2>1. CASE k = 1
    BY <2>0, <2>1 DEF Beats
  <2>2. CASE k # 1
    <3>1. PICK a \in 1 .. k - 1 : \A b \in 1 .. k - 1 : Beats(totals, a, b)
      BY <1>3, <2>2
    <3>2. a \in 1 .. k /\ a <= k /\ a \in Int
      BY <2>0
    <3>3. CASE totals[k] <= totals[a]
      <4>1. Beats(totals, a, k)
        BY <2>0, <3>2, <3>3 DEF Beats
      <4>2. \A b \in 1 .. k : Beats(totals, a, b)
        BY <2>0, <3>1, <4>1
      <4> QED
        BY <3>2, <4>2, <1>1
    <3>4. CASE ~ (totals[k] <= totals[a])
      <4>1. \A b \in 1 .. k : totals[b] < totals[k] \/ b = k
        BY <2>0, <3>1, <3>2, <3>4 DEF Beats
      <4>2. \A b \in 1 .. k : Beats(totals, k, b)
        BY <2>0, <4>1 DEF Beats
      <4> QED
        BY <2>0, <4>2, <1>1
    <3> QED
      BY <3>3, <3>4
  <2> QED
    BY <2>1, <2>2
<1>4. 0 \in P
  BY <1>1
<1> HIDE DEF P
<1>5. P = 0 .. n
  BY <1>1, <1>3, <1>4, IntervalInduction DEF P
<1>6. n \in P /\ n # 0
  BY <1>1, <1>5
<1>7. \E a \in Alternatives : \A b \in Alternatives : Beats(totals, a, b)
  BY <1>1, <1>6 DEF P
<1>8. /\ PickRecommended(totals) \in Alternatives
      /\ \A b \in Alternatives : Beats(totals, PickRecommended(totals), b)
  BY <1>7 DEF PickRecommended, Beats
<1>9. ASSUME NEW r \in Alternatives, NEW p \in Alternatives,
             Beats(totals, r, p), Beats(totals, p, r)
      PROVE  p = r
  <2>1. totals[r] \in Int /\ totals[p] \in Int /\ r \in Int /\ p \in Int
    BY <1>1
  <2> QED
    BY <1>9, <2>1 DEF Beats
<1> QED
  BY <1>8, <1>9

----------------------------------------------------------------------------
(* Weights. *)

\* Weights as they are summed: not negative, and not all zero.
Shares == {f \in [Criteria -> Nat] : \E c \in Criteria : f[c] > 0}

\* Whatever the plan's weights, their shares are not negative and not all zero.
LEMMA NormalizedShares ==
  ASSUME NEW w \in Weighings, Criteria # {}
  PROVE  NormalizedWeights(w) \in Shares
<1>1. \A c \in Criteria : RawWeight(w[c]) \in Nat
  BY DEF RawWeight, Weighings
<1>2. CASE \A c \in Criteria : RawWeight(w[c]) <= 0
  <2>1. NormalizedWeights(w) = [c \in Criteria |-> 1]
    BY <1>2 DEF NormalizedWeights
  <2> QED
    BY <2>1 DEF Shares
<1>3. CASE ~ \A c \in Criteria : RawWeight(w[c]) <= 0
  <2>1. NormalizedWeights(w) = [c \in Criteria |-> RawWeight(w[c])]
    BY <1>3 DEF NormalizedWeights
  <2>2. PICK c \in Criteria : RawWeight(w[c]) > 0
    BY <1>1, <1>3
  <2>3. NormalizedWeights(w)[c] > 0
    BY <2>1, <2>2
  <2> QED
    BY <1>1, <2>1, <2>3 DEF Shares
<1> QED
  BY <1>2, <1>3

SwingRange == -2 .. 2

\* The weight of the target after a swing, over ten times the sum of the shares.
Swung(share, t, x) ==
  IF 10 * SumOf(share) < share[t] * (10 + x) THEN 10 * SumOf(share) ELSE share[t] * (10 + x)

\* The share of the other criteria.
Others(share, t) == SumOf(share) - share[t]

\* A share that is swung stays between nothing and the whole, is nothing only if it
\* was, moves with the swing, and leaves the others something if they had it.
LEMMA SwungBounds ==
  ASSUME NEW share \in Shares, NEW t \in Criteria, NEW x \in SwingRange
  PROVE  /\ SumOf(share) \in Nat /\ share[t] \in Nat /\ Others(share, t) \in Nat
         /\ SumOf(share) > 0
         /\ Swung(share, t, x) \in 0 .. 10 * SumOf(share)
         /\ share[t] > 0 => Swung(share, t, x) > 0
         /\ share[t] = 0 => Swung(share, t, x) = 0
         /\ Swung(share, t, 0) = 10 * share[t]
         /\ \A y \in SwingRange : x <= y => Swung(share, t, x) <= Swung(share, t, y)
<1>1. share \in [Criteria -> Nat] /\ share[t] \in Nat
  BY DEF Shares
<1>2. share \in Weighings /\ SumOf(share) \in Nat /\ share[t] <= SumOf(share)
  BY <1>1, SumOfShares
<1>3. SumOf(share) > 0
  <2>1. PICK c \in Criteria : share[c] > 0
    BY DEF Shares
  <2>2. share[c] <= SumOf(share) /\ share[c] \in Nat
    BY <1>1, SumOfShares
  <2> QED
    BY <1>2, <2>1, <2>2
<1>4. \A y \in SwingRange : 10 + y \in 8 .. 12
  BY DEF SwingRange
<1> DEFINE s == SumOf(share)
           k == share[t]
<1>5. \A y \in SwingRange : k * (10 + y) \in Nat /\ (k > 0 => k * (10 + y) > 0) /\ (k = 0 => k * (10 + y) = 0)
  BY <1>1, <1>4
<1>6. \A y \in SwingRange : x <= y => k * (10 + x) <= k * (10 + y)
  BY <1>1 DEF SwingRange
<1>7. k * (10 + 0) = 10 * k /\ s \in Nat /\ k \in Nat /\ k <= s /\ s > 0
  BY <1>1, <1>2, <1>3
<1> HIDE DEF s, k
<1> QED
  BY <1>5, <1>6, <1>7 DEF Swung, Others, s, k, SwingRange

\* Products of naturals.
LEMMA NatProduct ==
  \A a, b \in Nat : a * b \in Nat /\ (a > 0 /\ b > 0 => a * b > 0)
OBVIOUS

\* What PerturbedWeights multiplies the swung weight with.
Scale(share, t) == IF Others(share, t) > 0 THEN Others(share, t) ELSE 1

\* The weights after a swing.
LEMMA PerturbedForm ==
  ASSUME NEW share \in Shares, NEW t \in Criteria, NEW x \in SwingRange
  PROVE  PerturbedWeights(share, t, x) =
           [c \in Criteria |->
              IF c = t THEN Swung(share, t, x) * Scale(share, t)
              ELSE IF Others(share, t) > 0
                   THEN share[c] * (10 * SumOf(share) - Swung(share, t, x)) ELSE 0]
<1> DEFINE others == SumOf(share) - share[t]
           a == 10 * SumOf(share)
           b == share[t] * (10 + x)
           new == IF a < b THEN a ELSE b
<1>1. PerturbedWeights(share, t, x) =
        [c \in Criteria |->
           IF c = t THEN IF others > 0 THEN new * others ELSE new
           ELSE IF others > 0 THEN share[c] * (10 * SumOf(share) - new) ELSE 0]
  BY Zenon DEF PerturbedWeights
<1>2. others = Others(share, t) /\ new = Swung(share, t, x)
  BY DEF Others, Swung
<1>3. Swung(share, t, x) \in Int /\ Swung(share, t, x) * 1 = Swung(share, t, x)
  BY SwungBounds
<1>4. CASE Others(share, t) > 0
  BY <1>1, <1>2, <1>4 DEF Scale
<1>5. CASE ~ (Others(share, t) > 0)
  <2>1. Scale(share, t) = 1
    BY <1>5 DEF Scale
  <2> HIDE DEF others, new
  <2> QED
    BY <1>1, <1>2, <1>3, <1>5, <2>1
<1> QED
  BY <1>4, <1>5

\* A swing leaves shares: none negative, not all zero.
LEMMA PerturbedShares ==
  ASSUME NEW share \in Shares, NEW t \in Criteria, NEW x \in SwingRange
  PROVE  PerturbedWeights(share, t, x) \in Shares
<1> DEFINE new == Swung(share, t, x)
           left == 10 * SumOf(share) - new
           f == PerturbedWeights(share, t, x)
<1>1. /\ share \in [Criteria -> Nat] /\ share[t] \in Nat /\ SumOf(share) \in Nat
      /\ SumOf(share) > 0 /\ Others(share, t) \in Nat
      /\ new \in 0 .. 10 * SumOf(share)
      /\ share[t] > 0 => new > 0
      /\ share[t] = 0 => new = 0
  BY SwungBounds DEF Shares
<1>2. Scale(share, t) \in Nat /\ Scale(share, t) > 0
  BY <1>1 DEF Scale
<1>3. new \in Nat /\ left \in Nat
  BY <1>1
<1>4. f = [c \in Criteria |->
             IF c = t THEN new * Scale(share, t)
             ELSE IF Others(share, t) > 0 THEN share[c] * left ELSE 0]
  BY PerturbedForm
<1>5. ASSUME share[t] = 0 PROVE left > 0
  BY <1>1, <1>5
<1> HIDE DEF new, left, f
<1>6. f \in [Criteria -> Nat]
  BY <1>1, <1>2, <1>3, <1>4, NatProduct
<1>7. CASE share[t] > 0
  <2>1. f[t] > 0
    BY <1>1, <1>2, <1>3, <1>4, <1>7, NatProduct
  <2> QED
    BY <1>6, <2>1 DEF Shares, f
<1>8. CASE share[t] = 0
  <2>1. PICK c \in Criteria : share[c] > 0
    BY DEF Shares
  <2>2. Others(share, t) > 0
    BY <1>1, <1>8 DEF Others
  <2>3. c # t /\ share[c] \in Nat
    BY <1>1, <1>8, <2>1
  <2>4. f[c] > 0
    BY <1>3, <1>4, <1>5, <1>8, <2>1, <2>2, <2>3, NatProduct
  <2> QED
    BY <1>6, <2>4 DEF Shares, f
<1> QED
  BY <1>1, <1>7, <1>8

Judged == [Pairs -> 0 .. MaxScore]

\* What the criteria add to an alternative's total.
Term(share, s, a) == [c \in Criteria |-> share[c] * s[<<a, c>>]]

\* Totals are integers.
LEMMA TotalsType ==
  ASSUME NEW share \in Shares, NEW s \in Judged
  PROVE  /\ WeightedTotals(share, s) \in [Alternatives -> Int]
         /\ \A a \in Alternatives : /\ Term(share, s, a) \in Weighings
                                    /\ WeightedTotals(share, s)[a] = SumOf(Term(share, s, a))
<1>1. ASSUME NEW a \in Alternatives
      PROVE  Term(share, s, a) \in Weighings /\ SumOf(Term(share, s, a)) \in Int
  <2>1. \A c \in Criteria : share[c] \in Int /\ s[<<a, c>>] \in Int
    BY DEF Shares, Judged, Pairs, MaxScore
  <2>2. Term(share, s, a) \in Weighings
    BY <2>1 DEF Term, Weighings
  <2>3. \A c \in Criteria : Term(share, s, a)[c] <= Term(share, s, a)[c]
    BY <2>2 DEF Weighings
  <2> QED
    BY <2>2, <2>3, SumMonotone
<1> QED
  BY <1>1 DEF WeightedTotals, Term

\* An alternative that another one beats on every criterion is not picked.
LEMMA DominatedNotPicked ==
  ASSUME NEW share \in Shares, NEW s \in Judged, NEW b \in Alternatives,
         NEW a \in Alternatives, a = PickRecommended(WeightedTotals(share, s))
  PROVE  \E c \in Criteria : s[<<a, c>>] >= s[<<b, c>>]
<1> SUFFICES ASSUME \A c \in Criteria : ~ (s[<<a, c>>] >= s[<<b, c>>]) PROVE FALSE
  OBVIOUS
<1>1. \A c \in Criteria : share[c] \in Nat /\ s[<<a, c>>] \in Nat /\ s[<<b, c>>] \in Nat
  BY DEF Shares, Judged, Pairs, MaxScore
<1>2. \A c \in Criteria : s[<<a, c>>] < s[<<b, c>>]
  BY <1>1
<1>3. \A x, y, z \in Nat : y < z => x * y <= x * z /\ (x > 0 => x * y < x * z)
  OBVIOUS
<1>4. \A c \in Criteria : /\ Term(share, s, a)[c] <= Term(share, s, b)[c]
                          /\ share[c] > 0 => Term(share, s, a)[c] < Term(share, s, b)[c]
  BY <1>1, <1>2, <1>3 DEF Term
<1>5. \E c \in Criteria : Term(share, s, a)[c] < Term(share, s, b)[c]
  BY <1>4 DEF Shares
<1>6. Term(share, s, a) \in Weighings /\ Term(share, s, b) \in Weighings
  BY TotalsType
<1>7. WeightedTotals(share, s)[a] < WeightedTotals(share, s)[b]
  BY <1>4, <1>5, <1>6, SumMonotone, TotalsType
<1>8. WeightedTotals(share, s) \in [Alternatives -> Int] /\ Alternatives # {}
  BY TotalsType
<1>9. Beats(WeightedTotals(share, s), a, b)
  BY <1>8, Picked
<1>10. WeightedTotals(share, s)[a] \in Int /\ WeightedTotals(share, s)[b] \in Int
  BY <1>8
<1> QED
  BY <1>7, <1>9, <1>10 DEF Beats

----------------------------------------------------------------------------
(* Swings. *)

\* What an alternative's total gains with the weight of t, and what it has without.
Slope(share, s, t, a) ==
  [c \in Criteria |-> IF c = t THEN Scale(share, t) * s[<<a, t>>]
                      ELSE IF Others(share, t) > 0 THEN - share[c] * s[<<a, c>>] ELSE 0]
Offset(share, s, t, a) ==
  [c \in Criteria |-> IF c = t \/ ~ (Others(share, t) > 0) THEN 0
                      ELSE 10 * SumOf(share) * (share[c] * s[<<a, c>>])]

\* The totals after a swing.
SwungTotals(share, s, t, x) == WeightedTotals(PerturbedWeights(share, t, x), s)

\* A total is an affine function of the swung weight.
LEMMA TotalAffine ==
  ASSUME NEW share \in Shares, NEW s \in Judged, NEW t \in Criteria, NEW x \in SwingRange,
         NEW a \in Alternatives
  PROVE  /\ SumOf(Slope(share, s, t, a)) \in Int /\ SumOf(Offset(share, s, t, a)) \in Int
         /\ SwungTotals(share, s, t, x)[a] =
              Swung(share, t, x) * SumOf(Slope(share, s, t, a)) + SumOf(Offset(share, s, t, a))
<1> DEFINE new == Swung(share, t, x)
           total == SumOf(share)
           m == Scale(share, t)
           f == PerturbedWeights(share, t, x)
           slope == Slope(share, s, t, a)
           offset == Offset(share, s, t, a)
<1>1. /\ total \in Int /\ new \in Int /\ Others(share, t) \in Int /\ m \in Int
      /\ \A c \in Criteria : share[c] \in Int /\ s[<<a, c>>] \in Int
  BY SwungBounds DEF Shares, Judged, Pairs, MaxScore, Scale
<1>2. f = [c \in Criteria |-> IF c = t THEN new * m
                              ELSE IF Others(share, t) > 0 THEN share[c] * (10 * total - new) ELSE 0]
  BY PerturbedForm
<1>3. f \in Shares
  BY PerturbedShares
<1>4. slope \in Weighings /\ offset \in Weighings
  <2>1. \A c \in Criteria : slope[c] \in Int /\ offset[c] \in Int
    BY <1>1 DEF Slope, Offset
  <2> QED
    BY <2>1 DEF Slope, Offset, Weighings
<1>5. \A u, v, w \in Int : (u * v) * w = u * (v * w) /\ u * 0 = 0 /\ 1 * u = u /\ u + 0 = u
  OBVIOUS
<1>6. \A u, v, y, z \in Int : (u * (10 * y - z)) * v = z * (- u * v) + 10 * y * (u * v)
  OBVIOUS
<1>7. ASSUME NEW c \in Criteria
      PROVE  f[c] * s[<<a, c>>] = new * slope[c] + 1 * offset[c]
  <2>0. slope[c] \in Int /\ offset[c] \in Int
    BY <1>4 DEF Weighings
  <2>1. CASE c = t
    <3>1. f[c] = new * m /\ slope[c] = m * s[<<a, t>>] /\ offset[c] = 0
      BY <1>2, <2>1 DEF Slope, Offset
    <3> HIDE DEF f, slope, offset, new, m
    <3>2. f[c] * s[<<a, c>>] = new * slope[c]
      BY <1>1, <1>5, <2>1, <3>1
    <3> QED
      BY <1>1, <2>0, <3>1, <3>2
  <2>2. CASE c # t /\ Others(share, t) > 0
    <3>1. /\ f[c] = share[c] * (10 * total - new) /\ slope[c] = - share[c] * s[<<a, c>>]
          /\ offset[c] = 10 * total * (share[c] * s[<<a, c>>])
      BY <1>2, <2>2 DEF Slope, Offset
    <3> HIDE DEF f, slope, offset, new, m, total
    <3>2. f[c] * s[<<a, c>>] = new * slope[c] + offset[c]
      BY <1>1, <1>6, <3>1
    <3> QED
      BY <1>1, <1>5, <2>0, <3>2
  <2>3. CASE c # t /\ ~ (Others(share, t) > 0)
    <3>1. f[c] = 0 /\ slope[c] = 0 /\ offset[c] = 0
      BY <1>2, <2>3 DEF Slope, Offset
    <3> HIDE DEF f, slope, offset, new, m, total
    <3> QED
      BY <1>1, <3>1
  <2> QED
    BY <2>1, <2>2, <2>3
<1> HIDE DEF f, slope, offset, new, m, total
<1>8. Term(f, s, a) = Combined(new, slope, 1, offset)
  BY <1>7 DEF Term, Combined
<1>9. SumOf(Combined(new, slope, 1, offset)) = new * SumOf(slope) + 1 * SumOf(offset)
  <2>1. 1 \in Int
    OBVIOUS
  <2> QED
    BY <1>1, <1>4, <2>1, SumLinear
<1>10. SumOf(slope) \in Int /\ SumOf(offset) \in Int
  <2>1. \A g \in Weighings : SumOf(g) \in Int
    <3>1. \A g \in Weighings, c \in Criteria : g[c] <= g[c]
      BY DEF Weighings
    <3> QED
      BY <3>1, SumMonotone
  <2> QED
    BY <1>4, <2>1
<1>11. WeightedTotals(f, s)[a] = SumOf(Term(f, s, a))
  BY <1>3, TotalsType
<1> QED
  BY <1>8, <1>9, <1>10, <1>11 DEF SwungTotals, f, slope, offset, new

\* Without a swing the totals are those of the shares as they are, scaled.
LEMMA TotalUnswung ==
  ASSUME NEW share \in Shares, NEW s \in Judged, NEW t \in Criteria, NEW a \in Alternatives
  PROVE  /\ Scale(share, t) \in Nat /\ Scale(share, t) > 0
         /\ WeightedTotals(share, s)[a] \in Int
         /\ SwungTotals(share, s, t, 0)[a] = 10 * Scale(share, t) * WeightedTotals(share, s)[a]
<1> DEFINE total == SumOf(share)
           m == Scale(share, t)
           f == PerturbedWeights(share, t, 0)
           k == 10 * m
<1>0. 0 \in SwingRange
  BY DEF SwingRange
<1>1. /\ total \in Nat /\ Others(share, t) \in Nat /\ share \in [Criteria -> Nat]
      /\ Swung(share, t, 0) = 10 * share[t]
      /\ \A c \in Criteria : share[c] \in Nat /\ s[<<a, c>>] \in Int
  BY <1>0, SwungBounds DEF Shares, Judged, Pairs, MaxScore
<1>2. m \in Nat /\ m > 0 /\ k \in Int
  BY <1>1 DEF Scale
<1>3. f = [c \in Criteria |-> IF c = t THEN 10 * share[t] * m
                              ELSE IF Others(share, t) > 0
                                   THEN share[c] * (10 * total - 10 * share[t]) ELSE 0]
  BY <1>0, <1>1, PerturbedForm
<1>4. f \in Shares
  BY <1>0, PerturbedShares
<1>5. ASSUME NEW c \in Criteria PROVE f[c] = k * share[c]
  <2>1. CASE c = t
    BY <1>1, <1>2, <1>3, <2>1
  <2>2. CASE c # t /\ Others(share, t) > 0
    <3>1. f[c] = share[c] * (10 * total - 10 * share[t]) /\ m = total - share[t]
      BY <1>3, <2>2 DEF Scale, Others
    <3> HIDE DEF f, m, total
    <3>2. \A u, v, w \in Int : u * (10 * v - 10 * w) = (10 * (v - w)) * u
      OBVIOUS
    <3> QED
      BY <1>1, <3>1, <3>2
  <2>3. CASE c # t /\ ~ (Others(share, t) > 0)
    <3>1. total = share[t]
      BY <1>1, <2>3 DEF Others
    <3>2. share[c] = 0
      BY <1>1, <2>3, <3>1, SumOfShares
    <3>3. f[c] = 0
      BY <1>3, <2>3
    <3> HIDE DEF f, k
    <3> QED
      BY <1>2, <3>2, <3>3
  <2> QED
    BY <2>1, <2>2, <2>3
<1> DEFINE term == Term(share, s, a)
<1>6. term \in Weighings /\ WeightedTotals(share, s)[a] = SumOf(term)
  BY TotalsType
<1>7. SumOf(term) \in Int
  <2>1. WeightedTotals(share, s) \in [Alternatives -> Int]
    BY TotalsType
  <2> QED
    BY <1>6, <2>1
<1> HIDE DEF f, k, total
<1>8. Term(f, s, a) = Combined(k, term, 0, term)
  <2>1. ASSUME NEW c \in Criteria PROVE f[c] * s[<<a, c>>] = k * term[c] + 0 * term[c]
    <3>1. term[c] = share[c] * s[<<a, c>>] /\ term[c] \in Int
      BY <1>6 DEF Term, Weighings
    <3>2. \A u, v, w \in Int : (u * v) * w = u * (v * w)
      OBVIOUS
    <3> HIDE DEF term
    <3>3. share[c] \in Int /\ s[<<a, c>>] \in Int
      BY <1>1
    <3>4. (k * share[c]) * s[<<a, c>>] = k * (share[c] * s[<<a, c>>])
      BY <1>2, <3>2, <3>3
    <3>5. 0 * term[c] = 0 /\ k * term[c] \in Int /\ k * term[c] + 0 = k * term[c]
      BY <1>2, <3>1
    <3> QED
      BY <1>5, <3>1, <3>4, <3>5
  <2> HIDE DEF term
  <2> QED
    BY <2>1 DEF Term, Combined
<1> HIDE DEF term
<1>9. SumOf(Combined(k, term, 0, term)) = k * SumOf(term) + 0 * SumOf(term)
  <2>1. 0 \in Int
    OBVIOUS
  <2> QED
    BY <1>2, <1>6, <2>1, SumLinear
<1>10. WeightedTotals(f, s)[a] = SumOf(Term(f, s, a))
  BY <1>4, TotalsType
<1>11. k * SumOf(term) + 0 * SumOf(term) = k * SumOf(term)
  BY <1>2, <1>7
<1> QED
  BY <1>2, <1>6, <1>7, <1>8, <1>9, <1>10, <1>11 DEF SwungTotals, f, k

\* Between two numbers an affine function is nowhere less than at both ends.
LEMMA AffineBetween ==
  ASSUME NEW d \in Int, NEW e \in Int, NEW u \in Int, NEW v \in Int, NEW w \in Int,
         u <= v /\ v <= w
  PROVE  /\ u * d + e >= 0 /\ w * d + e >= 0 => v * d + e >= 0
         /\ u * d + e > 0 /\ w * d + e > 0 => v * d + e > 0
<1>1. CASE d >= 0
  <2>1. u * d <= v * d
    BY <1>1
  <2> QED
    BY <2>1
<1>2. CASE d < 0
  <2>1. w * d <= v * d
    BY <1>2
  <2> QED
    BY <2>1
<1> QED
  BY <1>1, <1>2

\* What is recommended at two swings is recommended at every swing between them.
LEMMA PickedBetween ==
  ASSUME NEW share \in Shares, NEW s \in Judged, NEW t \in Criteria, NEW r \in Alternatives,
         NEW x \in SwingRange, NEW y \in SwingRange, NEW z \in SwingRange, x <= y, y <= z,
         r = PickRecommended(SwungTotals(share, s, t, x)),
         r = PickRecommended(SwungTotals(share, s, t, z))
  PROVE  r = PickRecommended(SwungTotals(share, s, t, y))
<1> DEFINE N(i) == Swung(share, t, i)
           P(a) == SumOf(Slope(share, s, t, a))
           Q(a) == SumOf(Offset(share, s, t, a))
           T(i) == SwungTotals(share, s, t, i)
<1>1. \A i \in SwingRange : T(i) \in [Alternatives -> Int]
  BY PerturbedShares, TotalsType DEF SwungTotals
<1>2. \A a \in Alternatives : P(a) \in Int /\ Q(a) \in Int
  BY TotalAffine
<1>3. \A i \in SwingRange : \A a \in Alternatives : T(i)[a] = N(i) * P(a) + Q(a)
  BY TotalAffine
<1>4. N(x) \in Int /\ N(y) \in Int /\ N(z) \in Int /\ N(x) <= N(y) /\ N(y) <= N(z)
  BY SwungBounds
<1>5. \A b \in Alternatives : Beats(T(x), r, b) /\ Beats(T(z), r, b)
  <2> HIDE DEF T
  <2>1. T(x) \in [Alternatives -> Int] /\ T(z) \in [Alternatives -> Int]
    BY <1>1
  <2>2. r = PickRecommended(T(x)) /\ r = PickRecommended(T(z)) /\ Alternatives # {}
    BY DEF T
  <2> QED
    BY <2>1, <2>2, Picked
<1> HIDE DEF N, P, Q, T
<1>6. ASSUME NEW b \in Alternatives PROVE Beats(T(y), r, b)
  <2> DEFINE d == P(r) - P(b)
             e == Q(r) - Q(b)
  <2>1. d \in Int /\ e \in Int
    BY <1>2
  <2>2. ASSUME NEW i \in {x, y, z}
        PROVE  /\ T(i)[r] \in Int /\ T(i)[b] \in Int
               /\ T(i)[r] - T(i)[b] = N(i) * d + e
    <3>1. i \in SwingRange /\ N(i) \in Int
      BY <1>4
    <3>2. \A k, g, h, m, n \in Int : (k * g + m) - (k * h + n) = k * (g - h) + (m - n)
      OBVIOUS
    <3>3. T(i)[r] = N(i) * P(r) + Q(r) /\ T(i)[b] = N(i) * P(b) + Q(b)
      BY <1>3, <3>1
    <3>4. T(i)[r] \in Int /\ T(i)[b] \in Int
      BY <1>1, <3>1
    <3> QED
      BY <1>2, <3>1, <3>2, <3>3, <3>4
  <2>3. Beats(T(x), r, b) /\ Beats(T(z), r, b)
    BY <1>5
  <2>4. /\ N(x) * d + e >= 0 /\ N(z) * d + e >= 0 => N(y) * d + e >= 0
        /\ N(x) * d + e > 0 /\ N(z) * d + e > 0 => N(y) * d + e > 0
    <3> HIDE DEF d, e
    <3> QED
      BY <1>4, <2>1, AffineBetween
  <2>5. \A i \in {x, y, z} : N(i) * d + e \in Int
    BY <1>4, <2>1
  <2>6. \A i \in {x, y, z} :
          /\ N(i) * d + e > 0 <=> T(i)[b] < T(i)[r]
          /\ N(i) * d + e >= 0 <=> (T(i)[b] < T(i)[r] \/ T(i)[b] = T(i)[r])
    <3> HIDE DEF d, e
    <3>1. \A u, v, w \in Int : u - v = w => (w > 0 <=> v < u) /\ (w >= 0 <=> (v < u \/ v = u))
      OBVIOUS
    <3> QED
      BY <2>2, <2>5, <3>1, Zenon
  <2> HIDE DEF d, e
  <2>7. CASE r <= b
    <3>1. N(x) * d + e >= 0 /\ N(z) * d + e >= 0
      BY <2>3, <2>6 DEF Beats
    <3>2. T(y)[b] < T(y)[r] \/ T(y)[b] = T(y)[r]
      BY <2>4, <2>6, <3>1
    <3> QED
      BY <2>7, <3>2 DEF Beats
  <2>8. CASE ~ (r <= b)
    <3>1. N(x) * d + e > 0 /\ N(z) * d + e > 0
      BY <2>3, <2>6, <2>8 DEF Beats
    <3>2. T(y)[b] < T(y)[r]
      BY <2>4, <2>6, <3>1
    <3> QED
      BY <3>2 DEF Beats
  <2> QED
    BY <2>7, <2>8
<1>7. r = PickRecommended(T(y))
  <2>1. T(y) \in [Alternatives -> Int] /\ Alternatives # {}
    BY <1>1
  <2> QED
    BY <1>6, <2>1, Picked
<1> QED
  BY <1>7 DEF T

\* No swing at all recommends what the shares as they are recommend.
LEMMA PickedUnswung ==
  ASSUME NEW share \in Shares, NEW s \in Judged, NEW t \in Criteria, Alternatives # {}
  PROVE  PickRecommended(SwungTotals(share, s, t, 0)) = PickRecommended(WeightedTotals(share, s))
<1> DEFINE T == SwungTotals(share, s, t, 0)
           B == WeightedTotals(share, s)
           r == PickRecommended(B)
           k == Scale(share, t)
<1>1. B \in [Alternatives -> Int] /\ 0 \in SwingRange
  BY TotalsType DEF SwingRange
<1>2. T \in [Alternatives -> Int]
  BY <1>1, PerturbedShares, TotalsType DEF SwungTotals
<1>3. k \in Nat /\ k > 0 /\ \A a \in Alternatives : T[a] = 10 * k * B[a]
  BY TotalUnswung
<1> HIDE DEF T, B, k
<1>4. r \in Alternatives /\ \A b \in Alternatives : Beats(B, r, b)
  BY <1>1, Picked
<1>5. \A m \in Nat : m > 0 => \A u, v \in Int : u < v => m * u < m * v
  OBVIOUS
<1>6. ASSUME NEW b \in Alternatives PROVE Beats(T, r, b)
  <2>1. 10 * k \in Nat /\ 10 * k > 0 /\ B[b] \in Int /\ B[r] \in Int
    BY <1>1, <1>3, <1>4
  <2>2. B[b] < B[r] => T[b] < T[r]
    BY <1>3, <1>4, <1>5, <2>1
  <2>3. B[b] = B[r] => T[b] = T[r]
    BY <1>3, <1>4
  <2> QED
    BY <1>4, <2>2, <2>3 DEF Beats
<1>7. PickRecommended(T) = r
  <2> HIDE DEF r
  <2> QED
    BY <1>2, <1>4, <1>6, Picked
<1> QED
  BY <1>7 DEF T, B

----------------------------------------------------------------------------
(* The invariant. *)

\* A decision without swings was taken with nothing to weigh; any other is what the
\* weights of the plan and clamped scores recommend, as they are and swung.
DecidedRight ==
  \/ decision = NoDecision
  \/ decision.perturbed = <<>>
  \/ /\ Alternatives # {} /\ Criteria # {}
     /\ weight \in Weighings /\ score \in Judged
     /\ decision = [recommended |-> PickRecommended(WeightedTotals(NormalizedWeights(weight), score)),
                    perturbed |-> Sensitivity(NormalizedWeights(weight), score, DefaultPerturbation)]

\* The recommendation is always the one that weights and scores give.
THEOREM DecisionInvariant == DecisionSpec => []DecidedRight
<1>1. DecisionInit => DecidedRight
  BY DEF DecisionInit, DecidedRight
<1>2. DecidedRight /\ [DecisionNext]_decisionVars => DecidedRight'
  <2> SUFFICES ASSUME DecidedRight, [DecisionNext]_decisionVars PROVE DecidedRight'
    OBVIOUS
  <2>1. ASSUME NEW w \in Weights, NEW j \in [Pairs -> Scores \cup {NoJudgment}], Analyse(w, j)
        PROVE  DecidedRight'
    <3>1. CASE Alternatives = {} \/ Criteria = {}
      <4>1. decision'.perturbed = <<>>
        BY <2>1, <3>1 DEF Analyse
      <4> QED
        BY <4>1 DEF DecidedRight
    <3>2. CASE ~ (Alternatives = {} \/ Criteria = {})
      <4>1. weight' = w /\ w \in Weighings
        BY <2>1, DecisionAssumption DEF Analyse, Weighings
      <4>2. score' = [p \in Pairs |-> Clamped(j[p])]
        BY <2>1, <3>2 DEF Analyse
      <4>3. \A p \in Pairs : Clamped(j[p]) \in 0 .. MaxScore
        <5>1. \A p \in Pairs : j[p] = NoJudgment \/ j[p] \in Int
          BY DecisionAssumption
        <5> QED
          BY <5>1 DEF Clamped, Neutral, MaxScore
      <4>4. score' \in Judged
        BY <4>2, <4>3 DEF Judged
      <4>5. decision' =
              [recommended |-> PickRecommended(WeightedTotals(NormalizedWeights(w), score')),
               perturbed |-> Sensitivity(NormalizedWeights(w), score', DefaultPerturbation)]
        BY <2>1, <3>2, <4>2 DEF Analyse
      <4> QED
        BY <3>2, <4>1, <4>4, <4>5 DEF DecidedRight
    <3> QED
      BY <3>1, <3>2
  <2>2. CASE UNCHANGED decisionVars
    BY <2>2 DEF decisionVars, DecidedRight
  <2> QED
    BY <2>1, <2>2 DEF DecisionNext
<1> QED
  BY <1>1, <1>2, PTL DEF DecisionSpec

\* What DecidedRight says of a decision that weighed something.
LEMMA DecidedParts ==
  ASSUME DecidedRight, Decided
  PROVE  \E share \in Shares :
           /\ share = NormalizedWeights(weight)
           /\ Alternatives # {} /\ score \in Judged
           /\ decision.recommended = PickRecommended(WeightedTotals(share, score))
           /\ DOMAIN decision.perturbed = Criteria \X {2, -2}
           /\ \A x \in Criteria \X {2, -2} :
                decision.perturbed[x] = PickRecommended(SwungTotals(share, score, x[1], x[2]))
<1> DEFINE share == NormalizedWeights(weight)
<1>1. /\ Alternatives # {} /\ Criteria # {} /\ weight \in Weighings /\ score \in Judged
      /\ decision = [recommended |-> PickRecommended(WeightedTotals(share, score)),
                     perturbed |-> Sensitivity(share, score, DefaultPerturbation)]
  BY DEF DecidedRight, Decided
<1>2. share \in Shares
  BY <1>1, NormalizedShares
<1>3. Swings(DefaultPerturbation) = {2, -2}
  BY DEF Swings, DefaultPerturbation
<1> HIDE DEF share
<1>4. Sensitivity(share, score, DefaultPerturbation) =
        [x \in Criteria \X {2, -2} |-> PickRecommended(SwungTotals(share, score, x[1], x[2]))]
  BY <1>3 DEF Sensitivity, SwungTotals
<1> QED
  BY <1>1, <1>2, <1>4 DEF share

\* Whatever the model answers and the plan weighs, an alternative beaten on every
\* criterion is recommended neither at the outset nor after a swing.
THEOREM DominatedNotRecommended == DecisionSpec => []DominatedNeverRecommended
<1>1. DecidedRight => DominatedNeverRecommended
  <2> SUFFICES ASSUME DecidedRight, Decided, NEW a \in Recommended, NEW b \in Alternatives
               PROVE  \E c \in Criteria : score[<<a, c>>] >= score[<<b, c>>]
    BY DEF DominatedNeverRecommended
  <2>1. PICK share \in Shares :
           /\ Alternatives # {} /\ score \in Judged
           /\ decision.recommended = PickRecommended(WeightedTotals(share, score))
           /\ DOMAIN decision.perturbed = Criteria \X {2, -2}
           /\ \A x \in Criteria \X {2, -2} :
                decision.perturbed[x] = PickRecommended(SwungTotals(share, score, x[1], x[2]))
    BY DecidedParts
  <2>2. PICK f \in Shares : a = PickRecommended(WeightedTotals(f, score))
    <3>1. CASE a = decision.recommended
      BY <2>1, <3>1
    <3>2. ASSUME NEW x \in DOMAIN decision.perturbed, a = decision.perturbed[x]
          PROVE  \E f \in Shares : a = PickRecommended(WeightedTotals(f, score))
      <4>1. x[1] \in Criteria /\ x[2] \in SwingRange
        BY <2>1, <3>2 DEF SwingRange
      <4>2. PerturbedWeights(share, x[1], x[2]) \in Shares
        BY <4>1, PerturbedShares
      <4> QED
        BY <2>1, <3>2, <4>2 DEF SwungTotals
    <3> QED
      BY <3>1, <3>2 DEF Recommended
  <2>3. a \in Alternatives
    BY <2>1, <2>2, TotalsType, Picked
  <2> QED
    BY <2>1, <2>2, <2>3, DominatedNotPicked
<1> QED
  BY <1>1, DecisionInvariant, PTL

\* If no swing of a fifth changes the recommendation, no swing of a tenth does: the
\* totals are affine in the swung weight, and what leads at both ends leads between.
THEOREM StableWithinSwings == DecisionSpec => []StableBetweenSwings
<1>1. DecidedRight => StableBetweenSwings
  <2> DEFINE tenth == [x \in Criteria \X {1, -1} |->
                 PickRecommended(WeightedTotals(
                    PerturbedWeights(NormalizedWeights(weight), x[1], x[2]), score))]
  <2> SUFFICES ASSUME DecidedRight, Decided, ~ IsSensitive(decision.perturbed),
                      NEW x \in Criteria \X {1, -1}
               PROVE  tenth[x] = decision.recommended
    BY DEF StableBetweenSwings, IsSensitive
  <2>1. PICK share \in Shares :
           /\ share = NormalizedWeights(weight)
           /\ Alternatives # {} /\ score \in Judged
           /\ decision.recommended = PickRecommended(WeightedTotals(share, score))
           /\ DOMAIN decision.perturbed = Criteria \X {2, -2}
           /\ \A y \in Criteria \X {2, -2} :
                decision.perturbed[y] = PickRecommended(SwungTotals(share, score, y[1], y[2]))
    BY DecidedParts
  <2> DEFINE r == decision.recommended
             t == x[1]
  <2>2. t \in Criteria /\ x[2] \in {1, -1} /\ <<t, 2>> \in Criteria \X {2, -2}
        /\ <<t, -2>> \in Criteria \X {2, -2}
    OBVIOUS
  <2>3. r = PickRecommended(SwungTotals(share, score, t, 2))
    BY <2>1, <2>2 DEF IsSensitive
  <2>4. r = PickRecommended(SwungTotals(share, score, t, -2))
    BY <2>1, <2>2 DEF IsSensitive
  <2>5. r \in Alternatives
    BY <2>1, TotalsType, Picked
  <2>6. 2 \in SwingRange /\ -2 \in SwingRange /\ x[2] \in SwingRange /\ -2 <= x[2] /\ x[2] <= 2
    BY <2>2 DEF SwingRange
  <2>7. tenth[x] = PickRecommended(SwungTotals(share, score, t, x[2]))
    BY <2>1 DEF SwungTotals
  <2> HIDE DEF r, t, tenth
  <2>8. r = PickRecommended(SwungTotals(share, score, t, x[2]))
    BY <2>1, <2>2, <2>3, <2>4, <2>5, <2>6, PickedBetween
  <2> QED
    BY <2>7, <2>8 DEF r
<1> QED
  BY <1>1, DecisionInvariant, PTL

\* Two swings of a weight never agree on anything but the recommendation: where a
\* swing changes it, the opposite one recommends something else (sensitivity.py:69-90).
SwingsAgreeOnRecommendation ==
  Decided => \A t \in Criteria :
    decision.perturbed[<<t, 2>>] = decision.perturbed[<<t, -2>>] =>
      decision.perturbed[<<t, 2>>] = decision.recommended

\* It holds whatever the plan weighs and the model answers: the weights as they are
\* lie between the two swings.
THEOREM SwingsAgree == DecisionSpec => []SwingsAgreeOnRecommendation
<1>1. DecidedRight => SwingsAgreeOnRecommendation
  <2> SUFFICES ASSUME DecidedRight, Decided, NEW t \in Criteria,
                      decision.perturbed[<<t, 2>>] = decision.perturbed[<<t, -2>>]
               PROVE  decision.perturbed[<<t, 2>>] = decision.recommended
    BY DEF SwingsAgreeOnRecommendation
  <2>1. PICK share \in Shares :
           /\ share = NormalizedWeights(weight)
           /\ Alternatives # {} /\ score \in Judged
           /\ decision.recommended = PickRecommended(WeightedTotals(share, score))
           /\ DOMAIN decision.perturbed = Criteria \X {2, -2}
           /\ \A y \in Criteria \X {2, -2} :
                decision.perturbed[y] = PickRecommended(SwungTotals(share, score, y[1], y[2]))
    BY DecidedParts
  <2> DEFINE r == decision.perturbed[<<t, 2>>]
  <2>2. /\ r = PickRecommended(SwungTotals(share, score, t, 2))
        /\ r = PickRecommended(SwungTotals(share, score, t, -2))
    BY <2>1
  <2>3. 2 \in SwingRange /\ -2 \in SwingRange /\ 0 \in SwingRange /\ -2 <= 0 /\ 0 <= 2
    BY DEF SwingRange
  <2>4. r \in Alternatives
    <3>1. SwungTotals(share, score, t, 2) \in [Alternatives -> Int]
      BY <2>1, <2>3, PerturbedShares, TotalsType DEF SwungTotals
    <3> QED
      BY <2>1, <2>2, <3>1, Picked
  <2> HIDE DEF r
  <2>5. r = PickRecommended(SwungTotals(share, score, t, 0))
    BY <2>1, <2>2, <2>3, <2>4, PickedBetween
  <2> QED
    BY <2>1, <2>5, PickedUnswung DEF r
<1> QED
  BY <1>1, DecisionInvariant, PTL
============================================================================
