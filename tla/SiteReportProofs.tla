-------------------------- MODULE SiteReportProofs --------------------------
(***************************************************************************)
(* Proofs about module SiteReport and the modules it extends: what the     *)
(* tools compute of a site, and the scores, the advice and the findings of *)
(* the combined report.                                                    *)
(*                                                                         *)
(* The behaviour is simple, and its invariant (ReportInv) as well: a tool  *)
(* that has ended holds what it answers on this site.  The proofs are      *)
(* about what the answers are.  The code computes them in loops and        *)
(* recursions, so they begin with two principles: a set of naturals that   *)
(* holds 0 and with each number the next holds all (AllNaturals), and a    *)
(* function whose values are given by those of lower rank exists           *)
(* (RecursiveDefinition; the step is given as a function, not as an        *)
(* operator).  Each recursion of the model is shown to have a solution, so *)
(* that its CHOOSE is one, and is then compared with a definition without  *)
(* recursion by induction on the rank:                                     *)
(*   - SumTo with the values it sums (SumOfNaturals, SumOfScores, ...);    *)
(*   - ExtractLinks with the destinations of the page (LinksAreDestina-    *)
(*     tions), CheckSingleLink with the answers on its way (CheckIsRight); *)
(*   - FlattenJsonLd with the objects it ought to list (FlattenIsExact);   *)
(*   - Recorded, downwards through the items of a page, with the names on  *)
(*     the way up from an element (RecordedAsNamed).                       *)
(* The score of the SSL section is a function of four facts about a scan   *)
(* (ScoreByHarm), each of which moves one way when a defect is added       *)
(* (DefectsAddUp).                                                         *)
(***************************************************************************)
EXTENDS SiteReport, FiniteSetTheorems, WellFoundedInduction, TLAPS

-----------------------------------------------------------------------------
(* Induction and sums.                                                     *)

\* Induction over a set of naturals: the least number outside of it is found as
\* the smallest of finitely many intervals.
LEMMA AllNaturals ==
    ASSUME NEW S, 0 \in S, \A n \in Nat : n \in S => n + 1 \in S
    PROVE  \A n \in Nat : n \in S
  <1> SUFFICES ASSUME NEW m \in Nat, m \notin S PROVE FALSE
    OBVIOUS
  <1> DEFINE outside == {k \in 0..m : k \notin S}
             upTo == {0..k : k \in outside}
             all == SUBSET (0..m)
  <1>1. IsFiniteSet(0..m)
    BY FS_Interval
  <1>2. IsWellFoundedOn(StrictSubsetOrdering(0..m), all)
    BY <1>1, FS_FiniteSubsetsOfFinite, FS_StrictSubsetOrderingWellFounded
  <1>3. upTo \subseteq all /\ upTo # {}
    <2>1. m \in outside
      OBVIOUS
    <2> QED BY <2>1
  <1>4. \E x \in upTo : \A y \in upTo : ~(<<y, x>> \in StrictSubsetOrdering(0..m))
    <2> HIDE DEF upTo, all
    <2> QED BY <1>2, <1>3, WFMin, SMT
  <1>5. PICK k \in outside : \A j \in outside : ~(<<0..j, 0..k>> \in StrictSubsetOrdering(0..m))
    BY <1>4
  <1>6. k # 0 /\ k - 1 \in Nat /\ k - 1 \notin S /\ k - 1 \in outside
    <2>1. k \in Nat /\ k <= m /\ k \notin S
      OBVIOUS
    <2>2. k # 0
      BY <2>1
    <2>3. k - 1 \in Nat /\ (k - 1) + 1 = k /\ k - 1 <= m
      BY <2>1, <2>2
    <2>4. k - 1 \notin S
      BY <2>1, <2>3
    <2> QED BY <2>2, <2>3, <2>4
  <1>7. <<0..(k - 1), 0..k>> \in StrictSubsetOrdering(0..m)
    <2>1. 0..(k - 1) \subseteq 0..k /\ k \in 0..k /\ k \notin 0..(k - 1) /\ 0..k \subseteq 0..m
      BY <1>6
    <2> HIDE DEF outside
    <2>2. 0..(k - 1) # 0..k
      BY <2>1
    <2>3. 0..(k - 1) \in SUBSET (0..m) /\ 0..k \in SUBSET (0..m)
      BY <2>1
    <2> QED BY <2>1, <2>2, <2>3 DEF StrictSubsetOrdering
  <1> QED BY <1>5, <1>6, <1>7

\* What the sum of the first k values is, one value after the other.
IsRunningSum(g, f, n) == g = [k \in 0..n |-> IF k = 0 THEN 0 ELSE g[k - 1] + f[k]]

\* The recursion of a sum has a solution.
LEMMA RunningSumExists ==
    ASSUME NEW f, NEW N \in Nat, \A k \in 1..N : f[k] \in Int
    PROVE  \A n \in 0..N : \E g \in [0..n -> Int] : IsRunningSum(g, f, n)
  <1> DEFINE S == {n \in Nat : n <= N => \E g \in [0..n -> Int] : IsRunningSum(g, f, n)}
  <1>1. 0 \in S
    <2> DEFINE g == [k \in 0..0 |-> 0]
    <2>1. g \in [0..0 -> Int]
      OBVIOUS
    <2>2. IsRunningSum(g, f, 0)
      <3>1. \A k \in 0..0 : k = 0
        OBVIOUS
      <3> QED BY <3>1 DEF IsRunningSum
    <2> QED BY <2>1, <2>2
  <1>2. ASSUME NEW n \in Nat, n \in S PROVE n + 1 \in S
    <2> SUFFICES ASSUME n + 1 <= N
                 PROVE  \E g \in [0..(n + 1) -> Int] : IsRunningSum(g, f, n + 1)
      OBVIOUS
    <2>1. PICK g \in [0..n -> Int] : IsRunningSum(g, f, n)
      BY <1>2
    <2> DEFINE h == [k \in 0..(n + 1) |-> IF k <= n THEN g[k] ELSE g[n] + f[n + 1]]
    <2>2. f[n + 1] \in Int
      OBVIOUS
    <2>3. h \in [0..(n + 1) -> Int]
      BY <2>2
    <2>4. \A k \in 0..n : g[k] = IF k = 0 THEN 0 ELSE g[k - 1] + f[k]
      BY <2>1 DEF IsRunningSum
    <2>5. \A k \in 0..(n + 1) : h[k] = IF k = 0 THEN 0 ELSE h[k - 1] + f[k]
      <3> TAKE k \in 0..(n + 1)
      <3>1. CASE k = 0
        BY <3>1, <2>4
      <3>2. CASE k # 0 /\ k <= n
        <4>1. k \in 0..n /\ k - 1 \in 0..n /\ k - 1 \in 0..(n + 1)
          BY <3>2
        <4>2. h[k] = g[k] /\ h[k - 1] = g[k - 1]
          BY <4>1
        <4> QED BY <3>2, <4>1, <4>2, <2>4
      <3>3. CASE k = n + 1
        <4>1. k - 1 = n /\ n \in 0..(n + 1) /\ k # 0 /\ ~(k <= n)
          BY <3>3
        <4> QED BY <3>3, <4>1
      <3> QED BY <3>1, <3>2, <3>3
    <2>6. IsRunningSum(h, f, n + 1)
      <3> HIDE DEF h
      <3> QED BY <2>3, <2>5 DEF IsRunningSum
    <2> QED BY <2>3, <2>6
  <1>3. \A n \in Nat : n \in S
    <2> HIDE DEF S
    <2> QED BY <1>1, <1>2, AllNaturals
  <1>4. ASSUME NEW n \in 0..N PROVE \E g \in [0..n -> Int] : IsRunningSum(g, f, n)
    <2>1. n \in S /\ n <= N
      BY <1>3
    <2> QED BY <2>1
  <1> QED BY <1>4

\* A sum is what it says: nothing at first, and one value more at a time.
LEMMA SumStep ==
    ASSUME NEW f, NEW N \in Nat, \A k \in 1..N : f[k] \in Int
    PROVE  /\ SumTo(f, 0) = 0
           /\ \A k \in 0..N : SumTo(f, k) \in Int
           /\ \A k \in 1..N : SumTo(f, k) = SumTo(f, k - 1) + f[k]
  <1> DEFINE sum(n) == CHOOSE g : IsRunningSum(g, f, n)
  <1>1. \A n : SumTo(f, n) = sum(n)[n]
    BY DEF SumTo, IsRunningSum
  <1>2. \A n \in 0..N : IsRunningSum(sum(n), f, n)
    BY RunningSumExists
  <1>3. \A n \in 0..N : \A k \in 0..n : sum(n)[k] = IF k = 0 THEN 0 ELSE sum(n)[k - 1] + f[k]
    <2> TAKE n \in 0..N
    <2> TAKE k \in 0..n
    <2>1. IsRunningSum(sum(n), f, n)
      BY <1>2
    <2> HIDE DEF sum
    <2> QED BY <2>1 DEF IsRunningSum
  <1> DEFINE S == {k \in Nat : \A n \in 0..N : k <= n => /\ sum(n)[k] = sum(k)[k]
                                                         /\ sum(n)[k] \in Int}
  <1> HIDE DEF sum
  <1>4. 0 \in S
    <2>1. \A n \in 0..N : sum(n)[0] = 0
      BY <1>3
    <2> QED BY <2>1
  <1>5. ASSUME NEW k \in Nat, k \in S PROVE k + 1 \in S
    <2> SUFFICES ASSUME NEW n \in 0..N, k + 1 <= n
                 PROVE  sum(n)[k + 1] = sum(k + 1)[k + 1] /\ sum(n)[k + 1] \in Int
      OBVIOUS
    <2>1. k + 1 \in 0..N /\ k + 1 \in 0..n /\ k + 1 \in 0..(k + 1) /\ (k + 1) - 1 = k /\ k + 1 # 0
          /\ k <= n /\ k <= k + 1 /\ k + 1 \in 1..N
      OBVIOUS
    <2>2. /\ sum(n)[k + 1] = sum(n)[k] + f[k + 1]
          /\ sum(k + 1)[k + 1] = sum(k + 1)[k] + f[k + 1]
      BY <2>1, <1>3
    <2>3. sum(n)[k] = sum(k)[k] /\ sum(k + 1)[k] = sum(k)[k] /\ sum(n)[k] \in Int
      BY <1>5, <2>1
    <2>4. f[k + 1] \in Int
      BY <2>1
    <2> QED BY <2>2, <2>3, <2>4
  <1>6. \A k \in Nat : k \in S
    <2> HIDE DEF S
    <2> QED BY <1>4, <1>5, AllNaturals
  <1>7. \A k \in 0..N : sum(k)[k] \in Int /\ \A n \in 0..N : k <= n => sum(n)[k] = sum(k)[k]
    BY <1>6
  <1>8. sum(0)[0] = 0
    BY <1>3
  <1>9. ASSUME NEW k \in 1..N PROVE sum(k)[k] = sum(k - 1)[k - 1] + f[k]
    <2>1. k \in 0..N /\ k \in 0..k /\ k # 0 /\ k - 1 \in 0..N /\ k - 1 <= k
      OBVIOUS
    <2>2. sum(k)[k] = sum(k)[k - 1] + f[k]
      BY <2>1, <1>3
    <2>3. sum(k)[k - 1] = sum(k - 1)[k - 1]
      BY <2>1, <1>7
    <2> QED BY <2>2, <2>3
  <1> QED BY <1>1, <1>7, <1>8, <1>9

\* A sum of naturals is one, and is 0 only of zeros.
LEMMA SumOfNaturals ==
    ASSUME NEW f, NEW N \in Nat, \A k \in 1..N : f[k] \in Nat
    PROVE  /\ SumTo(f, N) \in Nat
           /\ SumTo(f, N) = 0 <=> \A k \in 1..N : f[k] = 0
  <1> DEFINE S == {n \in Nat : n <= N => /\ SumTo(f, n) \in Nat
                                         /\ SumTo(f, n) = 0 <=> \A k \in 1..n : f[k] = 0}
  <1>1. /\ SumTo(f, 0) = 0
        /\ \A k \in 1..N : SumTo(f, k) = SumTo(f, k - 1) + f[k]
    BY SumStep
  <1>2. 0 \in S
    BY <1>1
  <1>3. ASSUME NEW n \in Nat, n \in S PROVE n + 1 \in S
    <2> SUFFICES ASSUME n + 1 <= N
                 PROVE  /\ SumTo(f, n + 1) \in Nat
                        /\ SumTo(f, n + 1) = 0 <=> \A k \in 1..(n + 1) : f[k] = 0
      OBVIOUS
    <2>1. n + 1 \in 1..N /\ (n + 1) - 1 = n /\ n <= N
      OBVIOUS
    <2>2. SumTo(f, n + 1) = SumTo(f, n) + f[n + 1] /\ f[n + 1] \in Nat
      BY <1>1, <2>1
    <2>3. /\ SumTo(f, n) \in Nat
          /\ SumTo(f, n) = 0 <=> \A k \in 1..n : f[k] = 0
      BY <1>3, <2>1
    <2>4. (\A k \in 1..(n + 1) : f[k] = 0) <=> (f[n + 1] = 0 /\ \A k \in 1..n : f[k] = 0)
      <3>1. \A k \in 1..(n + 1) : k = n + 1 \/ k \in 1..n
        OBVIOUS
      <3>2. n + 1 \in 1..(n + 1) /\ \A k \in 1..n : k \in 1..(n + 1)
        OBVIOUS
      <3> QED BY <3>1, <3>2
    <2> QED BY <2>2, <2>3, <2>4
  <1>4. \A n \in Nat : n \in S
    <2> HIDE DEF S
    <2> QED BY <1>2, <1>3, AllNaturals
  <1>5. N \in S
    BY <1>4
  <1> QED BY <1>5

\* A sum with at most one value that is not 0.
LEMMA SumOfOne ==
    ASSUME NEW f, NEW N \in Nat, NEW p \in 1..N, f[p] \in Int,
           \A k \in 1..N : k # p => f[k] = 0
    PROVE  SumTo(f, N) = f[p]
  <1> DEFINE S == {n \in Nat : n <= N => SumTo(f, n) = IF p <= n THEN f[p] ELSE 0}
  <1>1. /\ SumTo(f, 0) = 0
        /\ \A k \in 1..N : SumTo(f, k) = SumTo(f, k - 1) + f[k]
    <2>1. \A k \in 1..N : f[k] \in Int
      OBVIOUS
    <2> QED BY <2>1, SumStep
  <1>2. 0 \in S
    BY <1>1
  <1>3. ASSUME NEW n \in Nat, n \in S PROVE n + 1 \in S
    <2> SUFFICES ASSUME n + 1 <= N
                 PROVE  SumTo(f, n + 1) = IF p <= n + 1 THEN f[p] ELSE 0
      OBVIOUS
    <2>1. n + 1 \in 1..N /\ (n + 1) - 1 = n /\ n <= N
      OBVIOUS
    <2>2. SumTo(f, n + 1) = SumTo(f, n) + f[n + 1]
      BY <1>1, <2>1
    <2>3. SumTo(f, n) = IF p <= n THEN f[p] ELSE 0
      BY <1>3, <2>1
    <2>4. CASE p = n + 1
      BY <2>2, <2>3, <2>4
    <2>5. CASE p # n + 1
      <3>1. f[n + 1] = 0
        BY <2>1, <2>5
      <3> QED BY <2>2, <2>3, <2>5, <3>1
    <2> QED BY <2>4, <2>5
  <1>4. \A n \in Nat : n \in S
    <2> HIDE DEF S
    <2> QED BY <1>2, <1>3, AllNaturals
  <1>5. N \in S
    BY <1>4
  <1> QED BY <1>5

-----------------------------------------------------------------------------
(* Rounding, means and scores.                                             *)

\* What the quotient and the remainder are.
LEMMA DivMod ==
    ASSUME NEW a \in Int, NEW n \in Nat \ {0}, NEW q, q = a \div n, NEW r, r = a % n
    PROVE  q \in Int /\ r \in 0..(n - 1) /\ a = n * q + r
  <1>1. q \in Int
    BY SMT
  <1>2. r \in 0..(n - 1)
    BY SMT
  <1>3. a = n * q + r
    BY SMT
  <1> QED BY <1>1, <1>2, <1>3

\* A rounded quotient by its quotient and its remainder.
LEMMA QuotientParts ==
    ASSUME NEW a \in Int, NEW n \in Nat \ {0}
    PROVE  \E q \in Int, r \in 0..(n - 1) :
              /\ a = n * q + r
              /\ RoundedQuotient(a, n) = IF 2 * r < n \/ (2 * r = n /\ q % 2 = 0)
                                         THEN q ELSE q + 1
  <1> DEFINE q == a \div n
             r == a % n
  <1>1. q \in Int /\ r \in 0..(n - 1) /\ a = n * q + r
    BY DivMod
  <1>2. RoundedQuotient(a, n) = IF 2 * r < n \/ (2 * r = n /\ q % 2 = 0) THEN q ELSE q + 1
    BY DEF RoundedQuotient
  <1> HIDE DEF q, r
  <1> QED BY <1>1, <1>2

\* A rounded quotient is an integer.
LEMMA QuotientIsInt ==
    ASSUME NEW a \in Int, NEW n \in Nat \ {0}
    PROVE  RoundedQuotient(a, n) \in Int
  BY QuotientParts

\* Rounding does not leave the range of a score.
LEMMA QuotientIsScore ==
    ASSUME NEW a \in Nat, NEW n \in Nat \ {0}, a <= 100 * n
    PROVE  RoundedQuotient(a, n) \in Score
  <1>1. PICK q \in Int, r \in 0..(n - 1) :
            /\ a = n * q + r
            /\ RoundedQuotient(a, n) = IF 2 * r < n \/ (2 * r = n /\ q % 2 = 0)
                                       THEN q ELSE q + 1
    BY QuotientParts
  <1>2. q >= 0
    <2> SUFFICES ASSUME q <= -1 PROVE FALSE
      OBVIOUS
    <2>1. n * q <= n * (-1)
      OBVIOUS
    <2> QED BY <1>1, <2>1
  <1>3. q <= 100
    <2> SUFFICES ASSUME q >= 101 PROVE FALSE
      OBVIOUS
    <2>1. n * q >= n * 101
      OBVIOUS
    <2> QED BY <1>1, <2>1
  <1>4. q = 100 => 2 * r < n
    BY <1>1
  <1> QED BY <1>1, <1>2, <1>3, <1>4 DEF Score

\* The whole is 100.
LEMMA QuotientOfWhole ==
    ASSUME NEW n \in Nat \ {0}
    PROVE  RoundedQuotient(100 * n, n) = 100
  <1>1. 100 * n \in Int
    OBVIOUS
  <1>2. PICK q \in Int, r \in 0..(n - 1) :
            /\ 100 * n = n * q + r
            /\ RoundedQuotient(100 * n, n) = IF 2 * r < n \/ (2 * r = n /\ q % 2 = 0)
                                             THEN q ELSE q + 1
    BY <1>1, QuotientParts
  <1>3. ~(q >= 101)
    <2> SUFFICES ASSUME q >= 101 PROVE FALSE
      OBVIOUS
    <2>1. n * q >= n * 101
      OBVIOUS
    <2> QED BY <1>2, <2>1
  <1>4. ~(q <= 99)
    <2> SUFFICES ASSUME q <= 99 PROVE FALSE
      OBVIOUS
    <2>1. n * q <= n * 99
      OBVIOUS
    <2> QED BY <1>2, <2>1
  <1>5. q = 100
    BY <1>3, <1>4
  <1>6. r = 0
    BY <1>2, <1>5
  <1> QED BY <1>2, <1>5, <1>6

\* What is clamped is a score.
LEMMA ClampIsScore ==
    ASSUME NEW n \in Int PROVE Clamp(n) \in Score
  BY DEF Clamp, Score

\* A sum of scores is at most 100 for each of them.
LEMMA SumOfScores ==
    ASSUME NEW f, NEW N \in Nat, NEW T, \A i \in T : i \in 1..N,
           \A k \in 1..N : f[k] \in Nat /\ f[k] <= IF k \in T THEN 100 ELSE 0
    PROVE  IsFiniteSet(T) /\ SumTo(f, N) \in Nat /\ SumTo(f, N) <= 100 * Cardinality(T)
  <1> DEFINE upTo(k) == {i \in T : i <= k}
             S == {k \in Nat : k <= N => /\ IsFiniteSet(upTo(k))
                                         /\ SumTo(f, k) \in Nat
                                         /\ SumTo(f, k) <= 100 * Cardinality(upTo(k))}
  <1>1. /\ SumTo(f, 0) = 0
        /\ \A k \in 1..N : SumTo(f, k) = SumTo(f, k - 1) + f[k]
    <2>1. \A k \in 1..N : f[k] \in Int
      OBVIOUS
    <2> QED BY <2>1, SumStep
  <1>a. \A i \in T : i \in Nat /\ 1 <= i /\ i <= N
    OBVIOUS
  <1>2. 0 \in S
    <2>1. upTo(0) = {}
      BY <1>a
    <2> QED BY <1>1, <2>1, FS_EmptySet
  <1>3. ASSUME NEW k \in Nat, k \in S PROVE k + 1 \in S
    <2> DEFINE before == upTo(k)
               after == upTo(k + 1)
    <2> SUFFICES ASSUME k + 1 <= N
                 PROVE  /\ IsFiniteSet(after)
                        /\ SumTo(f, k + 1) \in Nat
                        /\ SumTo(f, k + 1) <= 100 * Cardinality(after)
      OBVIOUS
    <2>1. k + 1 \in 1..N /\ (k + 1) - 1 = k /\ k <= N
      OBVIOUS
    <2>2. SumTo(f, k + 1) = SumTo(f, k) + f[k + 1]
      BY <1>1, <2>1
    <2>3. IsFiniteSet(before) /\ SumTo(f, k) \in Nat /\ SumTo(f, k) <= 100 * Cardinality(before)
      BY <1>3, <2>1
    <2>4. Cardinality(before) \in Nat
      BY <2>3, FS_CardinalityType
    <2>5. CASE k + 1 \in T
      <3>1. after = before \cup {k + 1} /\ k + 1 \notin before
        <4>1. \A i \in T : i <= k + 1 <=> i <= k \/ i = k + 1
          BY <1>a
        <4> QED BY <2>5, <4>1
      <3>2. f[k + 1] \in Nat /\ f[k + 1] <= 100
        BY <2>1, <2>5
      <3> HIDE DEF before, after
      <3>3. IsFiniteSet(after) /\ Cardinality(after) = Cardinality(before) + 1
        BY <2>3, <3>1, FS_AddElement
      <3> QED BY <2>2, <2>3, <2>4, <3>2, <3>3
    <2>6. CASE k + 1 \notin T
      <3>1. after = before
        <4>1. \A i \in T : i <= k + 1 <=> i <= k
          BY <1>a, <2>6
        <4> QED BY <4>1
      <3>2. f[k + 1] = 0
        BY <2>1, <2>6
      <3> HIDE DEF before, after
      <3> QED BY <2>2, <2>3, <2>4, <3>1, <3>2
    <2> QED BY <2>5, <2>6
  <1>4. \A k \in Nat : k \in S
    <2> HIDE DEF S
    <2> QED BY <1>2, <1>3, AllNaturals
  <1>5. N \in S
    BY <1>4
  <1>6. upTo(N) = T
    BY <1>a
  <1>7. IsFiniteSet(upTo(N)) /\ SumTo(f, N) \in Nat /\ SumTo(f, N) <= 100 * Cardinality(upTo(N))
    BY <1>5
  <1> HIDE DEF upTo
  <1> QED BY <1>6, <1>7

\* A mean of scores is a score.
LEMMA MeanIsScore ==
    ASSUME NEW n \in Nat, NEW values, DOMAIN values = 1..n, Len(values) = n,
           \A i \in 1..n : values[i] \in Score \cup {None}
    PROVE  MeanScore(values) \in Score \cup {None}
  <1> DEFINE nums == {i \in DOMAIN values : values[i] # None}
             f == [i \in DOMAIN values |-> IF i \in nums THEN values[i] ELSE 0]
  <1>1. \A i \in nums : i \in 1..n
    OBVIOUS
  <1>2. \A k \in 1..n : f[k] \in Nat /\ f[k] <= IF k \in nums THEN 100 ELSE 0
    <2> TAKE k \in 1..n
    <2>1. CASE k \in nums
      <3>1. f[k] = values[k] /\ values[k] \in Score
        BY <2>1
      <3>2. f[k] \in Nat /\ f[k] <= 100
        <4>1. \A v \in Score : v \in Nat /\ v <= 100
          BY DEF Score
        <4> HIDE DEF f, nums
        <4> QED BY <3>1, <4>1
      <3> HIDE DEF f, nums
      <3> QED BY <2>1, <3>2
    <2>2. CASE k \notin nums
      <3>1. f[k] = 0
        BY <2>2
      <3> QED BY <2>2, <3>1
    <2> QED BY <2>1, <2>2
  <1>3. IsFiniteSet(nums) /\ SumTo(f, n) \in Nat /\ SumTo(f, n) <= 100 * Cardinality(nums)
    <2> HIDE DEF f, nums
    <2> QED BY <1>1, <1>2, SumOfScores
  <1>4. CASE nums = {}
    BY <1>4 DEF MeanScore
  <1>5. CASE nums # {}
    <2>1. MeanScore(values) = RoundedQuotient(SumTo(f, n), Cardinality(nums))
      BY <1>5 DEF MeanScore
    <2> HIDE DEF nums, f
    <2>2. Cardinality(nums) \in Nat \ {0}
      BY <1>3, <1>5, FS_EmptySet, FS_CardinalityType
    <2>3. RoundedQuotient(SumTo(f, n), Cardinality(nums)) \in Score
      BY <1>3, <2>2, QuotientIsScore
    <2> QED BY <2>1, <2>3
  <1> QED BY <1>4, <1>5

-----------------------------------------------------------------------------
(* The rules of the structured data (rules.py), and the issues they raise. *)

\* The types that a rule may ask of a property.
Kinds == {"text", "url", "image", "datetime", "object", "array", "text_or_object"}

\* The names in the rules, and those of the marks that are no property.
Names ==
    {"name", "url", "logo", "contactPoint"}
    \cup {"image", "offers", "description", "brand"}
    \cup {"price", "priceCurrency", "availability", "headline"}
    \cup {"author", "datePublished", "publisher", "dateModified"}
    \cup {"itemListElement", "position", "item", "mainEntity"}
    \cup {"acceptedAnswer", "acceptedAnswer.text", "address", "telephone"}
    \cup {"openingHours", "priceRange", "geo", "startDate"}
    \cup {"location", "endDate", "itemReviewed", "reviewRating"}
    \cup {"reviewBody", "ratingValue", "@type", ""}

\* A rule is about known names and types, and what makes a rich result is asked for.
RuleIsSound(rule) ==
    /\ rule.required \cup rule.recommended \cup DOMAIN rule.types
           \cup rule.list_item_required \cup rule.object_recommended
           \cup {rule.list_property} \subseteq Names
    /\ \A p \in DOMAIN rule.types : rule.types[p] \in Kinds
    /\ rule.rich_result_required \subseteq rule.required \cup rule.recommended

\* A function made of pairs takes its values from them.
LEMMA TypesOfPairs ==
    ASSUME NEW pairs
    PROVE  /\ DOMAIN TypesOf(pairs) = {pair[1] : pair \in pairs}
           /\ \A p \in DOMAIN TypesOf(pairs) : TypesOf(pairs)[p] \in {pair[2] : pair \in pairs}
  <1>1. DOMAIN TypesOf(pairs) = {pair[1] : pair \in pairs}
    BY DEF TypesOf
  <1>2. ASSUME NEW p \in DOMAIN TypesOf(pairs)
        PROVE  TypesOf(pairs)[p] \in {pair[2] : pair \in pairs}
    <2>1. \E pair \in pairs : pair[1] = p
      BY <1>1, <1>2
    <2> DEFINE chosen == CHOOSE pair \in pairs : pair[1] = p
    <2>2. chosen \in pairs
      BY <2>1
    <2>3. TypesOf(pairs)[p] = chosen[2]
      BY <1>1, <1>2 DEF TypesOf
    <2> HIDE DEF chosen
    <2> QED BY <2>2, <2>3
  <1> QED BY <1>1, <1>2

\* The rules name finitely many properties.
LEMMA NamesAreFinite == IsFiniteSet(Names)
  <1>1. ASSUME NEW a, NEW b, NEW c, NEW d PROVE IsFiniteSet({a, b, c, d})
    <2>1. IsFiniteSet({a}) /\ IsFiniteSet({b}) /\ IsFiniteSet({c}) /\ IsFiniteSet({d})
      BY FS_Singleton
    <2>2. IsFiniteSet(({a} \cup {b}) \cup ({c} \cup {d}))
      BY <2>1, FS_Union
    <2>3. ({a} \cup {b}) \cup ({c} \cup {d}) = {a, b, c, d}
      OBVIOUS
    <2> QED BY <2>2, <2>3
  <1>2. IsFiniteSet({"name", "url", "logo", "contactPoint"})
    BY <1>1
  <1>3. IsFiniteSet({"image", "offers", "description", "brand"})
    BY <1>1
  <1>4. IsFiniteSet({"price", "priceCurrency", "availability", "headline"})
    BY <1>1
  <1>5. IsFiniteSet({"author", "datePublished", "publisher", "dateModified"})
    BY <1>1
  <1>6. IsFiniteSet({"itemListElement", "position", "item", "mainEntity"})
    BY <1>1
  <1>7. IsFiniteSet({"acceptedAnswer", "acceptedAnswer.text", "address", "telephone"})
    BY <1>1
  <1>8. IsFiniteSet({"openingHours", "priceRange", "geo", "startDate"})
    BY <1>1
  <1>9. IsFiniteSet({"location", "endDate", "itemReviewed", "reviewRating"})
    BY <1>1
  <1>10. IsFiniteSet({"reviewBody", "ratingValue", "@type", ""})
    BY <1>1
  <1> QED BY <1>2, <1>3, <1>4, <1>5, <1>6, <1>7, <1>8, <1>9, <1>10, FS_Union DEF Names

\* A rule of which all parts are written out.
LEMMA RuleOfParts ==
    ASSUME NEW rule, NEW pairs, rule.types = TypesOf(pairs),
           {pair[2] : pair \in pairs} \subseteq Kinds,
           {pair[1] : pair \in pairs} \subseteq Names,
           rule.required \subseteq Names, rule.recommended \subseteq Names,
           rule.list_item_required \subseteq Names, rule.object_recommended \subseteq Names,
           rule.list_property \in Names,
           rule.rich_result_required \subseteq rule.required \cup rule.recommended
    PROVE  RuleIsSound(rule)
  <1>1. /\ DOMAIN rule.types = {pair[1] : pair \in pairs}
        /\ \A p \in DOMAIN rule.types : rule.types[p] \in {pair[2] : pair \in pairs}
    BY TypesOfPairs
  <1> QED BY <1>1 DEF RuleIsSound

\* What the registry holds, type by type.
LEMMA RulesAreSound == \A type \in SupportedTypes : RuleIsSound(Rule(type))
  <1>1. RuleIsSound(OrganizationRule)
    <2> DEFINE pairs == {<<"url", "url">>, <<"logo", "image">>}
    <2>1. /\ {pair[1] : pair \in pairs} = {"url", "logo"}
          /\ {pair[2] : pair \in pairs} \subseteq Kinds
      BY DEF Kinds
    <2>2. /\ OrganizationRule.types = TypesOf(pairs)
          /\ OrganizationRule.required = {"name", "url"}
          /\ OrganizationRule.recommended = {"logo", "contactPoint"}
          /\ OrganizationRule.list_item_required = {} /\ OrganizationRule.object_recommended = {}
          /\ OrganizationRule.rich_result_required = {"name", "url", "logo"}
          /\ OrganizationRule.list_property = ""
      BY DEF OrganizationRule, NoRule
    <2>3. OrganizationRule.rich_result_required
              \subseteq OrganizationRule.required \cup OrganizationRule.recommended
      BY <2>2
    <2> HIDE DEF pairs
    <2>4. /\ {pair[1] : pair \in pairs} \subseteq Names
          /\ OrganizationRule.required \subseteq Names /\ OrganizationRule.recommended \subseteq Names
          /\ OrganizationRule.list_item_required \subseteq Names
          /\ OrganizationRule.object_recommended \subseteq Names
          /\ OrganizationRule.list_property \in Names
      BY <2>1, <2>2 DEF Names
    <2> QED BY <2>1, <2>2, <2>3, <2>4, RuleOfParts
  <1>2. RuleIsSound(ProductRule)
    <2> DEFINE pairs == {<<"image", "image">>, <<"offers", "object">>}
    <2>1. /\ {pair[1] : pair \in pairs} = {"image", "offers"}
          /\ {pair[2] : pair \in pairs} \subseteq Kinds
      BY DEF Kinds
    <2>2. /\ ProductRule.types = TypesOf(pairs)
          /\ ProductRule.required = {"name", "image"}
          /\ ProductRule.recommended = {"offers", "description", "brand"}
          /\ ProductRule.list_item_required = {}
          /\ ProductRule.object_recommended = {"price", "priceCurrency", "availability"}
          /\ ProductRule.rich_result_required = {"name", "image", "offers"}
          /\ ProductRule.list_property = ""
      BY DEF ProductRule, NoRule
    <2>3. ProductRule.rich_result_required
              \subseteq ProductRule.required \cup ProductRule.recommended
      BY <2>2
    <2> HIDE DEF pairs
    <2>4. /\ {pair[1] : pair \in pairs} \subseteq Names
          /\ ProductRule.required \subseteq Names /\ ProductRule.recommended \subseteq Names
          /\ ProductRule.list_item_required \subseteq Names
          /\ ProductRule.object_recommended \subseteq Names
          /\ ProductRule.list_property \in Names
      BY <2>1, <2>2 DEF Names
    <2> QED BY <2>1, <2>2, <2>3, <2>4, RuleOfParts
  <1>3. RuleIsSound(ArticleRule)
    <2> DEFINE pairs == {<<"headline", "text">>, <<"datePublished", "datetime">>,
                         <<"image", "image">>, <<"author", "text_or_object">>}
    <2>1. /\ {pair[1] : pair \in pairs} = {"headline", "datePublished", "image", "author"}
          /\ {pair[2] : pair \in pairs} \subseteq Kinds
      BY DEF Kinds
    <2>2. /\ ArticleRule.types = TypesOf(pairs)
          /\ ArticleRule.required = {"headline", "author", "datePublished", "image"}
          /\ ArticleRule.recommended = {"publisher", "dateModified"}
          /\ ArticleRule.list_item_required = {} /\ ArticleRule.object_recommended = {}
          /\ ArticleRule.rich_result_required = {"headline", "image", "datePublished", "author"}
          /\ ArticleRule.list_property = ""
      BY DEF ArticleRule, NoRule
    <2>3. ArticleRule.rich_result_required
              \subseteq ArticleRule.required \cup ArticleRule.recommended
      BY <2>2
    <2> HIDE DEF pairs
    <2>4. /\ {pair[1] : pair \in pairs} \subseteq Names
          /\ ArticleRule.required \subseteq Names /\ ArticleRule.recommended \subseteq Names
          /\ ArticleRule.list_item_required \subseteq Names
          /\ ArticleRule.object_recommended \subseteq Names
          /\ ArticleRule.list_property \in Names
      BY <2>1, <2>2 DEF Names
    <2> QED BY <2>1, <2>2, <2>3, <2>4, RuleOfParts
  <1>4. RuleIsSound(BreadcrumbListRule)
    <2> DEFINE pairs == {<<"itemListElement", "array">>}
    <2>1. /\ {pair[1] : pair \in pairs} = {"itemListElement"}
          /\ {pair[2] : pair \in pairs} \subseteq Kinds
      BY DEF Kinds
    <2>2. /\ BreadcrumbListRule.types = TypesOf(pairs)
          /\ BreadcrumbListRule.required = {"itemListElement"}
          /\ BreadcrumbListRule.recommended = {}
          /\ BreadcrumbListRule.list_item_required = {"position", "name", "item"}
          /\ BreadcrumbListRule.object_recommended = {}
          /\ BreadcrumbListRule.rich_result_required = {"itemListElement"}
          /\ BreadcrumbListRule.list_property = "itemListElement"
      BY DEF BreadcrumbListRule, NoRule
    <2>3. BreadcrumbListRule.rich_result_required
              \subseteq BreadcrumbListRule.required \cup BreadcrumbListRule.recommended
      BY <2>2
    <2> HIDE DEF pairs
    <2>4. /\ {pair[1] : pair \in pairs} \subseteq Names
          /\ BreadcrumbListRule.required \subseteq Names /\ BreadcrumbListRule.recommended \subseteq Names
          /\ BreadcrumbListRule.list_item_required \subseteq Names
          /\ BreadcrumbListRule.object_recommended \subseteq Names
          /\ BreadcrumbListRule.list_property \in Names
      BY <2>1, <2>2 DEF Names
    <2> QED BY <2>1, <2>2, <2>3, <2>4, RuleOfParts
  <1>5. RuleIsSound(FAQPageRule)
    <2> DEFINE pairs == {<<"mainEntity", "array">>}
    <2>1. /\ {pair[1] : pair \in pairs} = {"mainEntity"}
          /\ {pair[2] : pair \in pairs} \subseteq Kinds
      BY DEF Kinds
    <2>2. /\ FAQPageRule.types = TypesOf(pairs)
          /\ FAQPageRule.required = {"mainEntity"} /\ FAQPageRule.recommended = {}
          /\ FAQPageRule.list_item_required = {"name", "acceptedAnswer", "acceptedAnswer.text"}
          /\ FAQPageRule.object_recommended = {}
          /\ FAQPageRule.rich_result_required = {"mainEntity"}
          /\ FAQPageRule.list_property = "mainEntity"
      BY DEF FAQPageRule, NoRule
    <2>3. FAQPageRule.rich_result_required
              \subseteq FAQPageRule.required \cup FAQPageRule.recommended
      BY <2>2
    <2> HIDE DEF pairs
    <2>4. /\ {pair[1] : pair \in pairs} \subseteq Names
          /\ FAQPageRule.required \subseteq Names /\ FAQPageRule.recommended \subseteq Names
          /\ FAQPageRule.list_item_required \subseteq Names
          /\ FAQPageRule.object_recommended \subseteq Names
          /\ FAQPageRule.list_property \in Names
      BY <2>1, <2>2 DEF Names
    <2> QED BY <2>1, <2>2, <2>3, <2>4, RuleOfParts
  <1>6. RuleIsSound(LocalBusinessRule)
    <2> DEFINE pairs == {<<"address", "text_or_object">>, <<"telephone", "text">>}
    <2>1. /\ {pair[1] : pair \in pairs} = {"address", "telephone"}
          /\ {pair[2] : pair \in pairs} \subseteq Kinds
      BY DEF Kinds
    <2>2. /\ LocalBusinessRule.types = TypesOf(pairs)
          /\ LocalBusinessRule.required = {"name", "address", "telephone"}
          /\ LocalBusinessRule.recommended = {"openingHours", "priceRange", "geo"}
          /\ LocalBusinessRule.list_item_required = {}
          /\ LocalBusinessRule.object_recommended = {}
          /\ LocalBusinessRule.rich_result_required = {"name", "address", "telephone"}
          /\ LocalBusinessRule.list_property = ""
      BY DEF LocalBusinessRule, NoRule
    <2>3. LocalBusinessRule.rich_result_required
              \subseteq LocalBusinessRule.required \cup LocalBusinessRule.recommended
      BY <2>2
    <2> HIDE DEF pairs
    <2>4. /\ {pair[1] : pair \in pairs} \subseteq Names
          /\ LocalBusinessRule.required \subseteq Names /\ LocalBusinessRule.recommended \subseteq Names
          /\ LocalBusinessRule.list_item_required \subseteq Names
          /\ LocalBusinessRule.object_recommended \subseteq Names
          /\ LocalBusinessRule.list_property \in Names
      BY <2>1, <2>2 DEF Names
    <2> QED BY <2>1, <2>2, <2>3, <2>4, RuleOfParts
  <1>7. RuleIsSound(EventRule)
    <2> DEFINE pairs == {<<"startDate", "datetime">>, <<"location", "text_or_object">>}
    <2>1. /\ {pair[1] : pair \in pairs} = {"startDate", "location"}
          /\ {pair[2] : pair \in pairs} \subseteq Kinds
      BY DEF Kinds
    <2>2. /\ EventRule.types = TypesOf(pairs)
          /\ EventRule.required = {"name", "startDate", "location"}
          /\ EventRule.recommended = {"endDate", "offers", "description"}
          /\ EventRule.list_item_required = {} /\ EventRule.object_recommended = {}
          /\ EventRule.rich_result_required = {"name", "startDate", "location"}
          /\ EventRule.list_property = ""
      BY DEF EventRule, NoRule
    <2>3. EventRule.rich_result_required \subseteq EventRule.required \cup EventRule.recommended
      BY <2>2
    <2> HIDE DEF pairs
    <2>4. /\ {pair[1] : pair \in pairs} \subseteq Names
          /\ EventRule.required \subseteq Names /\ EventRule.recommended \subseteq Names
          /\ EventRule.list_item_required \subseteq Names
          /\ EventRule.object_recommended \subseteq Names
          /\ EventRule.list_property \in Names
      BY <2>1, <2>2 DEF Names
    <2> QED BY <2>1, <2>2, <2>3, <2>4, RuleOfParts
  <1>8. RuleIsSound(ReviewRule)
    <2> DEFINE pairs == {<<"reviewRating", "object">>, <<"author", "text_or_object">>}
    <2>1. /\ {pair[1] : pair \in pairs} = {"reviewRating", "author"}
          /\ {pair[2] : pair \in pairs} \subseteq Kinds
      BY DEF Kinds
    <2>2. /\ ReviewRule.types = TypesOf(pairs)
          /\ ReviewRule.required = {"itemReviewed", "reviewRating", "author"}
          /\ ReviewRule.recommended = {"reviewBody", "datePublished"}
          /\ ReviewRule.list_item_required = {} /\ ReviewRule.object_recommended = {"ratingValue"}
          /\ ReviewRule.rich_result_required = {"itemReviewed", "reviewRating", "author"}
          /\ ReviewRule.list_property = ""
      BY DEF ReviewRule, NoRule
    <2>3. ReviewRule.rich_result_required \subseteq ReviewRule.required \cup ReviewRule.recommended
      BY <2>2
    <2> HIDE DEF pairs
    <2>4. /\ {pair[1] : pair \in pairs} \subseteq Names
          /\ ReviewRule.required \subseteq Names /\ ReviewRule.recommended \subseteq Names
          /\ ReviewRule.list_item_required \subseteq Names
          /\ ReviewRule.object_recommended \subseteq Names
          /\ ReviewRule.list_property \in Names
      BY <2>1, <2>2 DEF Names
    <2> QED BY <2>1, <2>2, <2>3, <2>4, RuleOfParts
  <1> QED BY <1>1, <1>2, <1>3, <1>4, <1>5, <1>6, <1>7, <1>8 DEF SupportedTypes, Rule

\* The entries of a value are a sequence.
FewEntries(v) == \E n \in Nat : DOMAIN v.of = 1..n

\* An object of a known type, or of none, with values as the page may hold them.
IsObject(o) ==
    /\ o.type \in SupportedTypes \cup {"", "Unlisted"}
    /\ \A p \in DOMAIN o.props : FewEntries(o.props[p])

\* How bad an issue may be.
Severities == {"error", "warning", "info"}

\* The entries of a property that is there.
EntriesOf(o, p) == IF p \notin DOMAIN o.props THEN {} ELSE DOMAIN o.props[p].of

\* An issue has a severity, a name of the rules, and a place in the object.
LEMMA IssueForms ==
    ASSUME NEW o, IsObject(o)
    PROVE  LET rule == Rule(o.type)
               places == {0} \cup EntriesOf(o, rule.list_property)
                            \cup EntriesOf(o, rule.object_property)
           IN  \A i \in ValidateSchema(o).issues :
                  \E s \in Severities, f \in Names, k \in places : i = Issue(s, f, k)
  <1> DEFINE rule == Rule(o.type)
             places == {0} \cup EntriesOf(o, rule.list_property)
                          \cup EntriesOf(o, rule.object_property)
             Fits(i) == \E s \in Severities, f \in Names, k \in places : i = Issue(s, f, k)
  <1> SUFFICES ASSUME NEW i \in ValidateSchema(o).issues
               PROVE  Fits(i)
    OBVIOUS
  <1>1. 0 \in places /\ "@type" \in Names /\ {"error", "warning", "info"} \subseteq Severities
    BY DEF Names, Severities
  <1> HIDE DEF places
  <1>2. CASE o.parse_error
    <2>1. ValidateSchema(o).issues = {Issue("error", "@type", 0)}
      BY <1>2 DEF ValidateSchema, Result
    <2> QED BY <1>1, <2>1
  <1>3. CASE ~o.parse_error /\ o.type = ""
    <2>1. ValidateSchema(o).issues = {Issue("error", "@type", 0)}
      BY <1>3 DEF ValidateSchema, Result
    <2> QED BY <1>1, <2>1
  <1>4. CASE ~o.parse_error /\ o.type = "Unlisted"
    <2>1. ValidateSchema(o).issues = {Issue("info", "@type", 0)}
      BY <1>4 DEF ValidateSchema, Result
    <2> QED BY <1>1, <2>1
  <1>5. CASE ~o.parse_error /\ o.type \in SupportedTypes
    <2>1. o.type # "" /\ o.type # "Unlisted"
      BY <1>5 DEF SupportedTypes
    <2>2. ValidateSchema(o).issues =
             PropertyIssues(rule, o) \cup ListIssues(rule, o) \cup ObjectIssues(rule, o)
      BY <1>5, <2>1 DEF ValidateSchema, Result
    <2>3. RuleIsSound(rule)
      BY <1>5, RulesAreSound
    <2>4. EntriesOf(o, rule.list_property) \cup EntriesOf(o, rule.object_property) \subseteq places
      BY DEF places
    <2> HIDE DEF rule
    <2>5. CASE i \in PropertyIssues(rule, o)
      <3>1. \/ \E p \in rule.required : i = Issue("error", p, 0)
            \/ \E p \in rule.recommended : i = Issue("warning", p, 0)
            \/ \E p \in DOMAIN rule.types : i = Issue("error", p, 0)
        BY <2>5 DEF PropertyIssues
      <3>2. rule.required \cup rule.recommended \cup DOMAIN rule.types \subseteq Names
        BY <2>3 DEF RuleIsSound
      <3> QED BY <1>1, <3>1, <3>2
    <2>6. CASE i \in ListIssues(rule, o)
      <3> DEFINE prop == rule.list_property
                 entries == IF IsMissing(o, prop) \/ o.props[prop].is # "list"
                            THEN <<>> ELSE o.props[prop].of
      <3>1. DOMAIN entries \subseteq EntriesOf(o, prop)
        BY DEF EntriesOf, IsMissing
      <3>2. \E k \in DOMAIN entries :
               \/ i = Issue("error", prop, k)
               \/ i = Issue("warning", "@type", k)
               \/ \E f \in rule.list_item_required : i = Issue("error", f, k)
        <4> HIDE DEF entries
        <4>1. ListIssues(rule, o) =
                 {Issue("error", prop, k) :
                     k \in DOMAIN entries \ {m \in DOMAIN entries : entries[m].is = "dict"}}
                 \cup {Issue("warning", "@type", k) :
                          k \in {m \in {m \in DOMAIN entries : entries[m].is = "dict"} :
                                    /\ rule.list_item_type # ""
                                    /\ entries[m].type \notin {"", rule.list_item_type}}}
                 \cup UNION {{Issue("error", f, k) :
                                 f \in rule.list_item_required \cap entries[k].lacks} :
                                k \in {m \in DOMAIN entries : entries[m].is = "dict"}}
          BY DEF ListIssues, entries
        <4> HIDE DEF prop
        <4> QED BY <2>6, <4>1
      <3>3. prop \in Names /\ rule.list_item_required \subseteq Names
        BY <2>3 DEF RuleIsSound
      <3> HIDE DEF prop, entries
      <3>4. DOMAIN entries \subseteq places
        BY <2>4, <3>1 DEF prop
      <3> QED BY <1>1, <3>2, <3>3, <3>4
    <2>7. CASE i \in ObjectIssues(rule, o)
      <3> DEFINE prop == rule.object_property
                 candidates == IF prop \notin DOMAIN o.props THEN <<>> ELSE o.props[prop].of
      <3>1. DOMAIN candidates \subseteq EntriesOf(o, prop)
        BY DEF EntriesOf
      <3>2. \E k \in DOMAIN candidates, f \in rule.object_recommended : i = Issue("warning", f, k)
        <4> HIDE DEF candidates
        <4>1. ObjectIssues(rule, o) =
                 UNION {{Issue("warning", f, k) :
                            f \in rule.object_recommended \cap candidates[k].lacks} :
                           k \in {m \in DOMAIN candidates : candidates[m].is = "dict"}}
          BY DEF ObjectIssues, candidates
        <4> HIDE DEF prop
        <4> QED BY <2>7, <4>1
      <3>3. rule.object_recommended \subseteq Names
        BY <2>3 DEF RuleIsSound
      <3> HIDE DEF prop, candidates
      <3>4. DOMAIN candidates \subseteq places
        BY <2>4, <3>1 DEF prop
      <3> QED BY <1>1, <3>2, <3>3, <3>4
    <2> QED BY <2>2, <2>5, <2>6, <2>7
  <1> QED BY <1>2, <1>3, <1>4, <1>5 DEF IsObject

\* The counts of errors and warnings are numbers.
LEMMA IssuesAreFinite ==
    ASSUME NEW o, IsObject(o)
    PROVE  IsFiniteSet(ValidateSchema(o).issues)
  <1> DEFINE rule == Rule(o.type)
             places == {0} \cup EntriesOf(o, rule.list_property)
                          \cup EntriesOf(o, rule.object_property)
             issues == ValidateSchema(o).issues
             triples == Severities \X (Names \X places)
             f == [i \in issues |-> <<i.severity, <<i.field, i.index>>>>]
  <1>1. \A i \in issues : \E s \in Severities, n \in Names, k \in places : i = Issue(s, n, k)
    BY IssueForms
  <1>2. IsFiniteSet(triples)
    <2>1. \A p : IsFiniteSet(EntriesOf(o, p))
      <3> TAKE p
      <3>1. CASE p \notin DOMAIN o.props
        BY <3>1, FS_EmptySet DEF EntriesOf
      <3>2. CASE p \in DOMAIN o.props
        <4>1. p \in DOMAIN o.props /\ EntriesOf(o, p) = DOMAIN o.props[p].of
          BY <3>2 DEF EntriesOf
        <4>2. PICK n \in Nat : EntriesOf(o, p) = 1..n
          BY <4>1 DEF IsObject, FewEntries
        <4>3. IsFiniteSet(1..n)
          BY FS_Interval
        <4> QED BY <4>2, <4>3, Zenon
      <3> QED BY <3>1, <3>2
    <2>2. IsFiniteSet({0})
      BY FS_Singleton
    <2>3. IsFiniteSet({0} \cup EntriesOf(o, rule.list_property))
      BY <2>1, <2>2, FS_Union
    <2>4. IsFiniteSet(places)
      BY <2>1, <2>3, FS_Union
    <2>5. IsFiniteSet(Names)
      BY NamesAreFinite
    <2>6. IsFiniteSet(Severities)
      <3>1. Severities = {"error"} \cup ({"warning"} \cup {"info"})
        BY DEF Severities
      <3>2. IsFiniteSet({"error"}) /\ IsFiniteSet({"warning"}) /\ IsFiniteSet({"info"})
        BY FS_Singleton
      <3>3. IsFiniteSet({"warning"} \cup {"info"})
        BY <3>2, FS_Union
      <3> QED BY <3>1, <3>2, <3>3, FS_Union
    <2> HIDE DEF places
    <2>7. IsFiniteSet(Names \X places)
      BY <2>4, <2>5, FS_Product
    <2> QED BY <2>6, <2>7, FS_Product
  <1> HIDE DEF places, issues
  <1>3. f \in [issues -> triples]
    BY <1>1 DEF Issue
  <1>4. \A a, b \in issues : f[a] = f[b] => a = b
    BY <1>1 DEF Issue
  <1>5. f \in Injection(issues, triples)
    <2> HIDE DEF f, triples
    <2> QED BY <1>3, <1>4 DEF Injection, IsInjective
  <1> HIDE DEF f, triples
  <1>6. IsFiniteSet(issues)
    BY <1>2, <1>5, FS_Injection
  <1> QED BY <1>6 DEF issues

\* An object is invalid when an error says so.
LEMMA InvalidHasError ==
    ASSUME NEW o, IsObject(o)
    PROVE  /\ ValidateSchema(o).is_valid \in BOOLEAN
           /\ ValidateSchema(o).is_valid <=> \A i \in ValidateSchema(o).issues : i.severity # "error"
  <1>1. CASE o.parse_error \/ (~o.parse_error /\ o.type = "")
    BY <1>1 DEF ValidateSchema, Result, Issue
  <1>2. CASE ~o.parse_error /\ o.type = "Unlisted"
    <2>1. ~(o.type = "")
      BY <1>2
    <2>2. /\ ValidateSchema(o).is_valid = TRUE
          /\ ValidateSchema(o).issues = {Issue("info", "@type", 0)}
      BY <1>2, <2>1 DEF ValidateSchema, Result
    <2>3. \A i \in ValidateSchema(o).issues : i.severity # "error"
      <3>1. Issue("info", "@type", 0).severity = "info"
        BY DEF Issue
      <3> QED BY <2>2, <3>1
    <2> QED BY <2>2, <2>3, Zenon
  <1>3. CASE ~o.parse_error /\ o.type # "" /\ o.type # "Unlisted"
    BY <1>3 DEF ValidateSchema, Result
  <1> QED BY <1>1, <1>2, <1>3

\* What a rich result lacks is an error or a warning.
LEMMA IneligibleHasIssue ==
    ASSUME NEW o, IsObject(o)
    PROVE  IneligibleIsExplained(o)
  <1> DEFINE result == ValidateSchema(o)
             rule == Rule(o.type)
  <1> SUFFICES ASSUME ~result.rich, o.type \in SupportedTypes
               PROVE  \E i \in result.issues : i.severity \in {"error", "warning"}
    BY DEF IneligibleIsExplained
  <1>1. CASE ~result.is_valid
    BY <1>1, InvalidHasError
  <1>2. CASE result.is_valid
    <2>1. ~o.parse_error /\ o.type # "" /\ o.type # "Unlisted"
      <3>1. o.type # "" /\ o.type # "Unlisted"
        BY DEF SupportedTypes
      <3>2. ~o.parse_error
        BY <1>2 DEF ValidateSchema, Result
      <3> QED BY <3>1, <3>2
    <2>2. /\ PropertyIssues(rule, o) \subseteq result.issues
          /\ result.rich <=> result.is_valid /\ \A p \in rule.rich_result_required : ~IsMissing(o, p)
      BY <2>1 DEF ValidateSchema, Result
    <2>3. PICK p \in rule.rich_result_required : IsMissing(o, p)
      BY <1>2, <2>2
    <2>4. p \in rule.required \cup rule.recommended
      BY <2>3, RulesAreSound DEF RuleIsSound
    <2> HIDE DEF rule, result
    <2>5. Issue("error", p, 0) \in result.issues \/ Issue("warning", p, 0) \in result.issues
      BY <2>2, <2>3, <2>4 DEF PropertyIssues
    <2>6. Issue("error", p, 0).severity = "error" /\ Issue("warning", p, 0).severity = "warning"
      BY DEF Issue
    <2> QED BY <2>5, <2>6
  <1> QED BY <1>1, <1>2

\* The counts of a validation: every object is valid when there is no error.
LEMMA SchemaCounts ==
    ASSUME NEW q, NEW n \in Nat, DOMAIN q = 1..n, Len(q) = n,
           \A i \in 1..n : IsObject(q[i])
    PROVE  LET d == QuickSchemaCheck(q)
           IN  /\ d.total_schemas = n
               /\ d.valid_schemas \in Nat /\ d.valid_schemas <= n
               /\ d.total_errors \in Nat
               /\ d.valid_schemas < n <=> d.total_errors > 0
  <1> DEFINE verdicts == [i \in DOMAIN q |-> ValidateSchema(q[i])]
             errors(i) == {k \in verdicts[i].issues : k.severity = "error"}
             f == [i \in DOMAIN verdicts |-> Count(verdicts[i], "error")]
             valid == {i \in DOMAIN verdicts : verdicts[i].is_valid}
             d == QuickSchemaCheck(q)
  <1>1. /\ d.total_schemas = n
        /\ d.valid_schemas = Cardinality(valid)
        /\ d.total_errors = SumTo(f, n)
    BY DEF QuickSchemaCheck
  <1>2. \A i \in 1..n : /\ IsFiniteSet(verdicts[i].issues)
                        /\ verdicts[i].is_valid <=> errors(i) = {}
    <2> TAKE i \in 1..n
    <2>1. verdicts[i] = ValidateSchema(q[i]) /\ IsObject(q[i])
      OBVIOUS
    <2> HIDE DEF verdicts
    <2>2. IsFiniteSet(verdicts[i].issues)
      BY <2>1, IssuesAreFinite
    <2>3. verdicts[i].is_valid <=> \A k \in verdicts[i].issues : k.severity # "error"
      BY <2>1, InvalidHasError
    <2> QED BY <2>2, <2>3
  <1>3. \A i \in 1..n : f[i] \in Nat /\ (f[i] = 0 <=> verdicts[i].is_valid)
    <2> TAKE i \in 1..n
    <2>1. f[i] = Cardinality(errors(i))
      BY DEF Count
    <2>2. IsFiniteSet(errors(i))
      <3>1. errors(i) \in SUBSET verdicts[i].issues
        OBVIOUS
      <3> HIDE DEF errors, verdicts
      <3> QED BY <1>2, <3>1, FS_Subset
    <2>3. verdicts[i].is_valid <=> errors(i) = {}
      BY <1>2
    <2> HIDE DEF f, errors, verdicts
    <2> QED BY <2>1, <2>2, <2>3, FS_EmptySet, FS_CardinalityType
  <1>4. DOMAIN verdicts = 1..n
    OBVIOUS
  <1> HIDE DEF f, verdicts, d
  <1>5. SumTo(f, n) \in Nat /\ (SumTo(f, n) = 0 <=> \A i \in 1..n : f[i] = 0)
    BY <1>3, SumOfNaturals
  <1>6. IsFiniteSet(1..n) /\ Cardinality(1..n) = n
    BY FS_Interval
  <1>7. /\ IsFiniteSet(valid) /\ Cardinality(valid) <= n
        /\ Cardinality(valid) = n => valid = 1..n
    <2> DEFINE all == 1..n
    <2>1. valid \in SUBSET all
      BY <1>4
    <2>2. IsFiniteSet(all) /\ Cardinality(all) = n
      BY <1>6
    <2> HIDE DEF valid, all
    <2>3. /\ IsFiniteSet(valid) /\ Cardinality(valid) <= Cardinality(all)
          /\ Cardinality(all) = Cardinality(valid) => all = valid
      BY <2>1, <2>2, FS_Subset
    <2>4. Cardinality(valid) = n => valid = all
      BY <2>2, <2>3
    <2> QED BY <2>2, <2>3, <2>4 DEF all
  <1>8. valid = 1..n <=> \A i \in 1..n : f[i] = 0
    BY <1>3, <1>4
  <1> HIDE DEF valid
  <1>9. Cardinality(valid) \in Nat
    BY <1>7, FS_CardinalityType
  <1>10. Cardinality(valid) < n <=> SumTo(f, n) > 0
    <2>1. Cardinality(valid) = n <=> valid = 1..n
      BY <1>6, <1>7
    <2> QED BY <1>5, <1>7, <1>8, <1>9, <2>1
  <1> QED BY <1>1, <1>5, <1>7, <1>9, <1>10 DEF d

-----------------------------------------------------------------------------
(* The sites: what the tools may find.                                     *)

\* A value written out holds a sequence.
LEMMA ValueHasFewEntries ==
    /\ \A is : FewEntries(Value(is, <<>>))
    /\ \A is, a : FewEntries(Value(is, <<a>>))
    /\ \A is, a, b : FewEntries(Value(is, <<a, b>>))
  <1>1. ASSUME NEW is PROVE FewEntries(Value(is, <<>>))
    <2>1. DOMAIN Value(is, <<>>).of = 1..0
      BY DEF Value
    <2> QED BY <2>1 DEF FewEntries
  <1>2. ASSUME NEW is, NEW a PROVE FewEntries(Value(is, <<a>>))
    <2>1. DOMAIN Value(is, <<a>>).of = 1..1
      BY DEF Value
    <2> QED BY <2>1 DEF FewEntries
  <1>3. ASSUME NEW is, NEW a, NEW b PROVE FewEntries(Value(is, <<a, b>>))
    <2>1. DOMAIN Value(is, <<a, b>>).of = 1..2
      BY DEF Value
    <2> QED BY <2>1 DEF FewEntries
  <1> QED BY <1>1, <1>2, <1>3

\* So do the values that are varied,
LEMMA ValuesAreFew ==
    ASSUME NEW rule, NEW p, NEW v \in ValuesOf(rule, p)
    PROVE  FewEntries(v)
  <1>1. \/ v \in ListValues(rule) \/ v \in ObjectValues(rule) \/ v \in TypedValues
        \/ v \in {Value("absent", <<>>), Value("text", <<>>)}
    BY DEF ValuesOf
  <1>2. CASE v \in ListValues(rule)
    <2> DEFINE entries == [is : {"text", "dict"}, type : {"", "Question", "Answer"},
                           lacks : SUBSET rule.list_item_required]
    <2>1. v \in {Value("absent", <<>>), Value("dict", <<Whole>>)}
                   \cup {Value("list", <<e, Whole>>) : e \in entries}
      BY <1>2, Zenon DEF ListValues
    <2> HIDE DEF entries
    <2> QED BY <2>1, ValueHasFewEntries
  <1>3. CASE v \in ObjectValues(rule)
    <2>1. \/ v \in {Value("absent", <<>>), Value("text", <<>>),
                    Value("absent", <<Lacking(rule.object_recommended)>>)}
          \/ \E is \in {"dict", "list"}, l \in SUBSET rule.object_recommended :
                v = Value(is, <<Lacking(l)>>)
      BY <1>3 DEF ObjectValues
    <2> QED BY <2>1, ValueHasFewEntries
  <1>4. CASE v \in TypedValues
    BY <1>4, ValueHasFewEntries DEF TypedValues
  <1>5. CASE v \in {Value("absent", <<>>), Value("text", <<>>)}
    BY <1>5, ValueHasFewEntries
  <1> QED BY <1>1, <1>2, <1>3, <1>4, <1>5

\* and the good ones.
LEMMA GoodValuesAreFew ==
    ASSUME NEW rule, RuleIsSound(rule), NEW p
    PROVE  FewEntries(GoodValue(rule, p))
  <1>1. GoodValue(rule, p) \in {Value("text", <<>>), Value("url", <<>>), Value("date", <<>>),
                                Value("list", <<Whole>>), Value("dict", <<Whole>>)}
    <2>1. CASE p \notin DOMAIN rule.types
      BY <2>1 DEF GoodValue
    <2>2. CASE p \in DOMAIN rule.types
      <3>1. rule.types[p] \in Kinds
        BY <2>2 DEF RuleIsSound
      <3> QED BY <2>2, <3>1 DEF GoodValue, Kinds
    <2> QED BY <2>1, <2>2
  <1> QED BY <1>1, ValueHasFewEntries

\* The objects that are varied are objects.
LEMMA ObjectsAreFinite == \A o \in Objects \cup {SampleObject} : IsObject(o)
  <1>1. ASSUME NEW type \in SupportedTypes, NEW o \in ObjectsOf(type) PROVE IsObject(o)
    <2> DEFINE rule == Rule(type)
               good == [p \in PropsOf(rule) |-> GoodValue(rule, p)]
    <2>a. PICK p \in PropsOf(rule), q \in PropsOf(rule) :
             \E v \in ValuesOf(rule, p), w \in ValuesOf(rule, q) :
                o = Object(type, [good EXCEPT ![p] = v, ![q] = w])
      BY <1>1 DEF ObjectsOf
    <2>1. PICK v \in ValuesOf(rule, p), w \in ValuesOf(rule, q) :
             o = Object(type, [good EXCEPT ![p] = v, ![q] = w])
      BY <2>a
    <2>2. RuleIsSound(rule)
      BY RulesAreSound
    <2> HIDE DEF rule
    <2>3. \A k \in PropsOf(rule) : FewEntries(good[k])
      BY <2>2, GoodValuesAreFew
    <2>4. FewEntries(v) /\ FewEntries(w)
      BY ValuesAreFew
    <2>5. /\ DOMAIN o.props = PropsOf(rule)
          /\ \A k \in PropsOf(rule) : o.props[k] \in {good[k], v, w}
      BY <2>1 DEF Object
    <2>6. o.type = type
      BY <2>1 DEF Object
    <2>7. \A k \in DOMAIN o.props : FewEntries(o.props[k])
      <3> HIDE DEF good
      <3> QED BY <2>3, <2>4, <2>5
    <2> QED BY <2>6, <2>7 DEF IsObject
  <1>2. IsObject(Object("", <<>>)) /\ IsObject(Object("Unlisted", <<>>)) /\ IsObject(ParseError)
    <2>1. \A e, type : Object(type, e).type = type /\ Object(type, e).props = e
      BY DEF Object
    <2>2. \A e : [Object("", e) EXCEPT !.parse_error = TRUE].type = ""
                 /\ [Object("", e) EXCEPT !.parse_error = TRUE].props = e
      BY DEF Object
    <2>3. DOMAIN <<>> = {}
      OBVIOUS
    <2>4. ASSUME NEW o, NEW e, o.props = e, DOMAIN e = {}, o.type \in {"", "Unlisted"}
          PROVE  IsObject(o)
      BY <2>4, Zenon DEF IsObject
    <2>5. IsObject(Object("", <<>>)) /\ IsObject(Object("Unlisted", <<>>))
      BY <2>1, <2>3, <2>4, Zenon
    <2>6. IsObject(ParseError)
      BY <2>2, <2>3, <2>4, Zenon DEF ParseError
    <2> QED BY <2>5, <2>6
  <1>3. IsObject(SampleObject)
    <2> DEFINE v == Value("list", <<[is |-> "dict", type |-> "Question", lacks |-> {}]>>)
    <2>1. SampleObject = Object("FAQPage", [p \in {"mainEntity"} |-> v])
      BY DEF SampleObject
    <2>2. FewEntries(v)
      BY ValueHasFewEntries
    <2> HIDE DEF v
    <2>3. SampleObject.type = "FAQPage" /\ DOMAIN SampleObject.props = {"mainEntity"}
          /\ SampleObject.props["mainEntity"] = v
      BY <2>1 DEF Object
    <2>4. SampleObject.type \in SupportedTypes
      BY <2>3 DEF SupportedTypes
    <2>5. \A p \in DOMAIN SampleObject.props : FewEntries(SampleObject.props[p])
      BY <2>2, <2>3
    <2> QED BY <2>4, <2>5 DEF IsObject
  <1> SUFFICES ASSUME NEW o \in Objects \cup {SampleObject} PROVE IsObject(o)
    OBVIOUS
  <1>4. CASE \E type \in SupportedTypes : o \in ObjectsOf(type)
    BY <1>1, <1>4
  <1>5. \/ \E type \in SupportedTypes : o \in ObjectsOf(type)
        \/ o = Object("", <<>>) \/ o = Object("Unlisted", <<>>) \/ o = ParseError
        \/ o = SampleObject
    <2>1. \/ o \in UNION {ObjectsOf(type) : type \in SupportedTypes}
          \/ o \in {Object("", <<>>), Object("Unlisted", <<>>), ParseError}
          \/ o = SampleObject
      BY DEF Objects
    <2>2. o \in UNION {ObjectsOf(type) : type \in SupportedTypes} =>
             \E type \in SupportedTypes : o \in ObjectsOf(type)
      BY Zenon
    <2> QED BY <2>1, <2>2, Zenon
  <1> QED BY <1>2, <1>3, <1>4, <1>5, Zenon

\* What the measuring tools may answer.
IsMetrics(d) ==
    /\ d.performance_score \in Score \cup {None} /\ d.accessibility_score \in Score \cup {None}
    /\ d.best_practices_score \in Score \cup {None} /\ d.seo_score \in Score \cup {None}
    /\ d.structure_score \in Score \cup {None}
    /\ d.slow \subseteq {"lcp", "tbt", "cls"}

IsWave(d) == d.total_errors \in Nat /\ d.total_contrast_errors \in Nat

\* A tree of any size.
IsTree(t, Labels) == \E n \in Nat : t \in Trees(n, Labels)

\* What a site may be: any metrics, scan, page, network, objects and trees.
IsSite(s) ==
    /\ s.FULL_REPORT_TOOLS \subseteq Tools
    /\ IsMetrics(s.pagespeed) /\ IsMetrics(s.gtmetrix)
    /\ IsWave(s.wave)
    /\ s.scan \in Scan
    /\ s.page \in Seq(Element)
    /\ s.network \in [Urls -> Answer]
    /\ s.objects \in Seq(Objects \cup {SampleObject})
    /\ IsTree(s.markup, MarkupLabels)
    /\ IsTree(s.json, JsonLabels) /\ Rooted(s.json)

\* The parts of a site.
Fields == {"FULL_REPORT_TOOLS", "reachable", "pagespeed", "gtmetrix", "wave", "scan", "page",
           "network", "objects", "markup", "json"}

\* Metrics of scores are metrics.
LEMMA MetricsAre ==
    ASSUME NEW n \in {None} \cup Score, NEW slow \in SUBSET {"lcp", "tbt", "cls"},
           NEW g \in {None} \cup Score
    PROVE  /\ IsMetrics(Metrics(n, slow))
           /\ IsMetrics([Metrics(n, slow) EXCEPT !.structure_score = g])
  BY DEF IsMetrics, Metrics

\* The tree without nodes is a tree.
LEMMA EmptyTree ==
    ASSUME NEW L
    PROVE  IsTree([parent |-> <<>>, label |-> <<>>], L) /\ Rooted([parent |-> <<>>, label |-> <<>>])
  <1>1. ASSUME NEW none, none \in [1..0 -> 0..(0 - 1)], none \in [1..0 -> L],
               DOMAIN none = {}
        PROVE  IsTree([parent |-> none, label |-> none], L)
               /\ Rooted([parent |-> none, label |-> none])
    <2>1. [parent |-> none, label |-> none] \in Trees(0, L)
      <3> DEFINE parents == {q \in [1..0 -> 0..(0 - 1)] : \A i \in 1..0 : q[i] < i}
                 labels == [1..0 -> L]
      <3>1. none \in parents /\ none \in labels
        BY <1>1
      <3>2. Trees(0, L) = {[parent |-> p, label |-> l] : p \in parents, l \in labels}
        BY DEF Trees
      <3> HIDE DEF parents, labels
      <3> QED BY <3>1, <3>2
    <2>2. Rooted([parent |-> none, label |-> none])
      BY <1>1 DEF Rooted, Nodes
    <2> QED BY <2>1, <2>2 DEF IsTree
  <1>2. <<>> \in [1..0 -> 0..(0 - 1)] /\ <<>> \in [1..0 -> L] /\ DOMAIN <<>> = {}
    OBVIOUS
  <1> QED BY <1>1, <1>2, Zenon

\* The site that every subject starts from is a site.
LEMMA PlainIsSite == IsSite(Plain) /\ DOMAIN Plain = Fields
  <1>1. DOMAIN Plain = Fields
    BY DEF Plain, Fields
  <1>2. IsMetrics(Plain.pagespeed) /\ IsMetrics(Plain.gtmetrix)
    <2>1. Plain.pagespeed = Metrics(100, {}) /\ Plain.gtmetrix = Metrics(100, {})
      BY DEF Plain
    <2>2. 100 \in {None} \cup Score /\ {} \in SUBSET {"lcp", "tbt", "cls"}
      BY DEF Score
    <2> QED BY <2>1, <2>2, MetricsAre
  <1>3. IsWave(Plain.wave)
    BY DEF Plain, IsWave
  <1>4. Plain.scan \in Scan
    <2>1. Plain.scan = CleanScan
      BY DEF Plain
    <2> DEFINE command == [c \in Commands |-> IF c \in {"TLS 1.2", "TLS 1.3"}
                                              THEN "found" ELSE "clean"]
               certificate == [outcome |-> "completed", days |-> 90, trusted |-> TRUE]
    <2>2. command \in [Commands -> Outcomes]
      BY DEF Outcomes
    <2>3. certificate \in Certificate
      BY DEF Certificate
    <2>4. CleanScan = [command |-> command, certificate |-> certificate]
      BY DEF CleanScan
    <2> HIDE DEF command, certificate
    <2> QED BY <2>1, <2>2, <2>3, <2>4 DEF Scan
  <1>5. Plain.page \in Seq(Element)
    BY DEF Plain
  <1>6. Plain.network \in [Urls -> Answer]
    BY DEF Plain, AnswerOf, Answer, Statuses
  <1>7. Plain.objects \in Seq(Objects \cup {SampleObject})
    BY DEF Plain
  <1>8. /\ Plain.markup = [parent |-> <<>>, label |-> <<>>]
        /\ Plain.json = [parent |-> <<>>, label |-> <<>>]
    BY DEF Plain
  <1>9. IsTree(Plain.markup, MarkupLabels) /\ IsTree(Plain.json, JsonLabels) /\ Rooted(Plain.json)
    BY <1>8, EmptyTree, Zenon
  <1>10. Plain.FULL_REPORT_TOOLS \subseteq Tools
    BY DEF Plain
  <1> QED BY <1>1, <1>2, <1>3, <1>4, <1>5, <1>6, <1>7, <1>9, <1>10 DEF IsSite

\* The scans that are varied are scans.
LEMMA ScansAre == Scans \subseteq Scan
  <1> SUFFICES ASSUME NEW s \in Scans PROVE s \in Scan
    OBVIOUS
  <1> DEFINE few == UNION {kSubset(k, Commands) : k \in 0..MaxDefects}
             some == [outcome : {"completed", "lacking"}, days : {-1, 0, 29, 30},
                      trusted : BOOLEAN]
  <1>1. Scans = {[command |-> FoundOnly(found, rest), certificate |-> certificate] :
                    found \in few, rest \in {"clean", "lacking"}, certificate \in some}
    BY DEF Scans
  <1>2. some \subseteq Certificate
    BY DEF Certificate
  <1>3. \A found : \A rest \in {"clean", "lacking"} :
           FoundOnly(found, rest) \in [Commands -> Outcomes]
    BY DEF FoundOnly, Outcomes
  <1> HIDE DEF few, some
  <1> QED BY <1>1, <1>2, <1>3 DEF Scan

\* The networks that are varied answer every URL.
LEMMA NetworksAre == Networks \subseteq [Urls -> Answer]
  <1>1. \A s \in Statuses : AnswerOf(s) \in Answer /\ [AnswerOf(s) EXCEPT !.head = "405"] \in Answer
    BY DEF AnswerOf, Answer, Statuses
  <1>2. \A u \in Urls : RedirectTo(u) \in Answer
    BY DEF RedirectTo, Answer, Statuses
  <1>3. "2xx" \in Statuses
    BY DEF Statuses
  <1> DEFINE some == {AnswerOf(s) : s \in Statuses \ {"405", "5xx"}}
                         \cup {RedirectTo(u) : u \in Urls}
                         \cup {[AnswerOf("2xx") EXCEPT !.head = "405"]}
  <1>4. some \subseteq Answer
    BY <1>1, <1>2, <1>3
  <1>5. Networks = [Urls -> some]
    BY DEF Networks
  <1> HIDE DEF some
  <1> QED BY <1>4, <1>5

\* The pages that are varied are sequences of elements.
LEMMA PagesAre == LinkPages \subseteq Seq(Element)
  <1> DEFINE some == [tag : {"a", "img"}, href : Urls \cup {"skip"}, fragment : BOOLEAN]
  <1>1. some \subseteq Element
    BY DEF Element
  <1>2. \A p \in LinkPages : \E n \in 0..(MaxElements - 1) : p \in [1..n -> some]
    BY DEF LinkPages
  <1> HIDE DEF some
  <1>3. ASSUME NEW p \in LinkPages PROVE p \in Seq(Element)
    <2>1. PICK n \in Nat : p \in [1..n -> some]
      BY <1>2, ReportAssumption
    <2>2. p \in [1..n -> Element]
      BY <1>1, <2>1
    <2> QED BY <2>2
  <1> QED BY <1>3

\* With one tool enabled it is one as well.
LEMMA OnlyIsSite ==
    ASSUME NEW tool \in Tools
    PROVE  /\ IsSite(Only(tool)) /\ DOMAIN Only(tool) = Fields
  <1> USE PlainIsSite
  <1>1. /\ DOMAIN Only(tool) = Fields
        /\ Only(tool).FULL_REPORT_TOOLS = {tool}
        /\ Only(tool).pagespeed = Plain.pagespeed /\ Only(tool).gtmetrix = Plain.gtmetrix
        /\ Only(tool).wave = Plain.wave /\ Only(tool).scan = Plain.scan
        /\ Only(tool).page = Plain.page /\ Only(tool).network = Plain.network
        /\ Only(tool).objects = Plain.objects
        /\ Only(tool).markup = Plain.markup /\ Only(tool).json = Plain.json
    BY DEF Only, Fields
  <1>2. {tool} \subseteq Tools
    OBVIOUS
  <1> QED BY <1>1, <1>2 DEF IsSite

\* A site that differs from another in what one tool finds.
LEMMA SitesLike ==
    ASSUME NEW s, IsSite(s), DOMAIN s = Fields
    PROVE  /\ \A x \in Scan : IsSite([s EXCEPT !.scan = x])
           /\ \A x \in Seq(Element), n \in [Urls -> Answer] :
                 /\ IsSite([s EXCEPT !.page = x])
                 /\ IsSite([s EXCEPT !.page = x, !.network = n])
           /\ \A x : IsTree(x, MarkupLabels) => IsSite([s EXCEPT !.markup = x])
           /\ \A x : IsTree(x, JsonLabels) /\ Rooted(x) => IsSite([s EXCEPT !.json = x])
           /\ \A x \in Seq(Objects \cup {SampleObject}) : IsSite([s EXCEPT !.objects = x])
           /\ \A p, g, w : IsMetrics(p) /\ IsMetrics(g) /\ IsWave(w) =>
                 IsSite([s EXCEPT !.pagespeed = p, !.gtmetrix = g, !.wave = w])
           /\ \A enabled \in SUBSET Tools : \A answering :
                 IsSite([s EXCEPT !.FULL_REPORT_TOOLS = enabled, !.reachable = answering])
  <1>1. \A x \in Scan : IsSite([s EXCEPT !.scan = x])
    BY DEF IsSite, Fields
  <1>2. \A x \in Seq(Element), n \in [Urls -> Answer] :
           /\ IsSite([s EXCEPT !.page = x])
           /\ IsSite([s EXCEPT !.page = x, !.network = n])
    BY DEF IsSite, Fields
  <1>3. \A x : IsTree(x, MarkupLabels) => IsSite([s EXCEPT !.markup = x])
    BY DEF IsSite, Fields
  <1>4. \A x : IsTree(x, JsonLabels) /\ Rooted(x) => IsSite([s EXCEPT !.json = x])
    BY DEF IsSite, Fields
  <1>5. \A x \in Seq(Objects \cup {SampleObject}) : IsSite([s EXCEPT !.objects = x])
    BY DEF IsSite, Fields
  <1>6. \A p, g, w : IsMetrics(p) /\ IsMetrics(g) /\ IsWave(w) =>
           IsSite([s EXCEPT !.pagespeed = p, !.gtmetrix = g, !.wave = w])
    BY DEF IsSite, Fields
  <1>7. \A enabled \in SUBSET Tools : \A answering :
           IsSite([s EXCEPT !.FULL_REPORT_TOOLS = enabled, !.reachable = answering])
    BY DEF IsSite, Fields
  <1> QED BY <1>1, <1>2, <1>3, <1>4, <1>5, <1>6, <1>7

\* A tree of at most n nodes is a tree.
LEMMA TreesAre ==
    ASSUME NEW n \in Nat, NEW L, NEW t \in Trees1To(n, L)
    PROVE  IsTree(t, L)
  <1>1. PICK k \in 1..n : t \in Trees(k, L)
    BY DEF Trees1To
  <1>2. k \in Nat
    OBVIOUS
  <1> QED BY <1>1, <1>2 DEF IsTree

\* Every site that a subject varies is one.
LEMMA SitesAre ==
    ASSUME NEW subject \in Subjects, NEW s \in SitesOf(subject)
    PROVE  IsSite(s)
  <1> USE PlainIsSite
  <1>1. subject \in {"ssl", "links", "pages", "markup", "json", "objects", "mix"}
    BY ReportAssumption
  <1>2. "ssl" \in Tools /\ "links" \in Tools /\ "structured_data" \in Tools
    BY DEF Tools
  <1>3. /\ IsSite(Only("ssl")) /\ DOMAIN Only("ssl") = Fields
        /\ IsSite(Only("links")) /\ DOMAIN Only("links") = Fields
        /\ IsSite(Only("structured_data")) /\ DOMAIN Only("structured_data") = Fields
    BY <1>2, OnlyIsSite
  <1>4. CASE subject = "ssl"
    <2>1. PICK x \in Scans : s = [Only("ssl") EXCEPT !.scan = x]
      BY <1>4 DEF SitesOf
    <2> QED BY <1>3, <2>1, ScansAre, SitesLike
  <1>5. CASE subject = "links"
    <2>1. PICK n \in Networks :
              s = [Only("links") EXCEPT !.page = <<Link(SomeUrl)>>, !.network = n]
      BY <1>5 DEF SitesOf
    <2>2. SomeUrl \in Urls
      BY LinkAssumption DEF SomeUrl
    <2>3. <<Link(SomeUrl)>> \in Seq(Element)
      BY <2>2 DEF Link, Element
    <2>4. n \in [Urls -> Answer]
      BY NetworksAre
    <2> QED BY <1>3, <2>1, <2>3, <2>4, SitesLike
  <1>6. CASE subject = "pages"
    <2>1. PICK p \in LinkPages : s = [Only("links") EXCEPT !.page = p]
      BY <1>6 DEF SitesOf
    <2>2. p \in Seq(Element) /\ Plain.network \in [Urls -> Answer]
      BY PagesAre DEF IsSite
    <2> QED BY <1>3, <2>1, <2>2, SitesLike
  <1>7. CASE subject = "markup"
    <2>1. PICK m \in Trees1To(MaxElements, MarkupLabels) :
              s = [Only("structured_data") EXCEPT !.markup = m]
      BY <1>7 DEF SitesOf
    <2>2. IsTree(m, MarkupLabels)
      BY TreesAre, ReportAssumption
    <2> QED BY <1>3, <2>1, <2>2, SitesLike
  <1>8. CASE subject = "json"
    <2>1. PICK j \in Trees1To(MaxElements - 1, JsonLabels) :
              Rooted(j) /\ s = [Only("structured_data") EXCEPT !.json = j]
      BY <1>8 DEF SitesOf
    <2>2. MaxElements - 1 \in Nat
      BY ReportAssumption
    <2>3. IsTree(j, JsonLabels)
      BY <2>2, TreesAre
    <2> QED BY <1>3, <2>1, <2>3, SitesLike
  <1>9. CASE subject = "objects"
    <2>1. PICK o \in Objects : s = [Only("structured_data") EXCEPT !.objects = <<o, SampleObject>>]
      BY <1>9 DEF SitesOf
    <2>2. <<o, SampleObject>> \in Seq(Objects \cup {SampleObject})
      OBVIOUS
    <2> QED BY <1>3, <2>1, <2>2, SitesLike
  <1>10. CASE subject = "mix"
    <2>1. s \in MetricMixes \/ s \in ToolMixes
      BY <1>10 DEF SitesOf
    <2>2. CASE s \in MetricMixes
      <3>1. PICK p \in Speeds, g \in Structures, w \in Waves : s = Measured(p, g, w)
        BY <2>2 DEF MetricMixes
      <3>2. {None, 0, 49, 50, 89, 90, 100} \subseteq {None} \cup Score
            /\ {} \in SUBSET {"lcp", "tbt", "cls"}
        BY DEF Score
      <3>3. IsMetrics(p)
        <4>1. PICK n \in {None, 0, 49, 50, 89, 90}, slow \in SUBSET {"lcp", "tbt", "cls"} :
                  p = Metrics(n, slow)
          BY <3>1 DEF Speeds
        <4>2. n \in {None} \cup Score
          BY <3>2
        <4>3. IsMetrics(Metrics(n, slow))
          BY <4>2, MetricsAre
        <4> QED BY <4>1, <4>3
      <3>4. IsMetrics(g)
        <4>1. PICK n \in {None, 0, 100} : g = [Metrics(100, {}) EXCEPT !.structure_score = n]
          BY <3>1 DEF Structures
        <4>2. n \in {None} \cup Score /\ 100 \in {None} \cup Score
          BY <3>2
        <4> QED BY <3>2, <4>1, <4>2, MetricsAre
      <3>5. IsWave(w)
        BY <3>1 DEF IsWave, Waves
      <3> QED BY <3>1, <3>3, <3>4, <3>5, SitesLike DEF Measured
    <2>3. CASE s \in ToolMixes
      <3>1. PICK enabled \in SUBSET {"pagespeed", "ssl", "links", "structured_data"},
                 answering \in SUBSET {"pagespeed", "ssl", "links"} :
                s = Partly(enabled, answering)
        BY <2>3 DEF ToolMixes
      <3>2. enabled \in SUBSET Tools
        BY <3>1 DEF Tools
      <3> QED BY <3>1, <3>2, SitesLike DEF Partly
    <2> QED BY <2>1, <2>2, <2>3
  <1> QED BY <1>1, <1>4, <1>5, <1>6, <1>7, <1>8, <1>9, <1>10


-----------------------------------------------------------------------------
(* Functions defined by recursion, and the links of a page (services.py).  *)

\* What is below k + 1, and is not k, is below k.
LEMMA BelowNext == \A m, k \in Nat : m < k + 1 /\ m # k => m < k
  OBVIOUS

\* F gives the value of a function at each i of D from the values at what ranks
\* below i; the ranks are below n.
IsRecursion(D, S, rank, n, F) ==
    /\ S # {}
    /\ rank \in [D -> Nat]
    /\ n \in Nat
    /\ \A i \in D : rank[i] < n
    /\ F \in [D \X [D -> S] -> S]
    /\ \A i \in D : \A g, h \in [D -> S] :
          (\A j \in D : rank[j] < rank[i] => g[j] = h[j]) => F[<<i, g>>] = F[<<i, h>>]

\* There is such a function.
LEMMA RecursiveDefinition ==
    ASSUME NEW D, NEW S, NEW rank, NEW n, NEW F, IsRecursion(D, S, rank, n, F)
    PROVE  \E g \in [D -> S] : \A i \in D : g[i] = F[<<i, g>>]
  <1>5. /\ rank \in [D -> Nat] /\ n \in Nat /\ \A i \in D : rank[i] < n
        /\ F \in [D \X [D -> S] -> S]
    BY DEF IsRecursion
  <1>6. \A i \in D : \A g, h \in [D -> S] :
           (\A j \in D : rank[j] < rank[i] => g[j] = h[j]) => F[<<i, g>>] = F[<<i, h>>]
    BY DEF IsRecursion
  <1>7. PICK e \in S : TRUE
    BY DEF IsRecursion
  <1> DEFINE Fits(g, k) == \A i \in D : rank[i] < k => g[i] = F[<<i, g>>]
             K == {k \in Nat : \E g \in [D -> S] : Fits(g, k)}
  <1>1. 0 \in K
    <2>1. [i \in D |-> e] \in [D -> S] /\ Fits([i \in D |-> e], 0)
      BY <1>5
    <2> QED BY <2>1
  <1>2. ASSUME NEW k \in Nat, k \in K PROVE k + 1 \in K
    <2>1. PICK g \in [D -> S] : Fits(g, k)
      BY <1>2
    <2> DEFINE h == [i \in D |-> IF rank[i] = k THEN F[<<i, g>>] ELSE g[i]]
    <2>2. h \in [D -> S]
      <3>1. \A i \in D : F[<<i, g>>] \in S
        BY <1>5
      <3> QED BY <3>1
    <2>3. ASSUME NEW i \in D, rank[i] < k + 1 PROVE h[i] = F[<<i, h>>]
      <3>1. \A j \in D : rank[j] < rank[i] => g[j] = h[j]
        <4> TAKE j \in D
        <4>1. rank[j] \in Nat /\ rank[i] \in Nat
          BY <1>5
        <4>2. rank[j] < rank[i] => rank[j] # k
          BY <2>3, <4>1
        <4> QED BY <4>2
      <3>2. F[<<i, g>>] = F[<<i, h>>]
        <4> HIDE DEF h
        <4> QED BY <1>6, <2>2, <3>1
      <3>3. h[i] = F[<<i, g>>]
        <4>1. CASE rank[i] = k
          BY <4>1
        <4>2. CASE rank[i] # k
          <5>1. rank[i] < k
            <6>1. rank[i] \in Nat
              BY <1>5
            <6> QED BY <2>3, <4>2, <6>1, BelowNext, Zenon
          <5> QED BY <2>1, <4>2, <5>1
        <4> QED BY <4>1, <4>2
      <3> QED BY <3>2, <3>3
    <2> HIDE DEF h
    <2>4. Fits(h, k + 1)
      BY <2>3
    <2> QED BY <2>2, <2>4
  <1> HIDE DEF K
  <1>3. n \in K
    BY <1>1, <1>2, <1>5, AllNaturals
  <1>4. PICK g \in [D -> S] : Fits(g, n)
    BY <1>3 DEF K
  <1> QED BY <1>4, <1>5

\* The links found so far: destinations without a fragment, none of them twice.
Destination == {<<u, FALSE>> : u \in Urls}

IsFound(found) ==
    /\ found \in Seq(Destination)
    /\ \A i, j \in 1..Len(found) : found[i] = found[j] => i = j

\* The elements of a tag that carry a destination, and what they carry.
Carriers(page, tag) == {i \in DOMAIN page : page[i].tag = tag /\ page[i].href # "skip"}

\* One step of the loop adds the destination of its element, once.
LEMMA AddsTarget ==
    ASSUME NEW found, IsFound(found), NEW element \in Element, NEW tag
    PROVE  /\ IsFound(AddTarget(found, element, tag))
           /\ Range(AddTarget(found, element, tag)) =
                 Range(found) \cup (IF element.tag = tag /\ element.href # "skip"
                                    THEN {<<element.href, FALSE>>} ELSE {})
  <1> DEFINE target == <<element.href, FALSE>>
             more == Append(found, target)
  <1>1. DropFragment(Target(element)) = target
    BY DEF DropFragment, Target
  <1>2. Range(found) = {found[i] : i \in 1..Len(found)}
    BY DEF Range, IsFound
  <1>3. CASE ~(element.tag = tag /\ element.href # "skip" /\ target \notin Range(found))
    <2>1. AddTarget(found, element, tag) = found
      BY <1>1, <1>3 DEF AddTarget
    <2>2. element.tag = tag /\ element.href # "skip" => target \in Range(found)
      BY <1>3
    <2> HIDE DEF target
    <2> QED BY <2>1, <2>2 DEF target
  <1>4. CASE element.tag = tag /\ element.href # "skip" /\ target \notin Range(found)
    <2>1. AddTarget(found, element, tag) = more
      BY <1>1, <1>4 DEF AddTarget
    <2>2. element.href \in Urls
      BY <1>4 DEF Element
    <2>3. target \in Destination
      BY <2>2 DEF Destination
    <2> HIDE DEF target
    <2>4. /\ more \in Seq(Destination) /\ Len(more) = Len(found) + 1
          /\ \A i \in 1..Len(found) : more[i] = found[i]
          /\ more[Len(found) + 1] = target /\ Len(found) \in Nat /\ DOMAIN more = 1..Len(more)
      BY <2>3 DEF IsFound
    <2>5. \A i \in 1..Len(found) : found[i] # target
      BY <1>2, <1>4
    <2> HIDE DEF more
    <2>6. \A i, j \in 1..Len(more) : more[i] = more[j] => i = j
      <3> SUFFICES ASSUME NEW i \in 1..Len(more), NEW j \in 1..Len(more), more[i] = more[j]
                   PROVE  i = j
        OBVIOUS
      <3>1. (i \in 1..Len(found) \/ i = Len(found) + 1) /\ (j \in 1..Len(found) \/ j = Len(found) + 1)
        BY <2>4
      <3> QED BY <2>4, <2>5, <3>1 DEF IsFound
    <2>7. Range(more) = Range(found) \cup {target}
      <3>1. Range(more) = {more[i] : i \in 1..Len(more)}
        BY <2>4 DEF Range
      <3>2. \A i \in 1..Len(more) : i \in 1..Len(found) \/ i = Len(found) + 1
        BY <2>4
      <3>3. Len(found) + 1 \in 1..Len(more) /\ \A i \in 1..Len(found) : i \in 1..Len(more)
        BY <2>4
      <3> QED BY <1>2, <2>4, <3>1, <3>2, <3>3
    <2> QED BY <1>4, <2>1, <2>4, <2>6, <2>7 DEF IsFound, target
  <1> QED BY <1>3, <1>4

\* The loop over the elements of a tag, each of them seen in its turn.
IsLoop(after, page, found, tag) ==
    after = [k \in 0..Len(page) |-> IF k = 0 THEN found ELSE AddTarget(after[k - 1], page[k], tag)]

\* The recursion of the loop has a solution.
LEMMA LoopExists ==
    ASSUME NEW page \in Seq(Element), NEW found, IsFound(found), NEW tag
    PROVE  \E after : IsLoop(after, page, found, tag)
  <1> DEFINE n == Len(page)
             D == 0..n
             S == {f \in Seq(Destination) : IsFound(f)}
             m == n + 1
             rank == [k \in D |-> k]
             F == [x \in D \X [D -> S] |->
                      IF x[1] = 0 THEN found ELSE AddTarget(x[2][x[1] - 1], page[x[1]], tag)]
  <1>1. found \in S /\ m \in Nat /\ rank \in [D -> Nat] /\ \A i \in D : rank[i] < m
    BY DEF IsFound
  <1>2. \A i \in D, g \in [D -> S] :
           F[<<i, g>>] = IF i = 0 THEN found ELSE AddTarget(g[i - 1], page[i], tag)
    OBVIOUS
  <1>3. \A i \in D, g \in [D -> S] :
           (IF i = 0 THEN found ELSE AddTarget(g[i - 1], page[i], tag)) \in S
    <2> TAKE i \in D, g \in [D -> S]
    <2>1. CASE i = 0
      BY <1>1, <2>1
    <2>2. CASE i # 0
      <3>1. i - 1 \in D /\ i \in 1..n /\ page[i] \in Element
        BY <2>2
      <3>2. g[i - 1] \in S
        BY <3>1
      <3>3. IsFound(AddTarget(g[i - 1], page[i], tag))
        BY <3>1, <3>2, AddsTarget
      <3> QED BY <2>2, <3>3 DEF IsFound
    <2> QED BY <2>1, <2>2
  <1>4. F \in [D \X [D -> S] -> S]
    BY <1>2, <1>3
  <1>5. ASSUME NEW i \in D, NEW g \in [D -> S], NEW h \in [D -> S],
               \A j \in D : rank[j] < rank[i] => g[j] = h[j]
        PROVE  F[<<i, g>>] = F[<<i, h>>]
    <2>1. i # 0 => i - 1 \in D /\ i - 1 < i
      OBVIOUS
    <2>2. i # 0 => g[i - 1] = h[i - 1]
      BY <1>5, <2>1
    <2> HIDE DEF F
    <2> QED BY <1>2, <2>2
  <1> HIDE DEF F, rank, S, D, m
  <1>9. \A i \in D : \A g, h \in [D -> S] :
           (\A j \in D : rank[j] < rank[i] => g[j] = h[j]) => F[<<i, g>>] = F[<<i, h>>]
    BY <1>5
  <1>10. IsRecursion(D, S, rank, m, F)
    BY <1>1, <1>4, <1>9 DEF IsRecursion
  <1>6. PICK g \in [D -> S] : \A i \in D : g[i] = F[<<i, g>>]
    BY <1>10, RecursiveDefinition
  <1>7. \A i \in D : g[i] = IF i = 0 THEN found ELSE AddTarget(g[i - 1], page[i], tag)
    BY <1>2, <1>6
  <1>8. IsLoop(g, page, found, tag)
    BY <1>6, <1>7 DEF IsLoop, D
  <1> QED BY <1>8

\* What the first k elements of a page carry in a tag.
Carried(page, tag, k) == {<<page[i].href, FALSE>> : i \in Carriers(page, tag) \cap 1..k}

\* What the loop finds, of what it has seen.
LEMMA LoopFinds ==
    ASSUME NEW page \in Seq(Element), NEW found, IsFound(found), NEW tag,
           NEW after, IsLoop(after, page, found, tag)
    PROVE  \A k \in 0..Len(page) :
              /\ IsFound(after[k])
              /\ Range(after[k]) = Range(found) \cup Carried(page, tag, k)
  <1> DEFINE n == Len(page)
             hrefs(k) == Carried(page, tag, k)
             Good(k) == k <= n => /\ IsFound(after[k])
                                  /\ Range(after[k]) = Range(found) \cup hrefs(k)
             S == {k \in Nat : Good(k)}
  <1>1. \A k \in 0..n : after[k] = IF k = 0 THEN found ELSE AddTarget(after[k - 1], page[k], tag)
    BY DEF IsLoop
  <1>2. n \in Nat /\ DOMAIN page = 1..n /\ \A k \in 1..n : page[k] \in Element
    OBVIOUS
  <1>3. 0 \in S
    <2>1. hrefs(0) = {}
      <3>1. 1..0 = {}
        OBVIOUS
      <3> QED BY <3>1 DEF Carried
    <2>2. after[0] = found
      BY <1>1, <1>2
    <2> HIDE DEF hrefs
    <2> QED BY <2>1, <2>2
  <1>4. ASSUME NEW k \in Nat, k \in S PROVE k + 1 \in S
    <2> HIDE DEF hrefs
    <2> SUFFICES ASSUME k + 1 <= n PROVE Good(k + 1)
      OBVIOUS
    <2> DEFINE e == page[k + 1]
               new == IF e.tag = tag /\ e.href # "skip" THEN {<<e.href, FALSE>>} ELSE {}
    <2>1. k <= n /\ k + 1 \in 0..n /\ k + 1 # 0 /\ (k + 1) - 1 = k /\ k + 1 \in 1..n
      BY <1>2
    <2>2. after[k + 1] = AddTarget(after[k], e, tag)
      BY <1>1, <2>1
    <2>3. IsFound(after[k]) /\ Range(after[k]) = Range(found) \cup hrefs(k)
      BY <1>4, <2>1
    <2>4. e \in Element
      BY <1>2, <2>1
    <2>5. IsFound(after[k + 1]) /\ Range(after[k + 1]) = Range(after[k]) \cup new
      <3> HIDE DEF e
      <3>1. /\ IsFound(AddTarget(after[k], e, tag))
            /\ Range(AddTarget(after[k], e, tag)) = Range(after[k]) \cup new
        BY <2>3, <2>4, AddsTarget, Zenon
      <3> QED BY <2>2, <3>1, Zenon
    <2>6. hrefs(k + 1) = hrefs(k) \cup new
      <3> USE DEF hrefs, Carried
      <3>1. \A i : i \in 1..(k + 1) <=> i \in 1..k \/ i = k + 1
        OBVIOUS
      <3>2. k + 1 \in Carriers(page, tag) <=> e.tag = tag /\ e.href # "skip"
        BY <1>2, <2>1 DEF Carriers
      <3>3. CASE e.tag = tag /\ e.href # "skip"
        <4>1. new = {<<page[k + 1].href, FALSE>>}
          BY <3>3
        <4> QED BY <3>1, <3>2, <3>3, <4>1
      <3>4. CASE ~(e.tag = tag /\ e.href # "skip")
        <4>1. new = {}
          BY <3>4
        <4>2. Carriers(page, tag) \cap 1..(k + 1) = Carriers(page, tag) \cap 1..k
          BY <3>1, <3>2, <3>4
        <4> HIDE DEF new
        <4> QED BY <4>1, <4>2
      <3> QED BY <3>3, <3>4
    <2> HIDE DEF hrefs, new
    <2> QED BY <2>3, <2>5, <2>6
  <1> HIDE DEF S
  <1>5. \A k \in Nat : k \in S
    BY <1>3, <1>4, AllNaturals
  <1>6. \A k \in 0..n : k \in S /\ k \in Nat /\ k <= n
    BY <1>2, <1>5
  <1> QED BY <1>6 DEF S

\* The loop adds the destinations of all elements of its tag.
LEMMA TagFinds ==
    ASSUME NEW page \in Seq(Element), NEW found, IsFound(found), NEW tag
    PROVE  /\ IsFound(FromTag(page, found, tag))
           /\ Range(FromTag(page, found, tag)) = Range(found)
                 \cup {<<page[i].href, FALSE>> : i \in Carriers(page, tag)}
  <1> DEFINE after == CHOOSE g : IsLoop(g, page, found, tag)
             n == Len(page)
  <1>1. FromTag(page, found, tag) = after[n]
    BY DEF FromTag, IsLoop
  <1>2. IsLoop(after, page, found, tag)
    BY LoopExists
  <1> HIDE DEF after
  <1>3. n \in 0..n /\ Carriers(page, tag) \cap 1..n = Carriers(page, tag)
    BY DEF Carriers
  <1>5. \A k \in 0..n :
           /\ IsFound(after[k])
           /\ Range(after[k]) = Range(found) \cup Carried(page, tag, k)
    BY <1>2, LoopFinds
  <1>4. /\ IsFound(after[n])
        /\ Range(after[n]) = Range(found) \cup Carried(page, tag, n)
    BY <1>3, <1>5, Zenon
  <1> QED BY <1>1, <1>3, <1>4 DEF Carried

\* The links of a page are its destinations, each of them once.
LEMMA LinksAreDestinations ==
    ASSUME NEW page \in Seq(Element)
    PROVE  /\ IsFound(ExtractLinks(page))
           /\ Range(ExtractLinks(page)) = {<<u, FALSE>> : u \in Destinations(page)}
  <1> DEFINE links == FromTag(page, <<>>, "a")
             images == FromTag(page, links, "img")
             scripts == FromTag(page, images, "script")
             all == FromTag(page, scripts, "link")
             Of(tag) == {<<page[i].href, FALSE>> : i \in Carriers(page, tag)}
  <1>1. ExtractLinks(page) = all
    BY DEF ExtractLinks
  <1>2. IsFound(<<>>) /\ Range(<<>>) = {}
    <2>1. <<>> \in Seq(Destination) /\ Len(<<>>) = 0 /\ DOMAIN <<>> = {}
      OBVIOUS
    <2>2. 1..Len(<<>>) = {}
      BY <2>1
    <2>3. Range(<<>>) = {}
      BY <2>1 DEF Range
    <2> QED BY <2>1, <2>2, <2>3 DEF IsFound
  <1>3. IsFound(links) /\ Range(links) = Of("a")
    <2>1. IsFound(links) /\ Range(links) = Range(<<>>) \cup Of("a")
      BY <1>2, TagFinds
    <2> HIDE DEF links, Of
    <2> QED BY <1>2, <2>1
  <1>4. IsFound(images) /\ Range(images) = Range(links) \cup Of("img")
    <2> HIDE DEF links
    <2> QED BY <1>3, TagFinds
  <1>5. IsFound(scripts) /\ Range(scripts) = Range(images) \cup Of("script")
    <2> HIDE DEF images
    <2> QED BY <1>4, TagFinds
  <1>6. IsFound(all) /\ Range(all) = Range(scripts) \cup Of("link")
    <2> HIDE DEF scripts
    <2> QED BY <1>5, TagFinds
  <1>7. Range(all) = Of("a") \cup Of("img") \cup Of("script") \cup Of("link")
    <2> HIDE DEF links, images, scripts, all, Of
    <2> QED BY <1>3, <1>4, <1>5, <1>6
  <1>8. Of("a") \cup Of("img") \cup Of("script") \cup Of("link")
           = {<<u, FALSE>> : u \in Destinations(page)}
    <2>1. \A i \in DOMAIN page : page[i].tag \in {"a", "img", "script", "link"}
      <3>1. \A i \in DOMAIN page : page[i] \in Element
        OBVIOUS
      <3> QED BY <3>1 DEF Element
    <2>2. \A i \in DOMAIN page : page[i].href # "skip" =>
             \E tag \in {"a", "img", "script", "link"} : i \in Carriers(page, tag)
      BY <2>1 DEF Carriers
    <2>3. \A u : u \in Destinations(page) <=>
             \E i \in DOMAIN page : u = page[i].href /\ page[i].href # "skip"
      BY DEF Destinations
    <2>4. \A tag : \A i \in Carriers(page, tag) : i \in DOMAIN page /\ page[i].href # "skip"
      BY DEF Carriers
    <2>5. ASSUME NEW x, NEW tag, x \in Of(tag)
          PROVE  x \in {<<u, FALSE>> : u \in Destinations(page)}
      BY <2>3, <2>4, <2>5
    <2>6. ASSUME NEW u \in Destinations(page)
          PROVE  <<u, FALSE>> \in Of("a") \cup Of("img") \cup Of("script") \cup Of("link")
      <3>1. PICK i \in DOMAIN page : u = page[i].href /\ page[i].href # "skip"
        BY <2>3
      <3>2. PICK tag \in {"a", "img", "script", "link"} : i \in Carriers(page, tag)
        BY <2>2, <3>1
      <3>3. <<u, FALSE>> \in Of(tag)
        BY <3>1, <3>2
      <3> HIDE DEF Of
      <3> QED BY <3>2, <3>3
    <2> HIDE DEF Of
    <2> QED BY <2>5, <2>6
  <1> HIDE DEF all
  <1> QED BY <1>1, <1>6, <1>7, <1>8

\* The verdict from a request on, one step of the loop spelled out.
Verdict(network, hop, current, next) ==
    LET answer == network[current]
        status == Status(answer)
    IN  CASE status = "timeout" -> "timeout"
          [] status = "refused" -> "error"
          [] OTHER -> IF Redirects(answer) /\ hop < MAX_REDIRECTS
                      THEN next
                      ELSE Classify(status, hop > 0 \/ Redirects(answer))

\* The recursion of check_single_link.
IsCheck(check, network) ==
    check = [hop \in 0..MAX_REDIRECTS |-> [current \in Urls |->
                Verdict(network, hop, current, check[hop + 1][network[current].location])]]

\* The verdict of one request, by what the code tells apart.
LEMMA VerdictIs ==
    ASSUME NEW network \in [Urls -> Answer], NEW hop \in 0..MAX_REDIRECTS, NEW u \in Urls, NEW next
    PROVE  LET status == Status(network[u]) IN
           /\ status \in Statuses
           /\ Redirects(network[u]) => /\ status = "3xx"
                                       /\ network[u].location \in Urls
                                       /\ hop < MAX_REDIRECTS => Verdict(network, hop, u, next) = next
                                       /\ hop >= MAX_REDIRECTS =>
                                             Verdict(network, hop, u, next) = "redirect"
           /\ ~Redirects(network[u]) =>
                 Verdict(network, hop, u, next) =
                    IF status = "timeout" THEN "timeout"
                    ELSE IF status = "refused" THEN "error"
                    ELSE IF status \in {"4xx", "5xx", "405"} THEN "broken"
                    ELSE IF hop > 0 THEN "redirect"
                    ELSE IF status = "2xx" THEN "healthy" ELSE "error"
  <1> DEFINE answer == network[u]
             status == Status(answer)
  <1>1. answer \in Answer
    OBVIOUS
  <1>2. status \in Statuses /\ answer.location \in Urls \cup {""}
    BY <1>1 DEF Answer, Status
  <1>3. Verdict(network, hop, u, next) =
           IF status = "timeout" THEN "timeout"
           ELSE IF status = "refused" THEN "error"
           ELSE IF Redirects(answer) /\ hop < MAX_REDIRECTS THEN next
           ELSE Classify(status, hop > 0 \/ Redirects(answer))
    BY DEF Verdict
  <1>4. Redirects(answer) <=> status = "3xx" /\ answer.location # ""
    BY DEF Redirects
  <1>5. CASE Redirects(answer)
    <2>1. status = "3xx" /\ answer.location \in Urls
      BY <1>2, <1>4, <1>5
    <2>2. Classify("3xx", TRUE) = "redirect"
      BY DEF Classify
    <2> HIDE DEF answer, status
    <2>3. hop < MAX_REDIRECTS => Verdict(network, hop, u, next) = next
      BY <1>3, <1>5, <2>1
    <2>4. hop >= MAX_REDIRECTS => Verdict(network, hop, u, next) = "redirect"
      <3> SUFFICES ASSUME hop >= MAX_REDIRECTS PROVE Verdict(network, hop, u, next) = "redirect"
        OBVIOUS
      <3>1. ~(hop < MAX_REDIRECTS) /\ (hop > 0 \/ Redirects(answer)) = TRUE
        BY <1>5, LinkAssumption
      <3> QED BY <1>3, <2>1, <2>2, <3>1
    <2> QED BY <1>2, <1>5, <2>1, <2>3, <2>4 DEF answer, status
  <1>6. CASE ~Redirects(answer)
    <2>1. Verdict(network, hop, u, next) =
             IF status = "timeout" THEN "timeout"
             ELSE IF status = "refused" THEN "error"
             ELSE Classify(status, hop > 0)
      <3>1. (hop > 0 \/ Redirects(answer)) = (hop > 0)
        BY <1>6
      <3> QED BY <1>3, <1>6, <3>1
    <2> QED BY <1>2, <1>6, <2>1 DEF Classify
  <1> QED BY <1>5, <1>6

\* The recursion of the check has a solution.
LEMMA CheckExists ==
    ASSUME NEW network \in [Urls -> Answer]
    PROVE  \E check : IsCheck(check, network)
  <1> DEFINE D == 0..MAX_REDIRECTS
             S == [Urls -> Categories]
             m == MAX_REDIRECTS + 1
             rank == [hop \in D |-> MAX_REDIRECTS - hop]
             F == [x \in D \X [D -> S] |-> [current \in Urls |->
                     Verdict(network, x[1], current, x[2][x[1] + 1][network[current].location])]]
  <1>1. MAX_REDIRECTS \in Nat
    BY LinkAssumption
  <1>2. m \in Nat /\ rank \in [D -> Nat] /\ \A i \in D : rank[i] < m
    BY <1>1
  <1>3. S # {}
    <2>1. [u \in Urls |-> "healthy"] \in S
      BY DEF Categories
    <2> QED BY <2>1
  <1>4. \A i \in D, g \in [D -> S] :
           F[<<i, g>>] = [current \in Urls |->
              Verdict(network, i, current, g[i + 1][network[current].location])]
    OBVIOUS
  <1>5. ASSUME NEW i \in D, NEW g \in [D -> S], NEW u \in Urls
        PROVE  Verdict(network, i, u, g[i + 1][network[u].location]) \in Categories
    <2> DEFINE next == g[i + 1][network[u].location]
    <2>1. Redirects(network[u]) /\ i < MAX_REDIRECTS => next \in Categories
      <3> SUFFICES ASSUME Redirects(network[u]), i < MAX_REDIRECTS PROVE next \in Categories
        OBVIOUS
      <3>1. i + 1 \in D
        BY <1>1
      <3>2. network[u].location \in Urls
        BY VerdictIs
      <3>3. g[i + 1] \in S
        BY <3>1
      <3> QED BY <3>2, <3>3
    <2>2. i \in 0..MAX_REDIRECTS /\ (i < MAX_REDIRECTS \/ i >= MAX_REDIRECTS)
      BY <1>1
    <2> HIDE DEF next
    <2>3. Verdict(network, i, u, next) \in Categories
      BY <2>1, <2>2, VerdictIs DEF Categories
    <2> QED BY <2>3 DEF next
  <1>6. \A i \in D, g \in [D -> S] :
           [current \in Urls |->
              Verdict(network, i, current, g[i + 1][network[current].location])] \in S
    <2> TAKE i \in D, g \in [D -> S]
    <2> DEFINE value(u) == Verdict(network, i, u, g[i + 1][network[u].location])
    <2>1. \A u \in Urls : value(u) \in Categories
      BY <1>5
    <2> HIDE DEF value
    <2>2. [u \in Urls |-> value(u)] \in [Urls -> Categories]
      BY <2>1
    <2> QED BY <2>2 DEF value
  <1>7. F \in [D \X [D -> S] -> S]
    BY <1>4, <1>6
  <1>8. ASSUME NEW i \in D, NEW g \in [D -> S], NEW h \in [D -> S],
               \A j \in D : rank[j] < rank[i] => g[j] = h[j]
        PROVE  F[<<i, g>>] = F[<<i, h>>]
    <2>1. ASSUME NEW u \in Urls
          PROVE  Verdict(network, i, u, g[i + 1][network[u].location])
                    = Verdict(network, i, u, h[i + 1][network[u].location])
      <3>1. CASE Redirects(network[u]) /\ i < MAX_REDIRECTS
        <4>1. i + 1 \in D /\ rank[i + 1] < rank[i]
          BY <1>1, <3>1
        <4> QED BY <1>8, <4>1
      <3>2. CASE ~(Redirects(network[u]) /\ i < MAX_REDIRECTS)
        <4>1. i \in 0..MAX_REDIRECTS /\ (i < MAX_REDIRECTS \/ i >= MAX_REDIRECTS)
          BY <1>1
        <4>2. \A next : Verdict(network, i, u, next) =
                 IF Redirects(network[u]) THEN "redirect"
                 ELSE IF Status(network[u]) = "timeout" THEN "timeout"
                 ELSE IF Status(network[u]) = "refused" THEN "error"
                 ELSE IF Status(network[u]) \in {"4xx", "5xx", "405"} THEN "broken"
                 ELSE IF i > 0 THEN "redirect"
                 ELSE IF Status(network[u]) = "2xx" THEN "healthy" ELSE "error"
          BY <3>2, <4>1, VerdictIs
        <4> HIDE DEF F, rank, D, S
        <4> QED BY <4>2
      <3> QED BY <3>1, <3>2
    <2> DEFINE value(u) == Verdict(network, i, u, g[i + 1][network[u].location])
               other(u) == Verdict(network, i, u, h[i + 1][network[u].location])
    <2>2. F[<<i, g>>] = [u \in Urls |-> value(u)] /\ F[<<i, h>>] = [u \in Urls |-> other(u)]
      <3> HIDE DEF F
      <3> QED BY <1>4
    <2>3. \A u \in Urls : value(u) = other(u)
      BY <2>1
    <2> HIDE DEF F, value, other
    <2> QED BY <2>2, <2>3
  <1> HIDE DEF F, rank, S, D, m
  <1>9. \A i \in D : \A g, h \in [D -> S] :
           (\A j \in D : rank[j] < rank[i] => g[j] = h[j]) => F[<<i, g>>] = F[<<i, h>>]
    BY <1>8
  <1>10. IsRecursion(D, S, rank, m, F)
    BY <1>2, <1>3, <1>7, <1>9 DEF IsRecursion
  <1>11. PICK g \in [D -> S] : \A i \in D : g[i] = F[<<i, g>>]
    BY <1>10, RecursiveDefinition
  <1>12. \A i \in D : g[i] = [current \in Urls |->
                                 Verdict(network, i, current, g[i + 1][network[current].location])]
    BY <1>4, <1>11
  <1>13. IsCheck(g, network)
    BY <1>11, <1>12 DEF IsCheck, D
  <1> QED BY <1>13

\* The check satisfies its recursion.
LEMMA CheckIs ==
    ASSUME NEW network \in [Urls -> Answer]
    PROVE  \A hop \in 0..MAX_REDIRECTS : \A u \in Urls :
              CheckFrom(network)[hop][u] =
                 Verdict(network, hop, u, CheckFrom(network)[hop + 1][network[u].location])
  <1>1. CheckFrom(network) = CHOOSE check : IsCheck(check, network)
    BY DEF CheckFrom, IsCheck, Verdict
  <1>2. IsCheck(CheckFrom(network), network)
    BY <1>1, CheckExists
  <1> DEFINE check == CheckFrom(network)
             value(hop, u) == Verdict(network, hop, u, check[hop + 1][network[u].location])
  <1>3. check = [hop \in 0..MAX_REDIRECTS |-> [u \in Urls |-> value(hop, u)]]
    BY <1>2, Zenon DEF IsCheck
  <1> HIDE DEF check, value
  <1>4. \A hop \in 0..MAX_REDIRECTS : \A u \in Urls : check[hop][u] = value(hop, u)
    BY <1>3
  <1> QED BY <1>4 DEF check, value

\* Every verdict is one of the five, and after a redirect none is "healthy".
LEMMA ChecksAreVerdicts ==
    ASSUME NEW network \in [Urls -> Answer]
    PROVE  \A hop \in 0..MAX_REDIRECTS : \A u \in Urls :
              /\ CheckFrom(network)[hop][u] \in Categories
              /\ hop > 0 => CheckFrom(network)[hop][u] # "healthy"
  <1> DEFINE check == CheckFrom(network)
             Good(hop) == \A u \in Urls : /\ check[hop][u] \in Categories
                                          /\ hop > 0 => check[hop][u] # "healthy"
             S == {k \in Nat : \A hop \in 0..MAX_REDIRECTS : MAX_REDIRECTS - hop < k => Good(hop)}
  <1> HIDE DEF check
  <1>1. MAX_REDIRECTS \in Nat
    BY LinkAssumption
  <1>2. 0 \in S
    BY <1>1
  <1>3. ASSUME NEW k \in Nat, k \in S PROVE k + 1 \in S
    <2> SUFFICES ASSUME NEW hop \in 0..MAX_REDIRECTS, MAX_REDIRECTS - hop < k + 1, NEW u \in Urls
                 PROVE  /\ check[hop][u] \in Categories
                        /\ hop > 0 => check[hop][u] # "healthy"
      OBVIOUS
    <2> DEFINE next == check[hop + 1][network[u].location]
    <2>1. check[hop][u] = Verdict(network, hop, u, next)
      BY CheckIs DEF check
    <2>2. Redirects(network[u]) /\ hop < MAX_REDIRECTS => next \in Categories /\ next # "healthy"
      <3> SUFFICES ASSUME Redirects(network[u]), hop < MAX_REDIRECTS
                   PROVE  next \in Categories /\ next # "healthy"
        OBVIOUS
      <3>1. hop + 1 \in 0..MAX_REDIRECTS /\ MAX_REDIRECTS - (hop + 1) < k /\ hop + 1 > 0
        BY <1>1
      <3>2. network[u].location \in Urls
        BY VerdictIs
      <3>3. Good(hop + 1)
        BY <1>3, <3>1
      <3> QED BY <3>1, <3>2, <3>3
    <2> HIDE DEF next, S
    <2>3. hop < MAX_REDIRECTS \/ hop >= MAX_REDIRECTS
      BY <1>1
    <2>4. "redirect" # "healthy" /\ "broken" # "healthy" /\ "timeout" # "healthy" /\ "error" # "healthy"
          /\ {"redirect", "broken", "timeout", "error", "healthy"} = Categories
      BY DEF Categories
    <2>5. CASE Redirects(network[u])
      BY <2>1, <2>2, <2>3, <2>4, <2>5, VerdictIs
    <2>6. CASE ~Redirects(network[u])
      <3>1. check[hop][u] = IF Status(network[u]) = "timeout" THEN "timeout"
                            ELSE IF Status(network[u]) = "refused" THEN "error"
                            ELSE IF Status(network[u]) \in {"4xx", "5xx", "405"} THEN "broken"
                            ELSE IF hop > 0 THEN "redirect"
                            ELSE IF Status(network[u]) = "2xx" THEN "healthy" ELSE "error"
        BY <2>1, <2>6, VerdictIs
      <3> QED BY <2>4, <3>1
    <2> QED BY <2>5, <2>6
  <1> HIDE DEF S
  <1>4. \A k \in Nat : k \in S
    BY <1>2, <1>3, AllNaturals
  <1>5. MAX_REDIRECTS + 1 \in S
    BY <1>1, <1>4
  <1>6. \A hop \in 0..MAX_REDIRECTS : MAX_REDIRECTS - hop < MAX_REDIRECTS + 1
    BY <1>1
  <1> QED BY <1>5, <1>6 DEF S, check

\* The URLs that n redirects lead to.
IsHops(h, network, url, n) ==
    h = [k \in 0..n |-> IF k = 0 THEN url ELSE network[h[k - 1]].location]

\* The recursion of the hops has a solution, however far it goes.
LEMMA HopExists ==
    ASSUME NEW network, NEW url
    PROVE  \A n \in Nat : \E h : IsHops(h, network, url, n)
  <1> DEFINE Is(h, n) == IsHops(h, network, url, n)
             S == {n \in Nat : \E h : Is(h, n)}
  <1> USE DEF IsHops
  <1>1. 0 \in S
    <2> DEFINE h == [k \in 0..0 |-> url]
    <2>1. \A k \in 0..0 : k = 0
      OBVIOUS
    <2>2. Is(h, 0)
      BY <2>1
    <2> QED BY <2>2
  <1>2. ASSUME NEW n \in Nat, n \in S PROVE n + 1 \in S
    <2>1. PICK g : Is(g, n)
      BY <1>2
    <2>2. \A k \in 0..n : g[k] = IF k = 0 THEN url ELSE network[g[k - 1]].location
      BY <2>1
    <2> DEFINE h == [k \in 0..(n + 1) |-> IF k <= n THEN g[k] ELSE network[g[n]].location]
    <2>3. \A k \in 0..(n + 1) : h[k] = IF k = 0 THEN url ELSE network[h[k - 1]].location
      <3> TAKE k \in 0..(n + 1)
      <3>1. CASE k = 0
        <4>1. k \in 0..n /\ k <= n
          BY <3>1
        <4> QED BY <2>2, <3>1, <4>1
      <3>2. CASE k # 0 /\ k <= n
        <4>1. k \in 0..n /\ k - 1 \in 0..n /\ k - 1 \in 0..(n + 1) /\ k - 1 <= n
          BY <3>2
        <4>2. h[k] = g[k] /\ h[k - 1] = g[k - 1]
          BY <3>2, <4>1
        <4> HIDE DEF h
        <4> QED BY <2>2, <3>2, <4>1, <4>2
      <3>3. CASE ~(k <= n)
        <4>1. k = n + 1 /\ k # 0 /\ k - 1 = n /\ n \in 0..(n + 1) /\ n <= n
          BY <3>3
        <4>2. h[k] = network[g[n]].location /\ h[k - 1] = g[n]
          BY <3>3, <4>1
        <4> HIDE DEF h
        <4> QED BY <4>1, <4>2
      <3> QED BY <3>1, <3>2, <3>3
    <2>4. h = [k \in 0..(n + 1) |-> h[k]]
      OBVIOUS
    <2> HIDE DEF h
    <2>5. Is(h, n + 1)
      BY <2>3, <2>4
    <2> HIDE DEF Is
    <2> QED BY <2>5
  <1> HIDE DEF S
  <1>3. \A n \in Nat : n \in S
    BY <1>1, <1>2, AllNaturals
  <1> QED BY <1>3 DEF S

\* Where a check comes to, redirect by redirect.
LEMMA HopsAreAsked ==
    ASSUME NEW network \in [Urls -> Answer], NEW url \in Urls
    PROVE  \A k \in 0..MAX_REDIRECTS : Asked(network, url, k) =>
              /\ Hop(network, url)[k] \in Urls
              /\ CheckFrom(network)[0][url] = CheckFrom(network)[k][Hop(network, url)[k]]
  <1> DEFINE h == Hop(network, url)
             check == CheckFrom(network)
             Good(k) == Asked(network, url, k) => /\ h[k] \in Urls
                                                  /\ check[0][url] = check[k][h[k]]
             S == {k \in Nat : k <= MAX_REDIRECTS => Good(k)}
  <1>1. MAX_REDIRECTS \in Nat
    BY LinkAssumption
  <1>2. \A k \in 0..MAX_REDIRECTS : h[k] = IF k = 0 THEN url ELSE network[h[k - 1]].location
    <2>1. h = CHOOSE g : IsHops(g, network, url, MAX_REDIRECTS)
      BY DEF Hop, IsHops
    <2>2. \E g : IsHops(g, network, url, MAX_REDIRECTS)
      BY <1>1, HopExists
    <2> HIDE DEF h
    <2>3. IsHops(h, network, url, MAX_REDIRECTS)
      BY <2>1, <2>2
    <2> QED BY <2>3 DEF IsHops
  <1> HIDE DEF h, check
  <1>3. 0 \in S
    BY <1>1, <1>2
  <1>4. ASSUME NEW k \in Nat, k \in S PROVE k + 1 \in S
    <2> SUFFICES ASSUME k + 1 <= MAX_REDIRECTS, Asked(network, url, k + 1)
                 PROVE  h[k + 1] \in Urls /\ check[0][url] = check[k + 1][h[k + 1]]
      OBVIOUS
    <2>1. k \in 0..MAX_REDIRECTS /\ k + 1 \in 0..MAX_REDIRECTS /\ k < MAX_REDIRECTS
          /\ k + 1 # 0 /\ (k + 1) - 1 = k /\ k \in 0..((k + 1) - 1)
          /\ \A i \in 0..(k - 1) : i \in 0..((k + 1) - 1)
      BY <1>1
    <2>2. Redirects(network[h[k]]) /\ Asked(network, url, k)
      BY <2>1 DEF Asked, h
    <2>3. h[k] \in Urls /\ check[0][url] = check[k][h[k]]
      BY <1>1, <1>4, <2>1, <2>2
    <2>4. h[k + 1] = network[h[k]].location
      BY <1>2, <2>1
    <2>5. h[k + 1] \in Urls
      BY <2>1, <2>2, <2>3, <2>4, VerdictIs
    <2>6. check[k][h[k]] = Verdict(network, k, h[k], check[k + 1][h[k + 1]])
      BY <2>1, <2>3, <2>4, CheckIs DEF check
    <2>7. Verdict(network, k, h[k], check[k + 1][h[k + 1]]) = check[k + 1][h[k + 1]]
      BY <2>1, <2>2, <2>3, VerdictIs
    <2> QED BY <2>3, <2>5, <2>6, <2>7
  <1> HIDE DEF S
  <1>5. \A k \in Nat : k \in S
    BY <1>3, <1>4, AllNaturals
  <1>6. \A k \in 0..MAX_REDIRECTS : k \in S /\ k \in Nat /\ k <= MAX_REDIRECTS
    BY <1>1, <1>5
  <1> QED BY <1>6 DEF S, h, check

\* What a check says is what the answers on its way say.
LEMMA CheckIsRight ==
    ASSUME NEW network \in [Urls -> Answer], NEW url \in Urls
    PROVE  /\ CheckSingleLink(network, url) \in Categories
           /\ CheckSingleLink(network, url) = "broken" <=> IsBroken(network, url)
           /\ CheckSingleLink(network, url) = "healthy" <=> IsHealthy(network, url)
  <1> DEFINE h == Hop(network, url)
             check == CheckFrom(network)
             Bad(u) == Status(network[u]) \in {"4xx", "5xx", "405"}
  <1>1. MAX_REDIRECTS \in Nat /\ 0 \in 0..MAX_REDIRECTS
    BY LinkAssumption
  <1>2. CheckSingleLink(network, url) = check[0][url]
    BY DEF CheckSingleLink
  <1>3. \A k \in 0..MAX_REDIRECTS : Asked(network, url, k) =>
           h[k] \in Urls /\ check[0][url] = check[k][h[k]]
    BY HopsAreAsked
  <1>4. \A k \in 0..MAX_REDIRECTS : \A u \in Urls :
           /\ check[k][u] = Verdict(network, k, u, check[k + 1][network[u].location])
           /\ check[k][u] \in Categories /\ (k > 0 => check[k][u] # "healthy")
    BY CheckIs, ChecksAreVerdicts
  <1> HIDE DEF h, check
  <1>5. ASSUME NEW k \in 0..MAX_REDIRECTS, Asked(network, url, k), Bad(h[k])
        PROVE  check[0][url] = "broken"
    <2>1. h[k] \in Urls /\ check[0][url] = check[k][h[k]]
      BY <1>3, <1>5
    <2>2. ~Redirects(network[h[k]])
      BY <1>5 DEF Redirects
    <2>3. check[k][h[k]] = "broken"
      BY <1>4, <1>5, <2>1, <2>2, VerdictIs
    <2> QED BY <2>1, <2>3
  <1>6. ASSUME check[0][url] = "broken", \A k \in 0..MAX_REDIRECTS : Asked(network, url, k) => ~Bad(h[k])
        PROVE  FALSE
    <2> DEFINE S == {k \in Nat : k <= MAX_REDIRECTS => Asked(network, url, k)}
    <2>1. \A k \in 0..MAX_REDIRECTS : Asked(network, url, k) =>
             Redirects(network[h[k]]) /\ k < MAX_REDIRECTS
      <3> SUFFICES ASSUME NEW k \in 0..MAX_REDIRECTS, Asked(network, url, k)
                   PROVE  Redirects(network[h[k]]) /\ k < MAX_REDIRECTS
        OBVIOUS
      <3>1. h[k] \in Urls /\ check[k][h[k]] = "broken" /\ ~Bad(h[k])
        BY <1>3, <1>6
      <3>2. check[k][h[k]] = Verdict(network, k, h[k], check[k + 1][network[h[k]].location])
        BY <1>4, <3>1
      <3>3. k < MAX_REDIRECTS \/ k >= MAX_REDIRECTS
        BY <1>1
      <3>4. Redirects(network[h[k]])
        <4> SUFFICES ASSUME ~Redirects(network[h[k]]) PROVE FALSE
          OBVIOUS
        <4> QED BY <3>1, <3>2, VerdictIs
      <3>5. ~(k >= MAX_REDIRECTS)
        <4> SUFFICES ASSUME k >= MAX_REDIRECTS PROVE FALSE
          OBVIOUS
        <4> QED BY <3>1, <3>2, <3>4, VerdictIs
      <3> QED BY <3>3, <3>4, <3>5
    <2>2. 0 \in S
      <3>1. 0..(0 - 1) = {}
        OBVIOUS
      <3> QED BY <3>1 DEF Asked
    <2>3. ASSUME NEW k \in Nat, k \in S PROVE k + 1 \in S
      <3> SUFFICES ASSUME k + 1 <= MAX_REDIRECTS PROVE Asked(network, url, k + 1)
        OBVIOUS
      <3>1. k \in 0..MAX_REDIRECTS /\ Asked(network, url, k)
        BY <1>1, <2>3
      <3>2. Redirects(network[h[k]])
        BY <2>1, <3>1
      <3>3. \A i \in 0..((k + 1) - 1) : i \in 0..(k - 1) \/ i = k
        OBVIOUS
      <3> QED BY <3>1, <3>2, <3>3 DEF Asked, h
    <2> HIDE DEF S
    <2>4. \A k \in Nat : k \in S
      BY <2>2, <2>3, AllNaturals
    <2>5. MAX_REDIRECTS \in S /\ MAX_REDIRECTS \in 0..MAX_REDIRECTS /\ ~(MAX_REDIRECTS < MAX_REDIRECTS)
      BY <1>1, <2>4
    <2>6. Asked(network, url, MAX_REDIRECTS)
      BY <1>1, <2>5 DEF S
    <2> QED BY <2>1, <2>5, <2>6
  <1>7. check[0][url] = "broken" <=> IsBroken(network, url)
    BY <1>5, <1>6 DEF IsBroken, h
  <1>8. check[0][url] = "healthy" <=> IsHealthy(network, url)
    <2> DEFINE next == check[0 + 1][network[url].location]
    <2>1. check[0][url] = Verdict(network, 0, url, next)
      BY <1>1, <1>4
    <2>2. CASE Redirects(network[url])
      <3>1. Status(network[url]) = "3xx" /\ network[url].location \in Urls
        BY <1>1, <2>2, VerdictIs
      <3>2. 0 < MAX_REDIRECTS => next # "healthy"
        <4> SUFFICES ASSUME 0 < MAX_REDIRECTS PROVE next # "healthy"
          OBVIOUS
        <4>1. 0 + 1 \in 0..MAX_REDIRECTS /\ 0 + 1 > 0
          BY <1>1
        <4> QED BY <1>4, <3>1, <4>1
      <3> HIDE DEF next
      <3>3. 0 < MAX_REDIRECTS => check[0][url] = next
        BY <1>1, <2>1, <2>2, VerdictIs
      <3>4. 0 >= MAX_REDIRECTS => check[0][url] = "redirect"
        BY <1>1, <2>1, <2>2, VerdictIs
      <3>5. 0 < MAX_REDIRECTS \/ 0 >= MAX_REDIRECTS
        BY <1>1
      <3> QED BY <3>1, <3>2, <3>3, <3>4, <3>5 DEF IsHealthy
    <2>3. CASE ~Redirects(network[url])
      <3> HIDE DEF next
      <3>1. check[0][url] = IF Status(network[url]) = "timeout" THEN "timeout"
                            ELSE IF Status(network[url]) = "refused" THEN "error"
                            ELSE IF Status(network[url]) \in {"4xx", "5xx", "405"} THEN "broken"
                            ELSE IF 0 > 0 THEN "redirect"
                            ELSE IF Status(network[url]) = "2xx" THEN "healthy" ELSE "error"
        BY <1>1, <2>1, <2>3, VerdictIs
      <3>2. ~(0 > 0)
        OBVIOUS
      <3> QED BY <3>1, <3>2 DEF IsHealthy
    <2> QED BY <2>2, <2>3
  <1> QED BY <1>1, <1>2, <1>4, <1>7, <1>8

\* A destination is its URL, without a fragment.
LEMMA DestinationIs == \A x \in Destination : x = <<x[1], FALSE>> /\ x[1] \in Urls
  <1> TAKE x \in Destination
  <1>1. PICK u \in Urls : x = <<u, FALSE>>
    BY DEF Destination
  <1>2. <<u, FALSE>>[1] = u
    OBVIOUS
  <1> QED BY <1>1, <1>2, Zenon

\* The numbers from 1 to n are n.
LEMMA IntervalSize == \A n \in Nat : IsFiniteSet(1..n) /\ Cardinality(1..n) = n
  <1> TAKE n \in Nat
  <1> QED BY FS_Interval

\* As many as their images, when no two have the same.
LEMMA SameCount ==
    ASSUME NEW S, IsFiniteSet(S), NEW T, NEW f, \A x \in S : f[x] \in T,
           \A x, y \in S : f[x] = f[y] => x = y, \A z \in T : \E x \in S : z = f[x]
    PROVE  IsFiniteSet(T) /\ Cardinality(T) = Cardinality(S)
  <1> DEFINE g == [x \in S |-> f[x]]
  <1>1. g \in [S -> T] /\ \A x, y \in S : g[x] = g[y] => x = y
    OBVIOUS
  <1>2. \A z \in T : \E x \in S : g[x] = z
    OBVIOUS
  <1> HIDE DEF g
  <1>3. g \in Bijection(S, T)
    BY <1>1, <1>2 DEF Bijection, Injection, Surjection, IsInjective
  <1>4. ExistsBijection(S, T)
    BY <1>3 DEF ExistsBijection
  <1> QED BY <1>4, FS_Bijection

\* S is the union of A and B, which are disjoint.
Parts(S, A, B) == S = A \cup B /\ A \cap B = {}

\* The size of a set is the sum of those of its parts.
LEMMA TwoParts ==
    ASSUME NEW S, IsFiniteSet(S), NEW A, NEW B, Parts(S, A, B)
    PROVE  /\ IsFiniteSet(A) /\ IsFiniteSet(B)
           /\ Cardinality(A) \in Nat /\ Cardinality(B) \in Nat
           /\ Cardinality(S) = Cardinality(A) + Cardinality(B)
  <1>1. A \in SUBSET S /\ B \in SUBSET S /\ S = A \cup B
    BY DEF Parts
  <1>2. IsFiniteSet(A) /\ IsFiniteSet(B)
    BY <1>1, FS_Subset
  <1>3. Cardinality(A) \in Nat /\ Cardinality(B) \in Nat
    BY <1>2, FS_CardinalityType
  <1>4. Cardinality(A \cup B) = Cardinality(A) + Cardinality(B) - Cardinality(A \cap B)
    BY <1>2, FS_Union
  <1>5. Cardinality(A \cap B) = 0
    <2>1. A \cap B = {}
      BY DEF Parts
    <2> QED BY <2>1, FS_EmptySet, Zenon
  <1>6. Cardinality(S) = Cardinality(A \cup B)
    BY <1>1, Zenon
  <1> QED BY <1>2, <1>3, <1>4, <1>5, <1>6

\* How many of the first m values of f are of a category.
CountOf(f, m, category) == Cardinality({i \in 1..m : f[i] = category})

\* What is counted under the five headings comes to all there is.
LEMMA FiveParts ==
    ASSUME NEW m \in Nat, NEW f, \A i \in 1..m : f[i] \in Categories
    PROVE  LET In(category) == CountOf(f, m, category) IN
           /\ \A category \in Categories : In(category) \in Nat
           /\ m = In("healthy") + In("broken") + In("redirect") + In("timeout") + In("error")
  <1> DEFINE Of(category) == {i \in 1..m : f[i] = category}
             h == Of("healthy")
             b == Of("broken")
             r == Of("redirect")
             t == Of("timeout")
             e == Of("error")
             te == {i \in 1..m : f[i] \in {"timeout", "error"}}
             rte == {i \in 1..m : f[i] \in {"redirect", "timeout", "error"}}
             brte == {i \in 1..m : f[i] \in {"broken", "redirect", "timeout", "error"}}
             all == 1..m
  <1>1. IsFiniteSet(all) /\ Cardinality(all) = m
    BY FS_Interval
  <1>2. Parts(all, h, brte)
    BY DEF Categories, Parts
  <1>3. Parts(brte, b, rte)
    BY DEF Parts
  <1>4. Parts(rte, r, te)
    BY DEF Parts
  <1>5. Parts(te, t, e)
    BY DEF Parts
  <1> HIDE DEF h, b, r, t, e, te, rte, brte, all
  <1>6. IsFiniteSet(brte) /\ Cardinality(h) \in Nat /\ Cardinality(all) = Cardinality(h) + Cardinality(brte)
    BY <1>1, <1>2, TwoParts
  <1>7. IsFiniteSet(rte) /\ Cardinality(b) \in Nat /\ Cardinality(brte) = Cardinality(b) + Cardinality(rte)
    BY <1>3, <1>6, TwoParts
  <1>8. IsFiniteSet(te) /\ Cardinality(r) \in Nat /\ Cardinality(rte) = Cardinality(r) + Cardinality(te)
    BY <1>4, <1>7, TwoParts
  <1>9. Cardinality(t) \in Nat /\ Cardinality(e) \in Nat /\ Cardinality(te) = Cardinality(t) + Cardinality(e)
    BY <1>5, <1>8, TwoParts
  <1>10. m = Cardinality(h) + Cardinality(b) + Cardinality(r) + Cardinality(t) + Cardinality(e)
    BY <1>1, <1>6, <1>7, <1>8, <1>9
  <1> QED BY <1>6, <1>7, <1>8, <1>9, <1>10 DEF h, b, r, t, e, Categories, CountOf

\* What a report of the links of a page counts.
LEMMA LinkCounts ==
    ASSUME NEW page \in Seq(Element), NEW network \in [Urls -> Answer]
    PROVE  LET d == QuickLinkCheck(page, network)
               targets == Destinations(page)
           IN  /\ d.total_links \in Nat /\ d.broken \in Nat /\ d.broken <= d.total_links
               /\ d.total_links = IF Cardinality(targets) < max_links
                                  THEN Cardinality(targets) ELSE max_links
               /\ d.total_links = d.healthy + d.broken + d.redirects + d.timeouts + d.errors
               /\ d.total_links = Cardinality(targets) =>
                     /\ d.broken = Cardinality({u \in targets : IsBroken(network, u)})
                     /\ d.healthy = Cardinality({u \in targets : IsHealthy(network, u)})
  <1> DEFINE found == ExtractLinks(page)
             n == Len(found)
             m == IF n < max_links THEN n ELSE max_links
             links == SubSeq(found, 1, m)
             verdict == [i \in 1..n |-> CheckSingleLink(network, found[i][1])]
             targets == Destinations(page)
             In(category) == CountOf(verdict, m, category)
             d == QuickLinkCheck(page, network)
  <1> HIDE DEF found
  <1>1. IsFound(found) /\ Range(found) = {<<u, FALSE>> : u \in targets}
    BY LinksAreDestinations DEF found
  <1>2. /\ found \in Seq(Destination) /\ n \in Nat /\ DOMAIN found = 1..n
        /\ \A i, j \in 1..n : found[i] = found[j] => i = j
    BY <1>1 DEF IsFound
  <1>3. m \in Nat /\ m <= n /\ max_links \in Nat /\ \A i \in 1..m : i \in 1..n
    BY <1>2, LinkAssumption
  <1>4. \A i \in 1..n : found[i] = <<found[i][1], FALSE>> /\ found[i][1] \in Urls
    <2> TAKE i \in 1..n
    <2>1. found[i] \in Destination
      BY <1>2
    <2> QED BY <2>1, DestinationIs, Zenon
  <1>5. DOMAIN links = 1..m /\ Len(links) = m /\ \A i \in 1..m : links[i] = found[i]
    BY <1>2, <1>3
  <1>6. \A i \in 1..n : /\ verdict[i] \in Categories
                        /\ verdict[i] = "broken" <=> IsBroken(network, found[i][1])
                        /\ verdict[i] = "healthy" <=> IsHealthy(network, found[i][1])
    BY <1>4, CheckIsRight
  <1>7. \A c : {i \in DOMAIN links : CheckSingleLink(network, links[i][1]) = c}
                  = {i \in 1..m : verdict[i] = c}
    <2> TAKE c
    <2>1. \A i \in 1..m : CheckSingleLink(network, links[i][1]) = verdict[i]
      BY <1>3, <1>5
    <2> HIDE DEF links, verdict, m
    <2> QED BY <1>5, <2>1
  <1>8. /\ d.total_links = m /\ d.healthy = In("healthy") /\ d.broken = In("broken")
        /\ d.redirects = In("redirect") /\ d.timeouts = In("timeout") /\ d.errors = In("error")
    <2> DEFINE Of(c) == Cardinality({i \in DOMAIN links : CheckSingleLink(network, links[i][1]) = c})
    <2>1. d = [total_links |-> Len(links), healthy |-> Of("healthy"), broken |-> Of("broken"),
               redirects |-> Of("redirect"), timeouts |-> Of("timeout"), errors |-> Of("error")]
      BY Zenon DEF QuickLinkCheck, found
    <2>2. \A c : Of(c) = In(c)
      BY <1>7, Zenon DEF CountOf
    <2> HIDE DEF d, links, Of, In
    <2> QED BY <1>5, <2>1, <2>2
  <1>9. /\ \A category \in Categories : In(category) \in Nat
        /\ m = In("healthy") + In("broken") + In("redirect") + In("timeout") + In("error")
    <2>1. \A i \in 1..m : verdict[i] \in Categories
      BY <1>3, <1>6
    <2> HIDE DEF verdict, m
    <2> QED BY <1>3, <2>1, FiveParts
  <1>10. In("broken") \in Nat /\ In("broken") <= m
    <2> HIDE DEF In, m
    <2>1. \A c \in {"healthy", "broken", "redirect", "timeout", "error"} : In(c) \in Nat
      BY <1>9 DEF Categories
    <2> QED BY <1>9, <2>1
  <1>11. \A x : x \in targets <=> \E i \in 1..n : x = found[i][1]
    <2>1. \A x : x \in targets <=> <<x, FALSE>> \in Range(found)
      BY <1>1
    <2>2. Range(found) = {found[i] : i \in 1..n}
      BY <1>2 DEF Range
    <2> HIDE DEF targets
    <2>3. \A x : <<x, FALSE>> \in Range(found) <=> \E i \in 1..n : found[i] = <<x, FALSE>>
      BY <2>2
    <2>4. \A x : \A i \in 1..n : found[i] = <<x, FALSE>> <=> x = found[i][1]
      <3> TAKE x
      <3> TAKE i \in 1..n
      <3>1. found[i] = <<found[i][1], FALSE>>
        BY <1>4
      <3>2. <<x, FALSE>>[1] = x
        OBVIOUS
      <3> QED BY <3>1, <3>2, Zenon
    <2> QED BY <2>1, <2>3, <2>4
  <1>12. ASSUME NEW S, NEW T, S \subseteq 1..n, \A x : x \in T <=> \E i \in S : x = found[i][1]
         PROVE  IsFiniteSet(T) /\ Cardinality(T) = Cardinality(S)
    <2> DEFINE f == [i \in S |-> found[i][1]]
    <2>1. IsFiniteSet(S)
      <3>1. IsFiniteSet(1..n)
        BY <1>2, FS_Interval
      <3> QED BY <1>12, <3>1, FS_Subset
    <2>2. \A x \in S : f[x] \in T
      BY <1>12
    <2>3. \A x, y \in S : f[x] = f[y] => x = y
      <3> SUFFICES ASSUME NEW x \in S, NEW y \in S, f[x] = f[y] PROVE x = y
        OBVIOUS
      <3>1. x \in 1..n /\ y \in 1..n /\ found[x][1] = found[y][1]
        BY <1>12
      <3>2. found[x] = <<found[x][1], FALSE>> /\ found[y] = <<found[y][1], FALSE>>
        BY <1>4, <3>1
      <3>3. found[x] = found[y]
        BY <3>1, <3>2, Zenon
      <3> QED BY <1>2, <3>1, <3>3
    <2>4. \A z \in T : \E x \in S : z = f[x]
      BY <1>12
    <2> HIDE DEF f
    <2> QED BY <2>1, <2>2, <2>3, <2>4, SameCount
  <1>13. Cardinality(targets) = n
    <2> DEFINE all == 1..n
    <2>1. all \subseteq 1..n /\ \A x : x \in targets <=> \E i \in all : x = found[i][1]
      BY <1>11
    <2>2. Cardinality(all) = n
      BY <1>2, IntervalSize, Zenon
    <2> HIDE DEF targets, all
    <2>3. Cardinality(targets) = Cardinality(all)
      BY <1>12, <2>1
    <2> QED BY <2>2, <2>3
  <1>14. ASSUME m = n
         PROVE  /\ In("broken") = Cardinality({u \in targets : IsBroken(network, u)})
                /\ In("healthy") = Cardinality({u \in targets : IsHealthy(network, u)})
    <2> DEFINE broken == {u \in targets : IsBroken(network, u)}
               healthy == {u \in targets : IsHealthy(network, u)}
               bs == {i \in 1..m : verdict[i] = "broken"}
               hs == {i \in 1..m : verdict[i] = "healthy"}
    <2>1. bs \subseteq 1..n /\ hs \subseteq 1..n
      BY <1>3
    <2>2. \A x : x \in broken <=> \E i \in bs : x = found[i][1]
      <3> HIDE DEF verdict, targets, m
      <3> QED BY <1>6, <1>11, <1>14
    <2>3. \A x : x \in healthy <=> \E i \in hs : x = found[i][1]
      <3> HIDE DEF verdict, targets, m
      <3> QED BY <1>6, <1>11, <1>14
    <2> HIDE DEF broken, healthy, bs, hs
    <2>4. Cardinality(broken) = Cardinality(bs)
      BY <1>12, <2>1, <2>2
    <2>5. Cardinality(healthy) = Cardinality(hs)
      BY <1>12, <2>1, <2>3
    <2> QED BY <2>4, <2>5, Zenon DEF broken, healthy, bs, hs, CountOf
  <1> HIDE DEF d, In, targets
  <1>15. d.total_links = IF Cardinality(targets) < max_links THEN Cardinality(targets) ELSE max_links
    BY <1>8, <1>13
  <1>16. d.total_links = Cardinality(targets) => m = n
    BY <1>8, <1>13
  <1> HIDE DEF m
  <1> QED BY <1>3, <1>8, <1>9, <1>10, <1>14, <1>15, <1>16 DEF d, targets

-----------------------------------------------------------------------------
(* The trees of a page.                                                    *)

\* A tree with the nodes 1..n, each after its parent.
IsTreeOf(t, n) ==
    /\ n \in Nat
    /\ DOMAIN t.parent = 1..n /\ Cardinality(Nodes(t)) = n
    /\ \A i \in 1..n : t.parent[i] \in Nat /\ t.parent[i] < i

\* What is listed as a tree is one.
LEMMA TreeIs ==
    ASSUME NEW n \in Nat, NEW L, NEW t \in Trees(n, L)
    PROVE  /\ IsTreeOf(t, n) /\ Nodes(t) = 1..n
           /\ \A i \in 1..n : t.label[i] \in L
  <1> DEFINE parents == {q \in [1..n -> 0..(n - 1)] : \A i \in 1..n : q[i] < i}
             labels == [1..n -> L]
  <1>1. Trees(n, L) = {[parent |-> p, label |-> l] : p \in parents, l \in labels}
    BY DEF Trees
  <1> HIDE DEF parents, labels
  <1>2. PICK p \in parents, l \in labels : t = [parent |-> p, label |-> l]
    BY <1>1
  <1>3. t.parent \in parents /\ t.label \in labels
    BY <1>2
  <1>4. t.parent \in [1..n -> 0..(n - 1)] /\ \A i \in 1..n : t.parent[i] < i
    BY <1>3 DEF parents
  <1>5. \A i \in 1..n : t.label[i] \in L
    BY <1>3 DEF labels
  <1>6. Nodes(t) = 1..n
    BY <1>4 DEF Nodes
  <1>7. Cardinality(Nodes(t)) = n
    BY <1>6, IntervalSize, Zenon
  <1> QED BY <1>4, <1>5, <1>6, <1>7 DEF IsTreeOf

\* The recursion of the ancestors.
IsLineage(a, t, n) ==
    a = [i \in 0..n |-> IF i = Root THEN {} ELSE {t.parent[i]} \cup a[t.parent[i]]]

\* The recursion of the ancestors has a solution.
LEMMA LineageExists ==
    ASSUME NEW t, NEW n, IsTreeOf(t, n)
    PROVE  \E a : IsLineage(a, t, n)
  <1> DEFINE D == 0..n
             S == SUBSET D
             m == n + 1
             rank == [i \in D |-> i]
             F == [x \in D \X [D -> S] |->
                      IF x[1] = 0 THEN {} ELSE {t.parent[x[1]]} \cup x[2][t.parent[x[1]]]]
  <1>1. n \in Nat /\ \A i \in D : i # 0 => t.parent[i] \in D /\ t.parent[i] < i
    BY DEF IsTreeOf
  <1>2. m \in Nat /\ rank \in [D -> Nat] /\ (\A i \in D : rank[i] < m) /\ S # {}
    <2>1. m \in Nat /\ rank \in [D -> Nat] /\ \A i \in D : rank[i] < m
      BY <1>1
    <2>2. {} \in S
      OBVIOUS
    <2> QED BY <2>1, <2>2
  <1>3. \A i \in D, g \in [D -> S] :
           F[<<i, g>>] = IF i = 0 THEN {} ELSE {t.parent[i]} \cup g[t.parent[i]]
    OBVIOUS
  <1>4. \A i \in D, g \in [D -> S] :
           (IF i = 0 THEN {} ELSE {t.parent[i]} \cup g[t.parent[i]]) \in S
    <2> TAKE i \in D, g \in [D -> S]
    <2>1. CASE i = 0
      BY <2>1
    <2>2. CASE i # 0
      <3>1. t.parent[i] \in D
        BY <1>1, <2>2
      <3>2. g[t.parent[i]] \in S
        BY <3>1
      <3>3. {t.parent[i]} \cup g[t.parent[i]] \in S
        BY <3>1, <3>2
      <3> QED BY <2>2, <3>3
    <2> QED BY <2>1, <2>2
  <1>5. F \in [D \X [D -> S] -> S]
    BY <1>3, <1>4
  <1>6. ASSUME NEW i \in D, NEW g \in [D -> S], NEW h \in [D -> S],
               \A j \in D : rank[j] < rank[i] => g[j] = h[j]
        PROVE  F[<<i, g>>] = F[<<i, h>>]
    <2>1. CASE i = 0
      <3> HIDE DEF F
      <3> QED BY <1>3, <2>1
    <2>2. CASE i # 0
      <3>1. t.parent[i] \in D /\ rank[t.parent[i]] < rank[i]
        BY <1>1, <2>2
      <3>2. g[t.parent[i]] = h[t.parent[i]]
        BY <1>6, <3>1
      <3>3. /\ F[<<i, g>>] = {t.parent[i]} \cup g[t.parent[i]]
            /\ F[<<i, h>>] = {t.parent[i]} \cup h[t.parent[i]]
        <4> HIDE DEF F
        <4> QED BY <1>3, <2>2
      <3> HIDE DEF F
      <3> QED BY <3>2, <3>3, Zenon
    <2> QED BY <2>1, <2>2
  <1> HIDE DEF F, rank, S, D, m
  <1>7. \A i \in D : \A g, h \in [D -> S] :
           (\A j \in D : rank[j] < rank[i] => g[j] = h[j]) => F[<<i, g>>] = F[<<i, h>>]
    BY <1>6
  <1>8. IsRecursion(D, S, rank, m, F)
    BY <1>2, <1>5, <1>7 DEF IsRecursion
  <1>9. PICK g \in [D -> S] : \A i \in D : g[i] = F[<<i, g>>]
    BY <1>8, RecursiveDefinition
  <1>10. \A i \in D : g[i] = IF i = 0 THEN {} ELSE {t.parent[i]} \cup g[t.parent[i]]
    BY <1>3, <1>9
  <1> DEFINE value(i) == IF i = 0 THEN {} ELSE {t.parent[i]} \cup g[t.parent[i]]
  <1>11. \A i \in D : g[i] = value(i)
    BY <1>10, Zenon
  <1> HIDE DEF value
  <1>12. g = [i \in D |-> value(i)]
    BY <1>9, <1>11
  <1>13. IsLineage(g, t, n)
    BY <1>12, Zenon DEF IsLineage, D, value, Root
  <1> QED BY <1>13

\* The ancestors of a node: its parent and those of its parent.
LEMMA AncestorsAre ==
    ASSUME NEW t, NEW n, IsTreeOf(t, n)
    PROVE  /\ Ancestors(t)[0] = {}
           /\ \A i \in 1..n : Ancestors(t)[i] = {t.parent[i]} \cup Ancestors(t)[t.parent[i]]
           /\ \A i \in 0..n : \A k \in Ancestors(t)[i] : k \in Nat /\ k < i
           /\ \A i \in 1..n : 0 \in Ancestors(t)[i]
  <1> DEFINE a == Ancestors(t)
  <1>1. Ancestors(t) = CHOOSE g : IsLineage(g, t, n)
    <2>1. Cardinality(Nodes(t)) = n
      BY DEF IsTreeOf
    <2> QED BY <2>1, Zenon DEF Ancestors, IsLineage
  <1>2. IsLineage(a, t, n)
    <2> HIDE DEF a
    <2>1. a = CHOOSE g : IsLineage(g, t, n)
      BY <1>1 DEF a
    <2> QED BY <2>1, LineageExists
  <1> HIDE DEF a
  <1>3. n \in Nat /\ \A i \in 1..n : t.parent[i] \in Nat /\ t.parent[i] < i /\ t.parent[i] \in 0..n
    BY DEF IsTreeOf
  <1> DEFINE value(i) == IF i = 0 THEN {} ELSE {t.parent[i]} \cup a[t.parent[i]]
  <1>4. a = [i \in 0..n |-> value(i)]
    BY <1>2, Zenon DEF IsLineage, Root
  <1>5. \A i \in 0..n : a[i] = value(i)
    <2> HIDE DEF value
    <2> QED BY <1>4
  <1>6. 0 \in 0..n /\ \A i \in 1..n : i \in 0..n /\ i # 0
    BY <1>3
  <1>7. a[0] = {}
    BY <1>5, <1>6, Zenon
  <1>8. \A i \in 1..n : a[i] = {t.parent[i]} \cup a[t.parent[i]]
    BY <1>5, <1>6, Zenon
  <1> HIDE DEF value
  <1> DEFINE Good(i) == /\ \A k \in a[i] : k \in Nat /\ k < i
                        /\ i # 0 => 0 \in a[i]
             S == {m \in Nat : \A i \in 0..n : i <= m => Good(i)}
  <1>9. 0 \in S
    <2>1. \A i \in 0..n : i <= 0 => i = 0
      BY <1>3
    <2>2. Good(0)
      BY <1>7
    <2> HIDE DEF Good
    <2> QED BY <2>1, <2>2
  <1>10. ASSUME NEW m \in Nat, m \in S PROVE m + 1 \in S
    <2> SUFFICES ASSUME NEW i \in 0..n, i <= m + 1 PROVE Good(i)
      OBVIOUS
    <2>1. CASE i <= m
      BY <1>10, <2>1
    <2>2. CASE ~(i <= m)
      <3>1. i = m + 1 /\ i \in 1..n /\ i # 0
        BY <1>3, <2>2
      <3> DEFINE p == t.parent[i]
      <3>2. p \in Nat /\ p < i /\ p \in 0..n /\ p <= m /\ a[i] = {p} \cup a[p]
        BY <1>3, <1>8, <3>1
      <3> HIDE DEF p
      <3>3. Good(p)
        BY <1>10, <3>2
      <3>4. \A k \in a[i] : k \in Nat /\ k < i
        <4> TAKE k \in a[i]
        <4>1. k = p \/ (k \in a[p] /\ k \in Nat /\ k < p)
          BY <3>2, <3>3
        <4> QED BY <3>1, <3>2, <4>1
      <3>5. 0 \in a[i]
        BY <3>2, <3>3
      <3> QED BY <3>4, <3>5
    <2> QED BY <2>1, <2>2
  <1> HIDE DEF S
  <1>11. \A m \in Nat : m \in S
    BY <1>9, <1>10, AllNaturals
  <1>12. \A i \in 0..n : Good(i)
    <2>1. n \in S /\ \A i \in 0..n : i <= n
      BY <1>3, <1>11
    <2> QED BY <2>1 DEF S
  <1>13. \A i \in 1..n : 0 \in a[i]
    BY <1>6, <1>12
  <1> QED BY <1>7, <1>8, <1>12, <1>13 DEF a

\* The ancestors of an ancestor are ancestors, and of two ancestors one is an
\* ancestor of the other.
LEMMA Lineage ==
    ASSUME NEW t, NEW n, IsTreeOf(t, n)
    PROVE  LET a == Ancestors(t) IN
           /\ \A i \in 0..n : \A k \in a[i] : a[k] \subseteq a[i]
           /\ \A i \in 0..n : \A j, k \in a[i] : j = k \/ j \in a[k] \/ k \in a[j]
  <1> DEFINE a == Ancestors(t)
             Closed(i) == \A k \in a[i] : a[k] \subseteq a[i]
             Chain(i) == \A j, k \in a[i] : j = k \/ j \in a[k] \/ k \in a[j]
             S == {m \in Nat : \A i \in 0..n : i <= m => Closed(i) /\ Chain(i)}
  <1>1. /\ n \in Nat /\ a[0] = {}
        /\ \A i \in 1..n : /\ t.parent[i] \in 0..n /\ t.parent[i] < i
                           /\ a[i] = {t.parent[i]} \cup a[t.parent[i]]
    BY AncestorsAre DEF IsTreeOf
  <1> HIDE DEF a
  <1>2. 0 \in S
    <2>1. Closed(0) /\ Chain(0)
      BY <1>1
    <2>2. \A i \in 0..n : i <= 0 => i = 0
      BY <1>1
    <2> HIDE DEF Closed, Chain
    <2> QED BY <2>1, <2>2
  <1>3. ASSUME NEW m \in Nat, m \in S PROVE m + 1 \in S
    <2> SUFFICES ASSUME NEW i \in 0..n, i <= m + 1 PROVE Closed(i) /\ Chain(i)
      OBVIOUS
    <2>1. CASE i <= m
      BY <1>3, <2>1
    <2>2. CASE ~(i <= m)
      <3>1. i = m + 1 /\ i \in 1..n
        BY <1>1, <2>2
      <3> DEFINE p == t.parent[i]
      <3>2. p \in 0..n /\ p <= m /\ a[i] = {p} \cup a[p]
        BY <1>1, <3>1
      <3> HIDE DEF p
      <3>3. Closed(p) /\ Chain(p)
        BY <1>3, <3>2
      <3>4. Closed(i)
        BY <3>2, <3>3
      <3>5. Chain(i)
        BY <3>2, <3>3
      <3> QED BY <3>4, <3>5
    <2> QED BY <2>1, <2>2
  <1> HIDE DEF S
  <1>4. \A m \in Nat : m \in S
    BY <1>2, <1>3, AllNaturals
  <1>5. \A i \in 0..n : Closed(i) /\ Chain(i)
    <2>1. n \in S /\ \A i \in 0..n : i <= n
      BY <1>1, <1>4
    <2> QED BY <2>1 DEF S
  <1> QED BY <1>5 DEF a

\* A node lies below another when a child of that one is there or above.
LEMMA ChildBetween ==
    ASSUME NEW t, NEW n, IsTreeOf(t, n)
    PROVE  LET a == Ancestors(t) IN
           \A i \in 1..n : \A j \in 1..n :
              i \in a[j] <=> \E k \in Children(t, i) : k = j \/ k \in a[j]
  <1> DEFINE a == Ancestors(t)
             Good(j) == \A i \in 1..n : i \in a[j] =>
                           \E k \in Children(t, i) : k = j \/ k \in a[j]
             S == {m \in Nat : \A j \in 0..n : j <= m => Good(j)}
  <1>1. /\ n \in Nat /\ a[0] = {}
        /\ \A i \in 1..n : /\ t.parent[i] \in 0..n /\ t.parent[i] < i
                           /\ a[i] = {t.parent[i]} \cup a[t.parent[i]]
    BY AncestorsAre DEF IsTreeOf
  <1>2. \A i \in 0..n : \A k \in a[i] : a[k] \subseteq a[i]
    BY Lineage
  <1>3. \A i, k : k \in Children(t, i) <=> k \in 1..n /\ t.parent[k] = i
    BY DEF Children, Nodes, IsTreeOf
  <1> HIDE DEF a
  <1>4. 0 \in S
    <2>1. Good(0)
      BY <1>1
    <2>2. \A i \in 0..n : i <= 0 => i = 0
      BY <1>1
    <2> HIDE DEF Good
    <2> QED BY <2>1, <2>2
  <1>5. ASSUME NEW m \in Nat, m \in S PROVE m + 1 \in S
    <2> SUFFICES ASSUME NEW j \in 0..n, j <= m + 1 PROVE Good(j)
      OBVIOUS
    <2>1. CASE j <= m
      BY <1>5, <2>1
    <2>2. CASE ~(j <= m)
      <3>1. j = m + 1 /\ j \in 1..n
        BY <1>1, <2>2
      <3> DEFINE p == t.parent[j]
      <3>2. p \in 0..n /\ p <= m /\ a[j] = {p} \cup a[p]
        BY <1>1, <3>1
      <3>3. j \in Children(t, p)
        BY <1>3, <3>1
      <3> HIDE DEF p
      <3>4. Good(p)
        BY <1>5, <3>2
      <3> QED BY <3>2, <3>3, <3>4
    <2> QED BY <2>1, <2>2
  <1> HIDE DEF S
  <1>6. \A m \in Nat : m \in S
    BY <1>4, <1>5, AllNaturals
  <1>7. \A j \in 1..n : Good(j)
    <2>1. n \in S /\ \A i \in 1..n : i <= n /\ i \in 0..n
      BY <1>1, <1>6
    <2> QED BY <2>1 DEF S
  <1>8. ASSUME NEW i \in 1..n, NEW j \in 1..n, NEW k \in Children(t, i), k = j \/ k \in a[j]
        PROVE  i \in a[j]
    <2>1. k \in 1..n /\ t.parent[k] = i /\ j \in 0..n
      BY <1>1, <1>3
    <2>2. i \in a[k]
      BY <1>1, <2>1
    <2> QED BY <1>2, <1>8, <2>1, <2>2
  <1> QED BY <1>7, <1>8 DEF a

\* A list of the members of a set, each of them once.
Lists(s, T) ==
    /\ s \in Seq(T)
    /\ \A x \in T : \E k \in 1..Len(s) : s[k] = x
    /\ \A k, l \in 1..Len(s) : s[k] = s[l] => k = l

\* The shortest lists are such,
LEMMA ShortLists ==
    /\ Lists(<<>>, {})
    /\ \A x : Lists(<<x>>, {x})
  <1>1. Lists(<<>>, {})
    BY DEF Lists
  <1>2. ASSUME NEW x PROVE Lists(<<x>>, {x})
    <2>1. <<x>> \in Seq({x}) /\ Len(<<x>>) = 1 /\ <<x>>[1] = x
      OBVIOUS
    <2>2. \A k \in 1..1 : k = 1
      OBVIOUS
    <2> QED BY <2>1, <2>2 DEF Lists
  <1> QED BY <1>1, <1>2

\* and two lists of different things one after the other.
LEMMA JoinedLists ==
    ASSUME NEW S, NEW T, NEW s, NEW u, Lists(s, S), Lists(u, T), S \cap T = {}
    PROVE  Lists(s \o u, S \cup T)
  <1> DEFINE m == Len(s)
             n == Len(u)
             q == s \o u
  <1>1. /\ s \in Seq(S) /\ u \in Seq(T) /\ m \in Nat /\ n \in Nat
        /\ \A k \in 1..m : s[k] \in S
        /\ \A k \in 1..n : u[k] \in T
    BY DEF Lists
  <1>2. s \in Seq(S \cup T) /\ u \in Seq(S \cup T)
    BY <1>1
  <1>3. /\ q \in Seq(S \cup T) /\ Len(q) = m + n
        /\ \A k \in 1..(m + n) : q[k] = IF k <= m THEN s[k] ELSE u[k - m]
    BY <1>2
  <1> HIDE DEF q, m, n
  <1>4. \A x \in S : \E k \in 1..m : s[k] = x
    BY DEF Lists, m
  <1>5. \A x \in T : \E k \in 1..n : u[k] = x
    BY DEF Lists, n
  <1>6. /\ \A k, l \in 1..m : s[k] = s[l] => k = l
        /\ \A k, l \in 1..n : u[k] = u[l] => k = l
    BY DEF Lists, m, n
  <1>7. \A k \in 1..(m + n) : \/ k \in 1..m /\ q[k] = s[k] /\ q[k] \in S
                              \/ k - m \in 1..n /\ q[k] = u[k - m] /\ q[k] \in T /\ k > m
    BY <1>1, <1>3
  <1>8. ASSUME NEW x \in S \cup T PROVE \E k \in 1..(m + n) : q[k] = x
    <2>1. CASE x \in S
      <3>1. PICK k \in 1..m : s[k] = x
        BY <1>4, <2>1
      <3>2. k \in 1..(m + n) /\ q[k] = s[k]
        BY <1>1, <1>3
      <3> QED BY <3>1, <3>2
    <2>2. CASE x \in T
      <3>1. PICK k \in 1..n : u[k] = x
        BY <1>5, <2>2
      <3>2. m + k \in 1..(m + n) /\ ~(m + k <= m) /\ (m + k) - m = k
        BY <1>1
      <3>3. q[m + k] = u[k]
        BY <1>3, <3>2
      <3> QED BY <3>1, <3>2, <3>3
    <2> QED BY <2>1, <2>2
  <1>9. ASSUME NEW k \in 1..(m + n), NEW l \in 1..(m + n), q[k] = q[l] PROVE k = l
    <2>1. CASE k \in 1..m /\ q[k] = s[k] /\ q[k] \in S
      <3>1. l \in 1..m /\ q[l] = s[l]
        BY <1>7, <1>9, <2>1
      <3> QED BY <1>6, <1>9, <2>1, <3>1
    <2>2. CASE k - m \in 1..n /\ q[k] = u[k - m] /\ q[k] \in T /\ k > m
      <3>1. l - m \in 1..n /\ q[l] = u[l - m]
        BY <1>7, <1>9, <2>2
      <3>2. k - m = l - m
        BY <1>6, <1>9, <2>2, <3>1
      <3> QED BY <1>1, <3>2
    <2> QED BY <1>7, <2>1, <2>2
  <1> QED BY <1>3, <1>8, <1>9 DEF Lists, q

\* Such a list is as long as the set is large.
LEMMA ListsCount ==
    ASSUME NEW T, NEW s, Lists(s, T)
    PROVE  ListsOnce(s, T)
  <1> DEFINE n == Len(s)
             D == 1..n
  <1>1. n \in Nat /\ DOMAIN s = D /\ s \in [D -> T]
    BY DEF Lists
  <1>2. /\ \A x \in T : \E k \in D : s[k] = x
        /\ \A k, l \in D : s[k] = s[l] => k = l
    BY DEF Lists
  <1>3. IsFiniteSet(D) /\ Cardinality(D) = n
    BY <1>1, IntervalSize
  <1> HIDE DEF D, n
  <1>4. s \in Injection(D, T)
    BY <1>1, <1>2 DEF Injection, IsInjective
  <1>5. s \in Surjection(D, T)
    BY <1>1, <1>2 DEF Surjection
  <1>6. ExistsBijection(D, T)
    BY <1>4, <1>5 DEF ExistsBijection, Bijection
  <1>7. Cardinality(T) = n
    BY <1>3, <1>6, FS_Bijection
  <1>8. ToSet(s) = T
    <2>1. ToSet(s) = {s[k] : k \in D}
      BY <1>1 DEF ToSet
    <2> QED BY <1>1, <1>2, <2>1
  <1> QED BY <1>7, <1>8 DEF ListsOnce, n

\* The recursion of FlattenSeq.
IsJoined(g, f, n) == g = [i \in 1..n |-> IF i = 1 THEN f[i] ELSE g[i - 1] \o f[i]]

\* g joins the first elements of f, one more at each index.
IsJoining(g, f, n, Q) ==
    /\ g \in [1..n -> Q]
    /\ FlattenSeq(f) = g[n] /\ g[1] = f[1]
    /\ \A k \in 1..n : k # 1 => g[k] = g[k - 1] \o f[k]

\* Sequences of a kind that joining preserves are joined one after the other.
LEMMA FlattenStep ==
    ASSUME NEW n \in Nat \ {0}, NEW Q, NEW f \in Seq(Q), Len(f) = n,
           Q # {}, \A s, t \in Q : s \o t \in Q
    PROVE  \E g : IsJoining(g, f, n, Q)
  <1> DEFINE D == 1..n
             m == n + 1
             rank == [k \in D |-> k]
             next(k, h) == IF k = 1 THEN f[k] ELSE h[k - 1] \o f[k]
             F == [x \in D \X [D -> Q] |-> next(x[1], x[2])]
             g == CHOOSE h : IsJoined(h, f, n)
  <1>1. /\ m \in Nat /\ rank \in [D -> Nat] /\ (\A k \in D : rank[k] < m)
        /\ \A k \in D : f[k] \in Q /\ (k # 1 => k - 1 \in D /\ rank[k - 1] < rank[k])
    OBVIOUS
  <1> HIDE DEF D, rank, m
  <1>4. \A k \in D, h \in [D -> Q] : F[<<k, h>>] = next(k, h) /\ next(k, h) \in Q
    <2> TAKE k \in D, h \in [D -> Q]
    <2>1. next(k, h) \in Q
      BY <1>1
    <2> HIDE DEF next
    <2>2. F[<<k, h>>] = next(k, h)
      OBVIOUS
    <2> QED BY <2>1, <2>2
  <1>5. F \in [D \X [D -> Q] -> Q]
    <2> HIDE DEF next
    <2>1. \A x \in D \X [D -> Q] : next(x[1], x[2]) \in Q
      <3> TAKE x \in D \X [D -> Q]
      <3>1. x[1] \in D /\ x[2] \in [D -> Q]
        OBVIOUS
      <3> QED BY <1>4, <3>1, Zenon
    <2> QED BY <2>1
  <1>6. ASSUME NEW k \in D, NEW g1 \in [D -> Q], NEW g2 \in [D -> Q],
               \A j \in D : rank[j] < rank[k] => g1[j] = g2[j]
        PROVE  F[<<k, g1>>] = F[<<k, g2>>]
    <2>1. next(k, g1) = next(k, g2)
      BY <1>1, <1>6
    <2> HIDE DEF next, F
    <2> QED BY <1>4, <2>1
  <1> HIDE DEF F
  <1>7. \A k \in D : \A g1, g2 \in [D -> Q] :
           (\A j \in D : rank[j] < rank[k] => g1[j] = g2[j]) => F[<<k, g1>>] = F[<<k, g2>>]
    BY <1>6
  <1>8. IsRecursion(D, Q, rank, m, F)
    BY <1>1, <1>5, <1>7 DEF IsRecursion
  <1>9. PICK h \in [D -> Q] : \A k \in D : h[k] = F[<<k, h>>]
    BY <1>8, RecursiveDefinition
  <1>10. \A k \in D : h[k] = next(k, h)
    BY <1>4, <1>9
  <1>11. IsJoined(h, f, n)
    <2> HIDE DEF next
    <2>1. h = [k \in D |-> next(k, h)]
      BY <1>9, <1>10
    <2> QED BY <2>1, Zenon DEF IsJoined, next, D
  <1>12. IsJoined(g, f, n)
    BY <1>11
  <1> HIDE DEF g
  <1>13. \A k \in D : g[k] = next(k, g)
    <2> HIDE DEF next
    <2>1. g = [k \in D |-> next(k, g)]
      BY <1>12, Zenon DEF IsJoined, next, D
    <2> QED BY <2>1
  <1>14. FlattenSeq(f) = g[n]
    <2>1. FlattenSeq(f) = (CHOOSE h1 : IsJoined(h1, f, Len(f)))[Len(f)]
      BY Zenon DEF FlattenSeq, IsJoined
    <2> QED BY <2>1, Zenon DEF g
  <1> DEFINE K == {k \in Nat : k \in D => g[k] \in Q}
  <1>15. 0 \in K
    BY DEF D
  <1>16. ASSUME NEW k \in Nat, k \in K PROVE k + 1 \in K
    <2> SUFFICES ASSUME k + 1 \in D PROVE g[k + 1] \in Q
      OBVIOUS
    <2>1. f[k + 1] \in Q /\ g[k + 1] = next(k + 1, g)
      BY <1>1, <1>13
    <2>2. k + 1 # 1 => (k + 1) - 1 = k /\ k \in D
      BY DEF D
    <2> QED BY <1>16, <2>1, <2>2
  <1> HIDE DEF K
  <1>17. \A k \in Nat : k \in K
    BY <1>15, <1>16, AllNaturals
  <1>18. \A k \in D : g[k] \in Q
    BY <1>17 DEF K, D
  <1>19. g = [k \in D |-> g[k]]
    BY <1>12, Zenon DEF IsJoined, D
  <1>20. g \in [D -> Q] /\ 1 \in D
    BY <1>18, <1>19 DEF D
  <1>21. g[1] = f[1] /\ \A k \in D : k # 1 => g[k] = g[k - 1] \o f[k]
    BY <1>13, <1>20
  <1>22. IsJoining(g, f, n, Q)
    BY <1>14, <1>20, <1>21, Zenon DEF D, IsJoining
  <1> QED BY <1>22

\* Sequences of things from a set are joined to one.
LEMMA FlattenIsSeq ==
    ASSUME NEW n \in Nat \ {0}, NEW S, NEW f \in Seq(Seq(S)), Len(f) = n
    PROVE  FlattenSeq(f) \in Seq(S)
  <1>1. n \in 1..n
    OBVIOUS
  <1> DEFINE Q == Seq(S)
  <1>2. <<>> \in Q /\ \A s, t \in Q : s \o t \in Q
    OBVIOUS
  <1>3. f \in Seq(Q)
    OBVIOUS
  <1> HIDE DEF Q
  <1>4. Q # {}
    BY <1>2
  <1>5. PICK g : IsJoining(g, f, n, Q)
    BY <1>2, <1>3, <1>4, FlattenStep, Zenon
  <1> QED BY <1>1, <1>5 DEF Q, IsJoining

\* Lists of different things are joined to a list of them all.
LEMMA FlattenLists ==
    ASSUME NEW n \in Nat \ {0}, NEW f, NEW T, f = [k \in 1..n |-> f[k]],
           \A k \in 1..n : Lists(f[k], T[k]),
           \A k, l \in 1..n : k # l => T[k] \cap T[l] = {}
    PROVE  Lists(FlattenSeq(f), UNION {T[k] : k \in 1..n})
  <1> DEFINE S == UNION {T[k] : k \in 1..n}
             upTo(m) == UNION {T[k] : k \in 1..m}
  <1>1. \A k \in 1..n : f[k] \in Seq(S)
    <2> TAKE k \in 1..n
    <2>1. f[k] \in Seq(T[k])
      BY DEF Lists
    <2>2. T[k] \subseteq S
      OBVIOUS
    <2> HIDE DEF S
    <2> QED BY <2>1, <2>2
  <1> DEFINE Q == Seq(S)
  <1>2. f \in [1..n -> Q] /\ Q # {} /\ \A s, t \in Q : s \o t \in Q
    <2>1. f \in [1..n -> Q]
      BY <1>1
    <2> HIDE DEF S
    <2>2. <<>> \in Q /\ \A s, t \in Q : s \o t \in Q
      OBVIOUS
    <2> QED BY <2>1, <2>2
  <1> HIDE DEF S, Q
  <1>3. f \in Seq(Q) /\ Len(f) = n
    BY <1>2
  <1>4. PICK g : IsJoining(g, f, n, Q)
    BY <1>2, <1>3, FlattenStep, Zenon
  <1>5. /\ FlattenSeq(f) = g[n] /\ g[1] = f[1]
        /\ \A k \in 1..n : k # 1 => g[k] = g[k - 1] \o f[k]
    BY <1>4 DEF IsJoining
  <1> DEFINE M == {m \in Nat : m \in 1..n => Lists(g[m], upTo(m))}
  <1>6. 0 \in M
    OBVIOUS
  <1>7. ASSUME NEW m \in Nat, m \in M PROVE m + 1 \in M
    <2> SUFFICES ASSUME m + 1 \in 1..n PROVE Lists(g[m + 1], upTo(m + 1))
      OBVIOUS
    <2>1. Lists(f[m + 1], T[m + 1])
      OBVIOUS
    <2>2. upTo(m + 1) = upTo(m) \cup T[m + 1]
      <3>1. \A k : k \in 1..(m + 1) <=> k \in 1..m \/ k = m + 1
        OBVIOUS
      <3> QED BY <3>1
    <2>3. CASE m = 0
      <3>1. upTo(m) = {}
        BY <2>3
      <3> HIDE DEF upTo
      <3>2. upTo(m + 1) = T[m + 1]
        BY <2>2, <3>1, Zenon
      <3>3. m + 1 = 1
        BY <2>3
      <3>4. Lists(g[m + 1], T[m + 1])
        BY <1>5, <2>1, <3>3
      <3> QED BY <3>2, <3>4, Zenon
    <2>4. CASE m # 0
      <3>1. m \in 1..n /\ m + 1 # 1 /\ (m + 1) - 1 = m
        BY <2>4
      <3>2. Lists(g[m], upTo(m))
        BY <1>7, <3>1
      <3>3. upTo(m) \cap T[m + 1] = {}
        <4>1. \A k \in 1..m : k \in 1..n /\ k # m + 1
          BY <3>1
        <4> QED BY <4>1
      <3>4. g[m + 1] = g[m] \o f[m + 1]
        BY <1>5, <3>1
      <3> HIDE DEF upTo
      <3>5. Lists(g[m] \o f[m + 1], upTo(m) \cup T[m + 1])
        BY <2>1, <3>2, <3>3, JoinedLists
      <3> QED BY <2>2, <3>4, <3>5
    <2> QED BY <2>3, <2>4
  <1> HIDE DEF M
  <1>8. \A m \in Nat : m \in M
    BY <1>6, <1>7, AllNaturals
  <1>9. n \in M /\ n \in 1..n
    BY <1>8
  <1>10. Lists(g[n], upTo(n))
    BY <1>9 DEF M
  <1> QED BY <1>5, <1>10 DEF S

\* What one node yields, given what its children yield together.
Yield(json, i, entries) ==
    CASE json.label[i] = "list" -> entries
      [] json.label[i] = "graph" -> entries
      [] json.label[i] = "typed graph" -> Append(entries, i)
      [] json.label[i] = "object" -> <<i>>
      [] OTHER -> <<>>

\* What the children of a node yield, those of f.
Entries(json, i, f, n) == [k \in 1..n |-> IF k \in Children(json, i) THEN f[k] ELSE <<>>]

\* The recursion of _flatten_json_ld.
IsFlat(f, json, n) == f = [i \in 1..n |-> Yield(json, i, FlattenSeq(Entries(json, i, f, n)))]

\* The recursion of the walk through JSON-LD has a solution.
LEMMA FlatExists ==
    ASSUME NEW t, NEW n, IsTreeOf(t, n)
    PROVE  \E f : IsFlat(f, t, n)
  <1> DEFINE D == 1..n
             S == Seq(D)
             m == n + 1
             rank == [i \in D |-> n - i]
             entries(g, i) == Entries(t, i, g, n)
             F == [x \in D \X [D -> S] |-> Yield(t, x[1], FlattenSeq(entries(x[2], x[1])))]
  <1>1. /\ n \in Nat
        /\ \A i \in D : t.parent[i] < i
        /\ \A i \in D : \A k \in Children(t, i) : k \in D /\ i < k
    BY DEF IsTreeOf, Children, Nodes
  <1>2. m \in Nat /\ rank \in [D -> Nat] /\ (\A i \in D : rank[i] < m) /\ S # {}
    <2>1. m \in Nat /\ rank \in [D -> Nat] /\ \A i \in D : rank[i] < m
      BY <1>1
    <2>2. <<>> \in S
      OBVIOUS
    <2> QED BY <2>1, <2>2
  <1>3. \A i \in D, g \in [D -> S] : F[<<i, g>>] = Yield(t, i, FlattenSeq(entries(g, i)))
    <2> HIDE DEF entries, S
    <2> QED OBVIOUS
  <1>4. \A i \in D, g \in [D -> S] : Yield(t, i, FlattenSeq(entries(g, i))) \in S
    <2> TAKE i \in D, g \in [D -> S]
    <2>0. n \in Nat \ {0}
      BY <1>1
    <2>1. <<>> \in S /\ <<i>> \in S /\ \A s \in S : Append(s, i) \in S
      OBVIOUS
    <2> HIDE DEF S
    <2>2. entries(g, i) \in [D -> S]
      BY <2>1 DEF Entries
    <2>3. entries(g, i) \in Seq(S) /\ Len(entries(g, i)) = n
      <3> HIDE DEF entries
      <3> QED BY <1>1, <2>2
    <2> HIDE DEF entries
    <2>4. FlattenSeq(entries(g, i)) \in S
      BY <2>0, <2>3, FlattenIsSeq DEF S
    <2> QED BY <2>1, <2>4 DEF Yield
  <1>5. F \in [D \X [D -> S] -> S]
    <2> HIDE DEF entries, S, D
    <2>1. \A x \in D \X [D -> S] : Yield(t, x[1], FlattenSeq(entries(x[2], x[1]))) \in S
      <3> TAKE x \in D \X [D -> S]
      <3>1. x[1] \in D /\ x[2] \in [D -> S]
        OBVIOUS
      <3> QED BY <1>4, <3>1, Zenon
    <2> QED BY <2>1
  <1>6. ASSUME NEW i \in D, NEW g \in [D -> S], NEW h \in [D -> S],
               \A j \in D : rank[j] < rank[i] => g[j] = h[j]
        PROVE  F[<<i, g>>] = F[<<i, h>>]
    <2>1. \A k \in Children(t, i) : k \in D /\ rank[k] < rank[i]
      BY <1>1
    <2>2. \A k \in Children(t, i) : g[k] = h[k]
      BY <1>6, <2>1
    <2>3. entries(g, i) = entries(h, i)
      BY <2>2 DEF Entries
    <2> HIDE DEF F, entries
    <2>4. /\ F[<<i, g>>] = Yield(t, i, FlattenSeq(entries(g, i)))
          /\ F[<<i, h>>] = Yield(t, i, FlattenSeq(entries(h, i)))
      BY <1>3
    <2> QED BY <2>3, <2>4, Zenon
  <1> HIDE DEF F, rank, S, D, m
  <1>7. \A i \in D : \A g, h \in [D -> S] :
           (\A j \in D : rank[j] < rank[i] => g[j] = h[j]) => F[<<i, g>>] = F[<<i, h>>]
    BY <1>6
  <1>8. IsRecursion(D, S, rank, m, F)
    BY <1>2, <1>5, <1>7 DEF IsRecursion
  <1>9. PICK g \in [D -> S] : \A i \in D : g[i] = F[<<i, g>>]
    BY <1>8, RecursiveDefinition
  <1> DEFINE value(i) == Yield(t, i, FlattenSeq(entries(g, i)))
  <1>10. \A i \in D : g[i] = value(i)
    BY <1>3, <1>9, Zenon
  <1> HIDE DEF value
  <1>11. g = [i \in D |-> value(i)]
    BY <1>9, <1>10
  <1>12. IsFlat(g, t, n)
    BY <1>11, Zenon DEF IsFlat, D, value, entries
  <1> QED BY <1>12

\* The JSON values whose entries are looked at.
Containers == {"list", "graph", "typed graph"}

\* The objects at or below node i that are reached from it through containers.
Reached(json, i) ==
    LET a == Ancestors(json) IN
    {j \in Nodes(json) : /\ j = i \/ i \in a[j]
                         /\ json.label[j] \in {"object", "typed graph"}
                         /\ \A k \in a[j] : k = i \/ i \in a[k] => json.label[k] \in Containers}

\* What is reached at a node, given what is reached below its children.
Gathered(json, i, below) ==
    CASE json.label[i] \in {"list", "graph"} -> below
      [] json.label[i] = "typed graph" -> below \cup {i}
      [] json.label[i] = "object" -> {i}
      [] OTHER -> {}

\* A container gathers what its children reach, and itself when typed; no two
\* children reach the same, nor the container.
LEMMA ReachedByChildren ==
    ASSUME NEW t, NEW n, IsTreeOf(t, n), NEW i \in 1..n
    PROVE  LET below == UNION {Reached(t, k) : k \in Children(t, i)} IN
           /\ Reached(t, i) = Gathered(t, i, below) /\ i \notin below
           /\ \A k, l \in Children(t, i) : k # l => Reached(t, k) \cap Reached(t, l) = {}
  <1> DEFINE a == Ancestors(t)
             entries == UNION {Reached(t, k) : k \in Children(t, i)}
  <1>1. /\ n \in Nat /\ Nodes(t) = 1..n
        /\ \A j \in 0..n : \A k \in a[j] : k \in Nat /\ k < j
        /\ \A j \in 1..n : a[j] = {t.parent[j]} \cup a[t.parent[j]]
    BY AncestorsAre DEF IsTreeOf, Nodes
  <1>2. /\ \A j \in 0..n : \A k \in a[j] : a[k] \subseteq a[j]
        /\ \A j \in 0..n : \A k, l \in a[j] : k = l \/ k \in a[l] \/ l \in a[k]
    BY Lineage
  <1>0. \A j \in 1..n : j \in 0..n
    BY <1>1
  <1>3. \A j \in 1..n : i \in a[j] <=> \E k \in Children(t, i) : k = j \/ k \in a[j]
    BY ChildBetween
  <1>4. \A k \in Children(t, i) : k \in 1..n /\ k \in 0..n /\ a[k] = {i} \cup a[i]
    BY <1>1 DEF Children
  <1>5. \A j, k : j \in Reached(t, k) <=>
           /\ j \in 1..n
           /\ j = k \/ k \in a[j]
           /\ t.label[j] \in {"object", "typed graph"}
           /\ \A l \in a[j] : l = k \/ k \in a[l] => t.label[l] \in Containers
    BY <1>1 DEF Reached
  <1> HIDE DEF a
  <1>6. i \notin a[i] /\ \A k \in a[i] : k # i /\ i \notin a[k]
    <2>1. i \in 0..n
      BY <1>1
    <2>2. \A k \in a[i] : k \in Nat /\ k < i /\ k \in 0..n
      BY <1>1, <2>1
    <2>3. ASSUME NEW k \in a[i], i \in a[k] PROVE FALSE
      <3>1. i < k
        BY <1>1, <2>2, <2>3
      <3> QED BY <2>1, <2>2, <3>1
    <2>4. ASSUME NEW k \in a[i], k = i PROVE FALSE
      BY <2>1, <2>2, <2>4
    <2> QED BY <2>3, <2>4
  \* the node itself
  <1>7. i \in Reached(t, i) <=> t.label[i] \in {"object", "typed graph"}
    <2>1. \A l \in a[i] : ~(l = i \/ i \in a[l])
      BY <1>6
    <2> QED BY <1>5, <2>1
  \* what lies below it
  <1>8. ASSUME NEW j, j # i
        PROVE  j \in Reached(t, i) <=> t.label[i] \in Containers /\ j \in entries
    <2>1. ASSUME j \in Reached(t, i) PROVE t.label[i] \in Containers /\ j \in entries
      <3>1. /\ j \in 1..n /\ i \in a[j] /\ t.label[j] \in {"object", "typed graph"}
            /\ \A l \in a[j] : l = i \/ i \in a[l] => t.label[l] \in Containers
        BY <1>5, <1>8, <2>1
      <3>2. PICK k \in Children(t, i) : k = j \/ k \in a[j]
        BY <1>3, <3>1
      <3>3. a[k] = {i} \cup a[i]
        BY <1>4
      <3>4. \A l \in a[j] : l = k \/ k \in a[l] => t.label[l] \in Containers
        <4> TAKE l \in a[j]
        <4>0. j \in 0..n /\ l \in 0..n
          <5>1. j \in 0..n
            BY <1>0, <3>1, Zenon
          <5>2. l \in Nat /\ l < j
            BY <1>1, <5>1
          <5> QED BY <1>1, <5>1, <5>2
        <4>1. k \in a[l] => a[k] \subseteq a[l]
          BY <1>2, <4>0
        <4> QED BY <3>1, <3>3, <4>1
      <3>5. j \in Reached(t, k)
        BY <1>5, <3>1, <3>2, <3>4
      <3> QED BY <3>1, <3>2, <3>5
    <2>2. ASSUME t.label[i] \in Containers, j \in entries PROVE j \in Reached(t, i)
      <3>1. PICK k \in Children(t, i) : j \in Reached(t, k)
        BY <2>2
      <3>2. /\ j \in 1..n /\ (j = k \/ k \in a[j]) /\ t.label[j] \in {"object", "typed graph"}
            /\ \A l \in a[j] : l = k \/ k \in a[l] => t.label[l] \in Containers
        BY <1>5, <3>1
      <3>3. a[k] = {i} \cup a[i] /\ i \in a[j]
        BY <1>3, <1>4, <3>2
      <3>4. \A l \in a[j] : l = i \/ i \in a[l] => t.label[l] \in Containers
        <4> SUFFICES ASSUME NEW l \in a[j], i \in a[l], l # i PROVE l = k \/ k \in a[l]
          BY <2>2, <3>2
        <4>1. l \notin a[k]
          BY <1>6, <3>3
        <4>2. j \in 0..n
          BY <1>0, <3>2, Zenon
        <4>3. CASE j = k
          BY <4>1, <4>3
        <4>4. CASE k \in a[j]
          BY <1>2, <4>1, <4>2, <4>4
        <4> QED BY <3>2, <4>3, <4>4
      <3> QED BY <1>5, <3>2, <3>3, <3>4
    <2> QED BY <2>1, <2>2
  \* and nothing of it is the node itself
  <1>9. i \notin entries
    <2> SUFFICES ASSUME NEW k \in Children(t, i), i \in Reached(t, k) PROVE FALSE
      OBVIOUS
    <2>1. i = k \/ k \in a[i]
      BY <1>5
    <2>2. i \in a[k]
      BY <1>4
    <2> QED BY <1>6, <2>1, <2>2
  <1> DEFINE gathered == Gathered(t, i, entries)
  <1>10. \A j : j \in gathered <=> \/ j = i /\ t.label[i] \in {"object", "typed graph"}
                                   \/ j # i /\ t.label[i] \in Containers /\ j \in entries
    <2> HIDE DEF entries
    <2>1. CASE t.label[i] \in Containers \cup {"object"}
      BY <1>9, <2>1 DEF Gathered, Containers
    <2>2. CASE t.label[i] \notin Containers \cup {"object"}
      <3>1. gathered = {}
        BY <2>2 DEF Gathered, Containers
      <3> HIDE DEF gathered
      <3> QED BY <2>2, <3>1 DEF Containers
    <2> QED BY <2>1, <2>2
  <1> HIDE DEF gathered, entries
  <1>11. \A j : j \in Reached(t, i) <=> j \in gathered
    <2> TAKE j
    <2>1. CASE j = i
      <3>1. j \in Reached(t, i) <=> t.label[i] \in {"object", "typed graph"}
        BY <1>7, <2>1, Zenon
      <3>2. j \in gathered <=> t.label[i] \in {"object", "typed graph"}
        BY <1>10, <2>1, Zenon
      <3> QED BY <3>1, <3>2, Zenon
    <2>2. CASE j # i
      <3>1. j \in Reached(t, i) <=> t.label[i] \in Containers /\ j \in entries
        BY <1>8, <2>2, Zenon
      <3>2. j \in gathered <=> t.label[i] \in Containers /\ j \in entries
        BY <1>10, <2>2, Zenon
      <3> QED BY <3>1, <3>2, Zenon
    <2> QED BY <2>1, <2>2
  <1>12. Reached(t, i) = gathered
    BY <1>11
  \* the children reach different things
  <1>13. ASSUME NEW k \in Children(t, i), NEW l \in Children(t, i), k # l,
                NEW j \in Reached(t, k), j \in Reached(t, l)
         PROVE  FALSE
    <2>1. /\ k \in 1..n /\ k \in 0..n /\ a[k] = {i} \cup a[i]
          /\ l \in 1..n /\ l \in 0..n /\ a[l] = {i} \cup a[i]
      BY <1>4
    <2>2. j \in 1..n /\ (j = k \/ k \in a[j]) /\ (j = l \/ l \in a[j])
      BY <1>5, <1>13
    <2>3. k \in a[l] \/ l \in a[k]
      <3>1. j \in 0..n
        BY <1>0, <2>2, Zenon
      <3> QED BY <1>2, <1>13, <2>2, <3>1
    <2>4. i < k /\ i < l /\ i \in Nat /\ \A x \in {i} \cup a[i] : x \in Nat /\ x <= i
      <3>1. i \in 0..n /\ i \in Nat
        BY <1>1
      <3> QED BY <1>1, <2>1, <3>1
    <2> QED BY <2>1, <2>3, <2>4
  <1> QED BY <1>9, <1>12, <1>13, Zenon DEF gathered, entries

\* A solution of the recursion lists what is reached, at every node.
LEMMA FlatIsReached ==
    ASSUME NEW t, NEW n, IsTreeOf(t, n), NEW f, IsFlat(f, t, n)
    PROVE  \A i \in 1..n : Lists(f[i], Reached(t, i))
  <1> DEFINE value(i) == Yield(t, i, FlattenSeq(Entries(t, i, f, n)))
             S == {m \in Nat : \A i \in 1..n : n - i < m => Lists(f[i], Reached(t, i))}
  <1>1. n \in Nat /\ \A i \in 1..n : \A k \in Children(t, i) : k \in 1..n /\ i < k
    BY DEF IsTreeOf, Children, Nodes
  <1>2. \A i \in 1..n : f[i] = value(i)
    <2>1. f = [i \in 1..n |-> value(i)]
      BY Zenon DEF IsFlat
    <2> HIDE DEF value
    <2> QED BY <2>1
  <1> HIDE DEF value
  <1>3. 0 \in S
    <2>1. \A i \in 1..n : ~(n - i < 0)
      BY <1>1
    <2> QED BY <2>1
  <1>4. ASSUME NEW m \in Nat, m \in S PROVE m + 1 \in S
    <2> SUFFICES ASSUME NEW i \in 1..n, n - i < m + 1 PROVE Lists(f[i], Reached(t, i))
      OBVIOUS
    <2>1. \A k \in Children(t, i) : Lists(f[k], Reached(t, k))
      <3> TAKE k \in Children(t, i)
      <3>1. k \in 1..n /\ n - k < m
        BY <1>1
      <3> QED BY <1>4, <3>1
    <2> DEFINE entries == Entries(t, i, f, n)
               T == [k \in 1..n |-> IF k \in Children(t, i) THEN Reached(t, k) ELSE {}]
               below == UNION {Reached(t, k) : k \in Children(t, i)}
    <2>2. \A k \in 1..n : Lists(entries[k], T[k])
      BY <2>1, ShortLists DEF Entries
    <2>3. /\ Reached(t, i) = Gathered(t, i, below) /\ i \notin below
          /\ \A k, l \in Children(t, i) : k # l => Reached(t, k) \cap Reached(t, l) = {}
      BY ReachedByChildren
    <2>4. \A k, l \in 1..n : k # l => T[k] \cap T[l] = {}
      BY <2>3
    <2>5. entries = [k \in 1..n |-> entries[k]]
      BY DEF Entries
    <2>6. UNION {T[k] : k \in 1..n} = below
      <3>1. \A k \in Children(t, i) : k \in 1..n /\ T[k] = Reached(t, k)
        BY <1>1
      <3>2. \A k \in 1..n : k \notin Children(t, i) => T[k] = {}
        OBVIOUS
      <3> HIDE DEF T
      <3> QED BY <3>1, <3>2
    <2>7. n \in Nat \ {0}
      BY <1>1
    <2> HIDE DEF entries, T
    <2>8. Lists(FlattenSeq(entries), below)
      <3>1. Lists(FlattenSeq(entries), UNION {T[k] : k \in 1..n})
        BY <2>2, <2>4, <2>5, <2>7, FlattenLists
      <3> HIDE DEF below
      <3> QED BY <2>6, <3>1
    <2> HIDE DEF below
    <2>9. f[i] = Yield(t, i, FlattenSeq(entries))
      BY <1>2, Zenon DEF value, entries
    <2> DEFINE e == FlattenSeq(entries)
    <2>10. Lists(Append(e, i), below \cup {i}) /\ Lists(<<i>>, {i}) /\ Lists(<<>>, {})
      <3>1. Lists(<<i>>, {i}) /\ Lists(<<>>, {})
        BY ShortLists
      <3>2. Lists(e \o <<i>>, below \cup {i})
        BY <2>3, <2>8, <3>1, JoinedLists
      <3>3. Append(e, i) = e \o <<i>>
        <4>1. e \in Seq(below)
          BY <2>8 DEF Lists
        <4> HIDE DEF e
        <4> QED BY <4>1
      <3> QED BY <3>1, <3>2, <3>3
    <2> HIDE DEF e
    <2>11. Lists(Yield(t, i, e), Gathered(t, i, below))
      <3>1. Lists(e, below)
        BY <2>8 DEF e
      <3> QED BY <2>10, <3>1 DEF Yield, Gathered
    <2> QED BY <2>3, <2>9, <2>11 DEF e
  <1> HIDE DEF S
  <1>5. \A m \in Nat : m \in S
    BY <1>3, <1>4, AllNaturals
  <1>6. n + 1 \in S /\ \A i \in 1..n : n - i < n + 1
    <2>1. n + 1 \in Nat /\ \A i \in 1..n : n - i < n + 1
      BY <1>1
    <2> QED BY <1>5, <2>1
  <1> QED BY <1>6 DEF S

\* Below the first node of one tree is all of it.
LEMMA FirstIsAbove ==
    ASSUME NEW t, NEW n, IsTreeOf(t, n), Rooted(t)
    PROVE  \A j \in 1..n : j = 1 \/ 1 \in Ancestors(t)[j]
  <1> DEFINE a == Ancestors(t)
             S == {m \in Nat : \A j \in 1..n : j <= m => j = 1 \/ 1 \in a[j]}
  <1>1. /\ n \in Nat
        /\ \A j \in 1..n : /\ t.parent[j] \in Nat /\ t.parent[j] < j
                           /\ a[j] = {t.parent[j]} \cup a[t.parent[j]]
    BY AncestorsAre DEF IsTreeOf
  <1>2. \A j \in 1..n : j # 1 => t.parent[j] # 0
    BY DEF Rooted, Nodes, IsTreeOf, Root
  <1> HIDE DEF a
  <1>3. 0 \in S
    OBVIOUS
  <1>4. ASSUME NEW m \in Nat, m \in S PROVE m + 1 \in S
    <2> SUFFICES ASSUME NEW j \in 1..n, j <= m + 1, j # 1 PROVE 1 \in a[j]
      OBVIOUS
    <2> DEFINE p == t.parent[j]
    <2>1. p \in Nat /\ p < j /\ p # 0 /\ a[j] = {p} \cup a[p]
      BY <1>1, <1>2
    <2> HIDE DEF p
    <2>2. p \in 1..n /\ p <= m
      BY <1>1, <2>1
    <2>3. p = 1 \/ 1 \in a[p]
      BY <1>4, <2>2
    <2> QED BY <2>1, <2>3
  <1> HIDE DEF S
  <1>5. \A m \in Nat : m \in S
    BY <1>3, <1>4, AllNaturals
  <1>6. n \in S /\ \A j \in 1..n : j <= n
    BY <1>1, <1>5
  <1> QED BY <1>6 DEF S, a

\* The recursion lists the objects it ought to.
LEMMA FlattenIsExact ==
    ASSUME NEW n \in Nat, NEW t \in Trees(n, JsonLabels), Rooted(t)
    PROVE  /\ Lists(FlattenJsonLd(t), JsonObjects(t))
           /\ JsonObjects(t) \subseteq 1..n
  <1> DEFINE size == Cardinality(Nodes(t))
             f == CHOOSE g : IsFlat(g, t, size)
             a == Ancestors(t)
  <1>1. IsTreeOf(t, n) /\ Nodes(t) = 1..n /\ Cardinality(Nodes(t)) = n
    BY TreeIs DEF IsTreeOf
  <1>7. FlattenJsonLd(t) = IF size = 0 THEN <<>> ELSE f[1]
    BY Zenon DEF FlattenJsonLd, IsFlat, Yield, Entries
  <1>3. IsFlat(f, t, n)
    <2>1. \E g : IsFlat(g, t, n)
      BY <1>1, FlatExists
    <2>2. size = n
      BY <1>1
    <2> HIDE DEF size
    <2> QED BY <2>1, <2>2, Zenon
  <1> HIDE DEF f
  <1>2. FlattenJsonLd(t) = IF n = 0 THEN <<>> ELSE f[1]
    BY <1>1, <1>7, Zenon
  <1>4. JsonObjects(t) \subseteq 1..n
    BY <1>1 DEF JsonObjects
  <1>5. CASE n = 0
    <2>1. 1..n = {}
      BY <1>5
    <2>2. JsonObjects(t) = {}
      BY <1>4, <2>1
    <2> QED BY <1>2, <1>4, <1>5, <2>2, ShortLists
  <1>6. CASE n # 0
    <2>1. 1 \in 1..n
      BY <1>6
    <2>2. Lists(f[1], Reached(t, 1))
      BY <1>1, <1>3, <2>1, FlatIsReached
    <2>3. Reached(t, 1) = JsonObjects(t)
      <3>1. \A j \in 1..n : j = 1 \/ 1 \in a[j]
        BY <1>1, FirstIsAbove
      <3>2. a[0] = {} /\ \A j \in 0..n : \A k \in a[j] : k \in Nat /\ k < j
        BY <1>1, AncestorsAre
      <3> HIDE DEF a
      <3>3. ASSUME NEW j \in 1..n, NEW k \in a[j]
            PROVE  k = 1 \/ 1 \in a[k] <=> k # 0
        <4>1. k \in Nat /\ k < j /\ j \in 0..n
          BY <3>2
        <4>2. k # 0 => k \in 1..n
          BY <4>1
        <4>3. k = 0 => ~(k = 1 \/ 1 \in a[k])
          BY <3>2
        <4> QED BY <3>1, <4>2, <4>3
      <3>4. \A j : j \in Reached(t, 1) <=>
               /\ j \in 1..n /\ t.label[j] \in {"object", "typed graph"}
               /\ \A k \in a[j] : k = 1 \/ 1 \in a[k] => t.label[k] \in Containers
        BY <1>1, <3>1 DEF Reached, a
      <3>5. \A j : j \in JsonObjects(t) <=>
               /\ j \in 1..n /\ t.label[j] \in {"object", "typed graph"}
               /\ \A k \in a[j] : k # 0 => t.label[k] \in Containers
        BY <1>1 DEF JsonObjects, a, Containers, Root
      <3>6. \A j : j \in Reached(t, 1) <=> j \in JsonObjects(t)
        BY <3>3, <3>4, <3>5
      <3> QED BY <3>6
    <2> QED BY <1>2, <1>4, <1>6, <2>2, <2>3
  <1> QED BY <1>5, <1>6

\* A set of naturals up to n has a least and a greatest member.
LEMMA Extremes ==
    ASSUME NEW n \in Nat, NEW T, T # {}, \A x \in T : x \in 0..n
    PROVE  /\ \E x \in T : \A y \in T : x <= y
           /\ \E x \in T : \A y \in T : x >= y
  <1> DEFINE Least == \E x \in T : \A y \in T : x <= y
             Greatest == \E x \in T : \A y \in T : x >= y
             S == {k \in Nat : (\E x \in T : x <= k) => Least}
             R == {k \in Nat : (\E x \in T : n - x <= k) => Greatest}
  <1>1. 0 \in S /\ 0 \in R
    OBVIOUS
  <1>2. ASSUME NEW k \in Nat, k \in S PROVE k + 1 \in S
    <2> SUFFICES ASSUME NEW x \in T, x <= k + 1 PROVE Least
      OBVIOUS
    <2>1. CASE \E y \in T : y <= k
      BY <1>2, <2>1
    <2>2. CASE ~(\E y \in T : y <= k)
      <3>1. \A y \in T : x <= y
        BY <2>2
      <3> QED BY <3>1
    <2> QED BY <2>1, <2>2
  <1>3. ASSUME NEW k \in Nat, k \in R PROVE k + 1 \in R
    <2> SUFFICES ASSUME NEW x \in T, n - x <= k + 1 PROVE Greatest
      OBVIOUS
    <2>1. CASE \E y \in T : n - y <= k
      BY <1>3, <2>1
    <2>2. CASE ~(\E y \in T : n - y <= k)
      <3>1. \A y \in T : x >= y
        BY <2>2
      <3> QED BY <3>1
    <2> QED BY <2>1, <2>2
  <1> HIDE DEF S, R
  <1>4. \A k \in Nat : k \in S
    BY <1>1, <1>2, AllNaturals
  <1>5. \A k \in Nat : k \in R
    BY <1>1, <1>3, AllNaturals
  <1>6. PICK x \in T : x \in 0..n
    OBVIOUS
  <1>7. x <= n /\ n - x <= n
    BY <1>6
  <1> QED BY <1>4, <1>5, <1>7 DEF S, R

\* The elements around i that open an item.
Around(page, i) == Ancestors(page)[i] \cap Scopes(page)

\* The closest item around i is the last of those around it.
LEMMA NearestScopeIs ==
    ASSUME NEW t, NEW n, IsTreeOf(t, n), NEW i \in 1..n
    PROVE  /\ NearestScope(t, i) \in Around(t, i) \cup {0}
           /\ NearestScope(t, i) \in Nat
           /\ \A y \in Around(t, i) : y \in Nat /\ y <= NearestScope(t, i)
  <1> DEFINE X == Around(t, i) \cup {0}
  <1>1. n \in Nat /\ i \in 0..n /\ \A k \in Ancestors(t)[i] : k \in Nat /\ k < i
    <2>1. n \in Nat /\ i \in 0..n
      BY DEF IsTreeOf
    <2> QED BY <2>1, AncestorsAre
  <1>2. \A x \in X : x \in 0..n
    <2> TAKE x \in X
    <2>1. x = 0 \/ (x \in Nat /\ x < i)
      BY <1>1 DEF Around
    <2> QED BY <1>1, <2>1
  <1>3. NearestScope(t, i) = CHOOSE x \in X : \A y \in X : x >= y
    BY Zenon DEF NearestScope, Max, Around, Root
  <1>4. X # {}
    OBVIOUS
  <1> HIDE DEF X
  <1>5. \E x \in X : \A y \in X : x >= y
    BY <1>1, <1>2, <1>4, Extremes
  <1>6. NearestScope(t, i) \in X /\ \A y \in X : NearestScope(t, i) >= y
    BY <1>3, <1>5
  <1>7. NearestScope(t, i) \in Nat /\ \A y \in X : y \in Nat
    BY <1>2, <1>6
  <1> QED BY <1>6, <1>7 DEF X

\* The next step from s, an item or the document, on the way down to i.
IsNext(t, s, i, q) ==
    /\ q \in Around(t, i) \cup {i}
    /\ s \in Ancestors(t)[q]
    /\ NearestScope(t, q) = s
    /\ \A x \in Around(t, i) \cup {i} : s \in Ancestors(t)[x] =>
          x = q \/ (q \in Ancestors(t)[x] /\ q \in Scopes(t) /\ NearestScope(t, x) # s)

\* There is such a step whenever s lies above i.
LEMMA NextExists ==
    ASSUME NEW t, NEW n, IsTreeOf(t, n), NEW i \in 1..n, NEW s \in Scopes(t) \cup {0},
           s \in Ancestors(t)[i]
    PROVE  \E q \in 1..n : IsNext(t, s, i, q)
  <1> DEFINE a == Ancestors(t)
             X == {x \in Around(t, i) \cup {i} : s \in a[x]}
  <1>1. /\ n \in Nat /\ Nodes(t) = 1..n /\ i \in 0..n
        /\ \A j \in 0..n : \A k \in a[j] : k \in Nat /\ k < j
        /\ \A j \in 1..n : 0 \in a[j]
    <2>1. n \in Nat /\ Nodes(t) = 1..n /\ i \in 0..n
      BY DEF IsTreeOf, Nodes
    <2> QED BY <2>1, AncestorsAre
  <1>2. /\ \A j \in 0..n : \A k \in a[j] : a[k] \subseteq a[j]
        /\ \A j \in 0..n : \A k, l \in a[j] : k = l \/ k \in a[l] \/ l \in a[k]
    BY Lineage
  <1>3. Scopes(t) \subseteq 1..n /\ Around(t, i) = a[i] \cap Scopes(t)
    BY <1>1 DEF Scopes, Around
  <1>0. \A j \in 1..n : j \in 0..n /\ j # 0
    BY <1>1
  <1> HIDE DEF a
  <1>4. X # {} /\ \A x \in X : x \in 1..n /\ x \in 0..n /\ s \in a[x] /\ (x = i \/ (x \in a[i] /\ x \in Scopes(t)))
    <2>1. i \in X
      BY DEF a
    <2>2. \A x \in X : s \in a[x] /\ (x = i \/ (x \in a[i] /\ x \in Scopes(t)))
      BY <1>3
    <2> HIDE DEF X
    <2>3. \A x \in X : x \in 1..n
      BY <1>3, <2>2
    <2> QED BY <1>0, <2>1, <2>2, <2>3
  <1>5. PICK q \in X : \A y \in X : q <= y
    <2> HIDE DEF X
    <2> QED BY <1>1, <1>4, Extremes
  <1>6. q \in 1..n /\ q \in 0..n /\ s \in a[q] /\ (q = i \/ (q \in a[i] /\ q \in Scopes(t)))
        /\ q \in Around(t, i) \cup {i}
    BY <1>4
  \* the items around q are around i
  <1>7. \A y \in Around(t, q) : y \in a[q] /\ y \in Around(t, i)
    <2>1. a[q] \subseteq a[i]
      BY <1>1, <1>2, <1>6
    <2> QED BY <1>3, <2>1 DEF Around, a
  <1>8. NearestScope(t, q) = s
    <2> DEFINE z == NearestScope(t, q)
    <2>1. z \in Around(t, q) \cup {0} /\ z \in Nat /\ \A y \in Around(t, q) : y \in Nat /\ y <= z
      BY <1>6, NearestScopeIs
    <2> HIDE DEF z
    <2>2. s = 0 \/ s \in Around(t, q)
      BY <1>6 DEF Around, a
    <2>3. s \in Nat /\ s <= z
      BY <2>1, <2>2
    <2> SUFFICES ASSUME z # s PROVE FALSE
      BY DEF z
    <2>4. z # 0 /\ z \in Around(t, q)
      BY <2>1, <2>3
    <2>5. z \in a[q] /\ z \in Around(t, i) /\ z < q
      BY <1>1, <1>6, <1>7, <2>4
    <2>6. z = s \/ z \in a[s] \/ s \in a[z]
      BY <1>2, <1>6, <2>5
    <2>7. z \notin a[s]
      <3>1. s \in 0..n
        BY <1>0, <1>1, <1>3
      <3>2. z \in a[s] => z < s
        BY <1>1, <3>1
      <3> QED BY <2>1, <2>3, <3>2
    <2>8. z \in X
      BY <2>5, <2>6, <2>7
    <2>9. q <= z
      BY <1>5, <2>8
    <2> QED BY <1>6, <2>1, <2>5, <2>9
  <1>9. ASSUME NEW x \in Around(t, i) \cup {i}, s \in a[x], x # q
        PROVE  q \in a[x] /\ q \in Scopes(t) /\ NearestScope(t, x) # s
    <2>1. x \in X
      BY <1>9
    <2>2. x \in 1..n /\ x \in 0..n /\ (x = i \/ x \in a[i]) /\ q <= x /\ q < x
      <3>1. x \in 1..n /\ x \in 0..n /\ (x = i \/ x \in a[i]) /\ q <= x
        BY <1>4, <1>5, <2>1
      <3> QED BY <1>6, <1>9, <3>1
    <2>3. x \notin a[q]
      <3>1. x \in a[q] => x < q
        BY <1>1, <1>6
      <3> QED BY <1>6, <2>2, <3>1
    <2>4. q # i
      <3> SUFFICES ASSUME q = i PROVE FALSE
        OBVIOUS
      <3>1. x \in a[q]
        BY <1>9, <2>2
      <3> QED BY <2>3, <3>1
    <2>5. q \in a[i] /\ q \in Scopes(t)
      BY <1>6, <2>4
    <2>6. q \in a[x]
      BY <1>1, <1>2, <1>9, <2>2, <2>3, <2>5
    <2>7. q \in Around(t, x)
      BY <2>5, <2>6 DEF Around, a
    <2>8. NearestScope(t, x) \in Nat /\ q <= NearestScope(t, x)
      BY <2>2, <2>7, NearestScopeIs
    <2>9. s < q
      BY <1>1, <1>6
    <2>10. s \in Nat
      BY <1>1, <1>6
    <2> QED BY <1>6, <2>5, <2>6, <2>8, <2>9, <2>10
  <1> HIDE DEF X
  <1>10. IsNext(t, s, i, q)
    BY <1>6, <1>8, <1>9 DEF IsNext, a
  <1> QED BY <1>6, <1>10

\* A tree whose nodes list names.
IsMarkup(t, n) == IsTreeOf(t, n) /\ \A i \in 1..n : NamesOf(t, i) \in Nat

\* What is listed as markup is such a tree.
LEMMA MarkupIs ==
    ASSUME NEW n \in Nat, NEW t \in Trees(n, MarkupLabels)
    PROVE  IsMarkup(t, n)
  <1>1. IsTreeOf(t, n) /\ \A i \in 1..n : t.label[i] \in MarkupLabels
    BY TreeIs
  <1>2. \A l \in MarkupLabels : l.names \in Nat
    BY NamesAssumption DEF MarkupLabels
  <1> QED BY <1>1, <1>2 DEF IsMarkup, NamesOf

\* How often a node belongs into what is returned, given this of its item.
Belongs(t, i, u) ==
    CASE NearestScope(t, i) # Root -> NamesOf(t, i) * u[NearestScope(t, i)]
      [] NearestScope(t, i) = Root /\ i \in Scopes(t) -> 1
      [] OTHER -> 0

\* The recursion of TimesNamed.
IsNaming(u, t, n) == u = [i \in 1..n |-> Belongs(t, i, u)]

\* The item a node lies in comes before it.
LEMMA NearestScopeIsBefore ==
    ASSUME NEW t, NEW n, IsTreeOf(t, n), NEW i \in 1..n, NearestScope(t, i) # 0
    PROVE  NearestScope(t, i) \in Scopes(t) /\ NearestScope(t, i) \in 1..n /\ NearestScope(t, i) < i
  <1>1. NearestScope(t, i) \in Around(t, i)
    BY NearestScopeIs
  <1>2. Scopes(t) \subseteq 1..n /\ i \in 0..n
    BY DEF Scopes, Nodes, IsTreeOf
  <1>3. \A k \in Ancestors(t)[i] : k < i
    BY <1>2, AncestorsAre
  <1> QED BY <1>1, <1>2, <1>3 DEF Around

\* The recursion upwards has a solution.
LEMMA NamingExists ==
    ASSUME NEW t, NEW n, IsMarkup(t, n)
    PROVE  \E u : IsNaming(u, t, n)
  <1> DEFINE D == 1..n
             m == n + 1
             rank == [i \in D |-> i]
             F == [x \in D \X [D -> Nat] |-> Belongs(t, x[1], x[2])]
  <1>1. /\ n \in Nat /\ \A i \in D : NamesOf(t, i) \in Nat
        /\ \A i \in D : NearestScope(t, i) # 0 => /\ NearestScope(t, i) \in D
                                                  /\ NearestScope(t, i) < i
    BY NearestScopeIsBefore DEF IsMarkup, IsTreeOf
  <1>2. m \in Nat /\ rank \in [D -> Nat] /\ (\A i \in D : rank[i] < m) /\ Nat # {}
    BY <1>1
  <1>3. \A i \in D, g \in [D -> Nat] : F[<<i, g>>] = Belongs(t, i, g)
    OBVIOUS
  <1> HIDE DEF D, m
  <1>4. \A i \in D, g \in [D -> Nat] : Belongs(t, i, g) \in Nat
    <2> TAKE i \in D, g \in [D -> Nat]
    <2>1. CASE NearestScope(t, i) # 0
      <3>1. NamesOf(t, i) \in Nat /\ g[NearestScope(t, i)] \in Nat
        BY <1>1, <2>1
      <3>2. \A a, b \in Nat : a * b \in Nat
        OBVIOUS
      <3> QED BY <2>1, <3>1, <3>2 DEF Belongs, Root
    <2>2. CASE NearestScope(t, i) = 0
      BY <2>2 DEF Belongs, Root
    <2> QED BY <2>1, <2>2
  <1>5. F \in [D \X [D -> Nat] -> Nat]
    <2>1. \A x \in D \X [D -> Nat] : Belongs(t, x[1], x[2]) \in Nat
      <3> TAKE x \in D \X [D -> Nat]
      <3>1. x[1] \in D /\ x[2] \in [D -> Nat]
        OBVIOUS
      <3> QED BY <1>4, <3>1, Zenon
    <2> QED BY <2>1
  <1>6. ASSUME NEW i \in D, NEW g \in [D -> Nat], NEW h \in [D -> Nat],
               \A j \in D : rank[j] < rank[i] => g[j] = h[j]
        PROVE  F[<<i, g>>] = F[<<i, h>>]
    <2>1. NearestScope(t, i) # 0 => g[NearestScope(t, i)] = h[NearestScope(t, i)]
      BY <1>1, <1>6
    <2>2. Belongs(t, i, g) = Belongs(t, i, h)
      BY <2>1 DEF Belongs, Root
    <2> HIDE DEF F
    <2> QED BY <1>3, <2>2
  <1> HIDE DEF F, rank
  <1>7. \A i \in D : \A g, h \in [D -> Nat] :
           (\A j \in D : rank[j] < rank[i] => g[j] = h[j]) => F[<<i, g>>] = F[<<i, h>>]
    BY <1>6
  <1>8. IsRecursion(D, Nat, rank, m, F)
    BY <1>2, <1>5, <1>7 DEF IsRecursion
  <1>9. PICK g \in [D -> Nat] : \A i \in D : g[i] = F[<<i, g>>]
    BY <1>8, RecursiveDefinition
  <1>10. \A i \in D : g[i] = Belongs(t, i, g)
    BY <1>3, <1>9, Zenon
  <1>11. g = [i \in D |-> Belongs(t, i, g)]
    BY <1>9, <1>10
  <1>12. IsNaming(g, t, n)
    BY <1>11, Zenon DEF IsNaming, D
  <1> QED BY <1>12

\* What the recursion upwards says.
LEMMA NamingIs ==
    ASSUME NEW t, NEW n, IsMarkup(t, n)
    PROVE  LET u == TimesNamed(t) IN
           \A i \in 1..n :
              /\ u[i] \in Nat
              /\ NearestScope(t, i) # 0 => u[i] = NamesOf(t, i) * u[NearestScope(t, i)]
              /\ NearestScope(t, i) = 0 => u[i] = IF i \in Scopes(t) THEN 1 ELSE 0
  <1> DEFINE size == Cardinality(Nodes(t))
             u == CHOOSE g : IsNaming(g, t, size)
  <1>1. /\ n \in Nat /\ size = n /\ IsTreeOf(t, n)
        /\ \A i \in 1..n : NamesOf(t, i) \in Nat
    BY DEF IsMarkup, IsTreeOf
  <1>2. TimesNamed(t) = u
    BY Zenon DEF TimesNamed, IsNaming, Belongs
  <1>3. IsNaming(u, t, n)
    <2>1. \E g : IsNaming(g, t, n)
      BY NamingExists
    <2> HIDE DEF size
    <2> QED BY <1>1, <2>1, Zenon
  <1> HIDE DEF u, size
  <1>4. \A i \in 1..n : u[i] = Belongs(t, i, u)
    <2> DEFINE value(i) == Belongs(t, i, u)
    <2>1. u = [i \in 1..n |-> value(i)]
      BY <1>3, Zenon DEF IsNaming
    <2> HIDE DEF value
    <2>2. \A i \in 1..n : u[i] = value(i)
      BY <2>1
    <2> QED BY <2>2 DEF value
  <1>5. \A i \in 1..n :
           /\ NearestScope(t, i) # 0 => u[i] = NamesOf(t, i) * u[NearestScope(t, i)]
           /\ NearestScope(t, i) = 0 => u[i] = IF i \in Scopes(t) THEN 1 ELSE 0
    BY <1>4, Zenon DEF Belongs, Root
  <1> DEFINE S == {k \in Nat : \A i \in 1..n : i <= k => u[i] \in Nat}
  <1>6. 0 \in S
    OBVIOUS
  <1>7. ASSUME NEW k \in Nat, k \in S PROVE k + 1 \in S
    <2> SUFFICES ASSUME NEW i \in 1..n, i <= k + 1 PROVE u[i] \in Nat
      OBVIOUS
    <2>1. CASE NearestScope(t, i) # 0
      <3> DEFINE s == NearestScope(t, i)
      <3>1. s \in 1..n /\ s < i
        BY <1>1, <2>1, NearestScopeIsBefore
      <3>2. u[i] = NamesOf(t, i) * u[s] /\ NamesOf(t, i) \in Nat
        BY <1>1, <1>5, <2>1
      <3> HIDE DEF s
      <3>3. u[s] \in Nat
        BY <1>7, <3>1
      <3>4. \A a, b \in Nat : a * b \in Nat
        OBVIOUS
      <3> QED BY <3>2, <3>3, <3>4
    <2>2. CASE NearestScope(t, i) = 0
      BY <1>5, <2>2
    <2> QED BY <2>1, <2>2
  <1> HIDE DEF S
  <1>8. \A k \in Nat : k \in S
    BY <1>6, <1>7, AllNaturals
  <1>9. n \in S /\ \A i \in 1..n : i <= n
    BY <1>1, <1>8
  <1> QED BY <1>2, <1>5, <1>9 DEF S

\* What node i is counted at each of the nodes that lie directly in s, each by its
\* weight, given how often the items record i.
CountsIn(f, t, n, i, s, weight, in) ==
    \A p \in 1..n :
       f[p] = IF s \in Ancestors(t)[p] /\ NearestScope(t, p) = s
              THEN weight[p] * ((IF p = i THEN 1 ELSE 0) + (IF p \in Scopes(t) THEN in[p] ELSE 0))
              ELSE 0

\* The items below s record i so often, and only those around i do.
RecordsBelow(in, t, i, s) ==
    \A p \in Scopes(t) : s \in Ancestors(t)[p] =>
        in[p] \in Nat /\ (p \notin Ancestors(t)[i] => in[p] = 0)

\* Only the next step on the way from s to i counts.
LEMMA SumAtNext ==
    ASSUME NEW t, NEW n, IsTreeOf(t, n), NEW i \in 1..n, NEW s, NEW weight, NEW in, NEW f,
           \A p \in 1..n : weight[p] \in Nat,
           CountsIn(f, t, n, i, s, weight, in), RecordsBelow(in, t, i, s)
    PROVE  /\ SumTo(f, n) \in Nat
           /\ s \notin Ancestors(t)[i] => SumTo(f, n) = 0
           /\ \A q \in 1..n : IsNext(t, s, i, q) =>
                 SumTo(f, n) = weight[q] * (IF q = i THEN 1 ELSE in[q])
  <1> DEFINE a == Ancestors(t)
             there(p) == (IF p = i THEN 1 ELSE 0) + (IF p \in Scopes(t) THEN in[p] ELSE 0)
  <1>1. n \in Nat /\ (\A j \in 1..n : j \in 0..n) /\ i \notin a[i]
    <2>1. n \in Nat /\ (\A j \in 1..n : j \in 0..n)
      BY DEF IsTreeOf
    <2>2. i \in a[i] => i < i
      BY <2>1, AncestorsAre
    <2> QED BY <2>1, <2>2
  <1>2. \A j \in 0..n : \A k \in a[j] : a[k] \subseteq a[j]
    BY Lineage
  <1> HIDE DEF a
  <1>3. \A p \in 1..n :
           f[p] = IF s \in a[p] /\ NearestScope(t, p) = s THEN weight[p] * there(p) ELSE 0
    BY DEF CountsIn, a
  <1>4. \A p \in Scopes(t) : s \in a[p] => in[p] \in Nat /\ (p \notin a[i] => in[p] = 0)
    BY DEF RecordsBelow, a
  <1>5. \A p \in 1..n : s \in a[p] =>
           there(p) \in Nat /\ (there(p) # 0 => p \in Around(t, i) \cup {i})
    BY <1>4 DEF Around, a
  <1>6. there(i) = 1 \/ s \notin a[i]
    BY <1>1, <1>4
  <1> HIDE DEF there
  <1>7. (\A x, y \in Nat : x * y \in Nat) /\ \A x \in Nat : x * 0 = 0 /\ x * 1 = x
    OBVIOUS
  <1>8. \A p \in 1..n : f[p] \in Nat
    BY <1>3, <1>5, <1>7
  <1>9. \A p \in 1..n : f[p] # 0 => /\ s \in a[p] /\ NearestScope(t, p) = s
                                    /\ p \in Around(t, i) \cup {i}
    BY <1>3, <1>5, <1>7
  <1>10. SumTo(f, n) \in Nat
    BY <1>1, <1>8, SumOfNaturals
  <1>11. ASSUME s \notin a[i] PROVE SumTo(f, n) = 0
    <2>1. \A p \in 1..n : f[p] = 0
      <3> SUFFICES ASSUME NEW p \in 1..n, f[p] # 0 PROVE FALSE
        OBVIOUS
      <3>1. s \in a[p] /\ (p = i \/ p \in a[i])
        BY <1>9 DEF Around, a
      <3> QED BY <1>1, <1>2, <1>11, <3>1
    <2> QED BY <1>1, <1>8, <2>1, SumOfNaturals
  <1>12. ASSUME NEW q \in 1..n, IsNext(t, s, i, q)
         PROVE  SumTo(f, n) = weight[q] * (IF q = i THEN 1 ELSE in[q])
    <2>1. \A p \in 1..n : p # q => f[p] = 0
      <3> SUFFICES ASSUME NEW p \in 1..n, p # q, f[p] # 0 PROVE FALSE
        OBVIOUS
      <3>1. p \in Around(t, i) \cup {i} /\ s \in a[p] /\ NearestScope(t, p) = s
        BY <1>9
      <3> QED BY <1>12, <3>1 DEF IsNext, a
    <2>2. SumTo(f, n) = f[q]
      BY <1>1, <1>8, <2>1, SumOfOne
    <2>3. s \in a[q] /\ NearestScope(t, q) = s /\ q \in Around(t, i) \cup {i}
      BY <1>12 DEF IsNext, a
    <2>4. f[q] = weight[q] * there(q)
      BY <1>3, <2>3
    <2>5. CASE q = i
      BY <1>6, <2>2, <2>3, <2>4, <2>5
    <2>6. CASE q # i
      <3>1. q \in Scopes(t)
        BY <2>3, <2>6 DEF Around
      <3>2. there(q) = in[q]
        BY <1>4, <2>3, <2>6, <3>1 DEF there
      <3> QED BY <2>2, <2>4, <2>6, <3>2
    <2> QED BY <2>5, <2>6
  <1> QED BY <1>10, <1>11, <1>12 DEF a

\* What an item records of node i, given what the items nested in it record.
Recording(t, i, n, s, in) ==
    SumTo([p \in 1..n |-> IF p \notin PropertiesOf(t, s) THEN 0
                          ELSE NamesOf(t, p) * ((IF p = i THEN 1 ELSE 0)
                                                + (IF p \in Scopes(t) THEN in[p] ELSE 0))],
          n)

\* The recursion of _parse_microdata_item.
IsRecord(in, t, i, n) == in = [s \in 1..n |-> Recording(t, i, n, s, in)]

\* The recursion of what an item records has a solution.
LEMMA RecordExists ==
    ASSUME NEW t, NEW n, IsMarkup(t, n), NEW i
    PROVE  \E in : IsRecord(in, t, i, n)
  <1> DEFINE D == 1..n
             m == n + 1
             rank == [s \in D |-> n - s]
             R(s, g) == Recording(t, i, n, s, g)
             F == [x \in D \X [D -> Nat] |-> R(x[1], x[2])]
  <1>0. IsTreeOf(t, n) /\ \A p \in D : NamesOf(t, p) \in Nat
    BY DEF IsMarkup
  <1>1. n \in Nat /\ \A s \in D : \A p \in PropertiesOf(t, s) : p \in D /\ s < p
    <2>1. n \in Nat /\ Nodes(t) = 1..n
      BY <1>0 DEF IsTreeOf, Nodes
    <2>2. \A j \in 0..n : \A k \in Ancestors(t)[j] : k \in Nat /\ k < j
      BY <1>0, AncestorsAre
    <2>3. \A j \in 1..n : j \in 0..n
      BY <2>1
    <2> QED BY <2>1, <2>2, <2>3 DEF PropertiesOf, Properties
  <1>2. m \in Nat /\ rank \in [D -> Nat] /\ (\A s \in D : rank[s] < m) /\ Nat # {}
    BY <1>1
  <1>3. \A s \in D, g \in [D -> Nat] : F[<<s, g>>] = R(s, g)
    <2> HIDE DEF R
    <2> QED OBVIOUS
  <1> DEFINE term(s, g) == [p \in D |-> IF p \notin PropertiesOf(t, s) THEN 0
                                        ELSE NamesOf(t, p) * ((IF p = i THEN 1 ELSE 0)
                                                + (IF p \in Scopes(t) THEN g[p] ELSE 0))]
  <1>4. \A s \in D, g \in [D -> Nat] : R(s, g) \in Nat
    <2> TAKE s \in D, g \in [D -> Nat]
    <2>1. \A p \in 1..n : term(s, g)[p] \in Nat
      <3> TAKE p \in 1..n
      <3>1. (IF p = i THEN 1 ELSE 0) + (IF p \in Scopes(t) THEN g[p] ELSE 0) \in Nat
        OBVIOUS
      <3>2. \A x, y \in Nat : x * y \in Nat
        OBVIOUS
      <3> QED BY <1>0, <3>1, <3>2
    <2> HIDE DEF term
    <2>2. SumTo(term(s, g), n) \in Nat
      BY <1>1, <2>1, SumOfNaturals
    <2> QED BY <2>2, Zenon DEF term, Recording
  <1>5. F \in [D \X [D -> Nat] -> Nat]
    <2> HIDE DEF R, D
    <2>1. \A x \in D \X [D -> Nat] : R(x[1], x[2]) \in Nat
      <3> TAKE x \in D \X [D -> Nat]
      <3>1. x[1] \in D /\ x[2] \in [D -> Nat]
        OBVIOUS
      <3> QED BY <1>4, <3>1, Zenon
    <2> QED BY <2>1
  <1>6. ASSUME NEW s \in D, NEW g \in [D -> Nat], NEW h \in [D -> Nat],
               \A j \in D : rank[j] < rank[s] => g[j] = h[j]
        PROVE  F[<<s, g>>] = F[<<s, h>>]
    <2>1. \A p \in PropertiesOf(t, s) : p \in D /\ rank[p] < rank[s]
      BY <1>1
    <2>2. \A p \in PropertiesOf(t, s) : g[p] = h[p]
      BY <1>6, <2>1
    <2>3. term(s, g) = term(s, h)
      BY <2>2
    <2> HIDE DEF F, term, D
    <2>4. F[<<s, g>>] = SumTo(term(s, g), n) /\ F[<<s, h>>] = SumTo(term(s, h), n)
      BY <1>3, Zenon DEF term, Recording, D
    <2> QED BY <2>3, <2>4, Zenon
  <1> HIDE DEF F, rank, D, m
  <1>7. \A s \in D : \A g, h \in [D -> Nat] :
           (\A j \in D : rank[j] < rank[s] => g[j] = h[j]) => F[<<s, g>>] = F[<<s, h>>]
    BY <1>6
  <1>8. IsRecursion(D, Nat, rank, m, F)
    BY <1>2, <1>5, <1>7 DEF IsRecursion
  <1>9. PICK g \in [D -> Nat] : \A s \in D : g[s] = F[<<s, g>>]
    BY <1>8, RecursiveDefinition
  <1>10. \A s \in D : g[s] = R(s, g)
    BY <1>3, <1>9, Zenon
  <1> HIDE DEF R
  <1>11. g = [s \in D |-> R(s, g)]
    BY <1>9, <1>10
  <1>12. IsRecord(g, t, i, n)
    BY <1>11, Zenon DEF IsRecord, D, R
  <1> QED BY <1>12

\* An item records a node as often as the node belongs into what is returned for
\* each time the item does, if it lies around the node, and not at all otherwise.
LEMMA RecordedAsNamed ==
    ASSUME NEW t, NEW n, IsMarkup(t, n), NEW i \in 1..n
    PROVE  \A s \in Scopes(t) :
              /\ Recorded(t, i)[s] \in Nat
              /\ s \notin Ancestors(t)[i] => Recorded(t, i)[s] = 0
              /\ s \in Ancestors(t)[i] =>
                    TimesNamed(t)[s] * Recorded(t, i)[s] = TimesNamed(t)[i]
  <1> DEFINE size == Cardinality(Nodes(t))
             in == CHOOSE g : IsRecord(g, t, i, size)
             a == Ancestors(t)
             u == TimesNamed(t)
             weight == [p \in 1..n |-> NamesOf(t, p)]
  <1>1. /\ n \in Nat /\ size = n /\ IsTreeOf(t, n) /\ Scopes(t) \subseteq 1..n
        /\ \A p \in 1..n : NamesOf(t, p) \in Nat
    BY DEF IsMarkup, IsTreeOf, Nodes, Scopes
  <1>2. Recorded(t, i) = in
    BY Zenon DEF Recorded, IsRecord, Recording
  <1>3. IsRecord(in, t, i, n)
    <2>1. \E g : IsRecord(g, t, i, n)
      BY RecordExists
    <2> HIDE DEF size
    <2> QED BY <1>1, <2>1, Zenon
  <1> HIDE DEF in, size
  <1>4. \A s \in 1..n : in[s] = Recording(t, i, n, s, in)
    BY <1>3 DEF IsRecord
  <1>5. \A s \in 1..n : \A p \in 1..n : s \in a[p] => s < p
    <2>1. \A j \in 0..n : \A k \in a[j] : k < j
      BY <1>1, AncestorsAre
    <2>2. \A j \in 1..n : j \in 0..n
      BY <1>1
    <2> HIDE DEF a
    <2> QED BY <2>1, <2>2
  <1>6. \A p \in 1..n :
           /\ u[p] \in Nat
           /\ NearestScope(t, p) # 0 => u[p] = NamesOf(t, p) * u[NearestScope(t, p)]
    BY NamingIs
  <1> HIDE DEF u
  <1> DEFINE Right(s) == /\ in[s] \in Nat
                         /\ s \notin a[i] => in[s] = 0
                         /\ s \in a[i] => u[s] * in[s] = u[i]
             term(s) == [p \in 1..n |-> IF p \notin PropertiesOf(t, s) THEN 0
                                        ELSE NamesOf(t, p) * ((IF p = i THEN 1 ELSE 0)
                                                + (IF p \in Scopes(t) THEN in[p] ELSE 0))]
             S == {k \in Nat : \A s \in Scopes(t) : n - s <= k => Right(s)}
  <1>7. ASSUME NEW s \in Scopes(t), \A p \in Scopes(t) : s < p => Right(p)
        PROVE  Right(s)
    <2>1. s \in 1..n /\ s # 0
      BY <1>1
    <2>2. in[s] = SumTo(term(s), n)
      BY <1>4, <2>1, Zenon DEF Recording
    <2>3. \A p \in 1..n : p \in PropertiesOf(t, s) <=>
             NamesOf(t, p) > 0 /\ s \in a[p] /\ NearestScope(t, p) = s
      BY <1>1 DEF PropertiesOf, Properties, IsTreeOf, Nodes
    <2>4. \A p \in Scopes(t) : s \in a[p] => Right(p)
      BY <1>1, <1>5, <1>7, <2>1
    <2> DEFINE there(p) == (IF p = i THEN 1 ELSE 0) + (IF p \in Scopes(t) THEN in[p] ELSE 0)
    <2>5. \A p \in 1..n : s \in a[p] => there(p) \in Nat
      BY <2>4
    <2>6. \A p \in 1..n :
             term(s)[p] = IF s \in a[p] /\ NearestScope(t, p) = s
                          THEN weight[p] * there(p) ELSE 0
      <3> TAKE p \in 1..n
      <3>1. /\ term(s)[p] = IF p \notin PropertiesOf(t, s) THEN 0 ELSE NamesOf(t, p) * there(p)
            /\ weight[p] = NamesOf(t, p) /\ NamesOf(t, p) \in Nat
        BY <1>1
      <3>2. \A x \in Nat : 0 * x = 0
        OBVIOUS
      <3> HIDE DEF term, there, weight
      <3> QED BY <2>3, <2>5, <3>1, <3>2
    <2>7. \A p \in 1..n : weight[p] \in Nat /\ weight[p] = NamesOf(t, p)
      BY <1>1
    <2>8. RecordsBelow(in, t, i, s)
      BY <2>4 DEF RecordsBelow
    <2> DEFINE f == term(s)
    <2> HIDE DEF term, weight
    <2>9. CountsIn(f, t, n, i, s, weight, in)
      BY <2>6 DEF CountsIn
    <2> HIDE DEF f, there
    <2>10. /\ SumTo(f, n) \in Nat
           /\ s \notin a[i] => SumTo(f, n) = 0
           /\ \A q \in 1..n : IsNext(t, s, i, q) =>
                 SumTo(f, n) = weight[q] * (IF q = i THEN 1 ELSE in[q])
      BY <1>1, <2>7, <2>8, <2>9, SumAtNext
    <2>11. ASSUME s \in a[i] PROVE u[s] * in[s] = u[i]
      <3>1. PICK q \in 1..n : IsNext(t, s, i, q)
        BY <1>1, <2>11, NextExists
      <3>2. q \in Around(t, i) \cup {i} /\ s \in a[q] /\ NearestScope(t, q) = s
        BY <3>1 DEF IsNext
      <3>3. in[s] = NamesOf(t, q) * (IF q = i THEN 1 ELSE in[q])
        BY <2>2, <2>7, <2>10, <3>1 DEF f
      <3>4. u[q] = NamesOf(t, q) * u[s]
        BY <1>6, <2>1, <3>2
      <3>5. \A x, y, z \in Nat : x * (y * z) = (y * x) * z /\ x * 1 = x /\ x * y = y * x
        OBVIOUS
      <3>6. u[s] \in Nat /\ NamesOf(t, q) \in Nat
        BY <1>1, <1>6, <2>1
      <3>7. CASE q = i
        <4>1. in[s] = NamesOf(t, i)
          BY <3>3, <3>5, <3>6, <3>7
        <4> QED BY <3>4, <3>5, <3>6, <3>7, <4>1
      <3>8. CASE q # i
        <4>1. q \in Scopes(t) /\ q \in a[i]
          BY <3>2, <3>8 DEF Around
        <4>2. in[q] \in Nat /\ u[q] * in[q] = u[i]
          BY <2>4, <3>2, <4>1
        <4>3. in[s] = NamesOf(t, q) * in[q]
          BY <3>3, <3>8
        <4>4. u[s] * (NamesOf(t, q) * in[q]) = (NamesOf(t, q) * u[s]) * in[q]
          BY <3>5, <3>6, <4>2
        <4> QED BY <3>4, <4>2, <4>3, <4>4
      <3> QED BY <3>7, <3>8
    <2> QED BY <2>2, <2>10, <2>11 DEF f
  <1> HIDE DEF term, Right, weight
  <1>8. 0 \in S
    <2> SUFFICES ASSUME NEW s \in Scopes(t), n - s <= 0 PROVE Right(s)
      OBVIOUS
    <2>1. s \in Nat /\ \A p \in Scopes(t) : p <= n /\ p \in Nat
      BY <1>1
    <2>2. \A p \in Scopes(t) : ~(s < p)
      BY <1>1, <2>1
    <2> QED BY <1>7, <2>2
  <1>9. ASSUME NEW k \in Nat, k \in S PROVE k + 1 \in S
    <2> SUFFICES ASSUME NEW s \in Scopes(t), n - s <= k + 1 PROVE Right(s)
      OBVIOUS
    <2>1. s \in Nat /\ \A p \in Scopes(t) : p \in Nat
      BY <1>1
    <2>2. \A p \in Scopes(t) : s < p => n - p <= k
      BY <1>1, <2>1
    <2> QED BY <1>7, <1>9, <2>2
  <1> HIDE DEF S
  <1>10. \A k \in Nat : k \in S
    BY <1>8, <1>9, AllNaturals
  <1>11. n \in S /\ \A s \in Scopes(t) : n - s <= n
    BY <1>1, <1>10
  <1>12. \A s \in Scopes(t) : Right(s)
    BY <1>11 DEF S
  <1> QED BY <1>2, <1>12 DEF Right, a, u

\* Everything is extracted as often as it is named.
LEMMA ItemsAreExtractedAsNamed ==
    ASSUME NEW t, NEW n, IsMarkup(t, n)
    PROVE  ExtractedAsNamed(t)
  <1> SUFFICES ASSUME NEW i \in 1..n PROVE TimesExtracted(t, i) = TimesNamed(t)[i]
    BY DEF ExtractedAsNamed, IsMarkup, IsTreeOf, Nodes
  <1> DEFINE size == Cardinality(Nodes(t))
             f == [s \in 1..n |-> IF s \notin TopScopes(t) THEN 0
                                  ELSE (IF s = i THEN 1 ELSE 0) + Recorded(t, i)[s]]
             u == TimesNamed(t)
             in == Recorded(t, i)
             weight == [p \in 1..n |-> IF p \in Scopes(t) THEN 1 ELSE 0]
  <1>1. /\ n \in Nat /\ size = n /\ IsTreeOf(t, n) /\ Scopes(t) \subseteq 1..n
        /\ \A j \in 1..n : 0 \in Ancestors(t)[j]
    <2>1. /\ n \in Nat /\ size = n /\ IsTreeOf(t, n) /\ Scopes(t) \subseteq 1..n
      BY DEF IsMarkup, IsTreeOf, Nodes, Scopes
    <2> QED BY <2>1, AncestorsAre
  <1>2. TimesExtracted(t, i) = SumTo(f, n)
    <2>1. TimesExtracted(t, i) =
             SumTo([s \in 1..size |-> IF s \notin TopScopes(t) THEN 0
                                      ELSE (IF s = i THEN 1 ELSE 0) + Recorded(t, i)[s]], size)
      BY Zenon DEF TimesExtracted
    <2>2. size = n
      BY <1>1
    <2> HIDE DEF size
    <2> QED BY <2>1, <2>2, Zenon
  <1>3. \A s \in Scopes(t) : /\ in[s] \in Nat
                             /\ s \notin Ancestors(t)[i] => in[s] = 0
                             /\ s \in Ancestors(t)[i] => u[s] * in[s] = u[i]
    BY RecordedAsNamed
  <1>4. \A p \in 1..n : NearestScope(t, p) = 0 => u[p] = IF p \in Scopes(t) THEN 1 ELSE 0
    BY NamingIs
  <1> HIDE DEF u, in
  <1>5. \A p \in 1..n : weight[p] \in Nat /\ weight[p] = IF p \in Scopes(t) THEN 1 ELSE 0
    OBVIOUS
  <1> HIDE DEF weight
  <1>6. CountsIn(f, t, n, i, 0, weight, in)
    <2> SUFFICES ASSUME NEW p \in 1..n
                 PROVE  f[p] = IF 0 \in Ancestors(t)[p] /\ NearestScope(t, p) = 0
                               THEN weight[p] * ((IF p = i THEN 1 ELSE 0)
                                                 + (IF p \in Scopes(t) THEN in[p] ELSE 0))
                               ELSE 0
      BY DEF CountsIn
    <2>1. p \in TopScopes(t) <=> p \in Scopes(t) /\ NearestScope(t, p) = 0
      BY DEF TopScopes, Root
    <2>2. f[p] = IF p \notin TopScopes(t) THEN 0 ELSE (IF p = i THEN 1 ELSE 0) + in[p]
      BY DEF in
    <2>3. \A x \in Nat : 0 * x = 0 /\ 1 * x = x
      OBVIOUS
    <2> HIDE DEF f
    <2>4. CASE p \in Scopes(t)
      <3>1. (IF p = i THEN 1 ELSE 0) + in[p] \in Nat /\ weight[p] = 1
        BY <1>3, <1>5, <2>4
      <3> QED BY <1>1, <2>1, <2>2, <2>3, <2>4, <3>1
    <2>5. CASE p \notin Scopes(t)
      <3>1. weight[p] = 0
        BY <1>5, <2>5
      <3> QED BY <2>1, <2>2, <2>5, <3>1
    <2> QED BY <2>4, <2>5
  <1> HIDE DEF f, size
  <1>7. RecordsBelow(in, t, i, 0)
    BY <1>3 DEF RecordsBelow
  <1>8. PICK q \in 1..n : IsNext(t, 0, i, q)
    BY <1>1, NextExists
  <1>9. SumTo(f, n) = weight[q] * (IF q = i THEN 1 ELSE in[q])
    BY <1>1, <1>5, <1>6, <1>7, <1>8, SumAtNext
  <1>10. q \in Around(t, i) \cup {i} /\ NearestScope(t, q) = 0
    BY <1>8 DEF IsNext
  <1>11. u[q] = weight[q]
    BY <1>4, <1>5, <1>10
  <1>12. CASE q = i
    BY <1>2, <1>5, <1>9, <1>11, <1>12 DEF u
  <1>13. CASE q # i
    <2>1. q \in Scopes(t) /\ q \in Ancestors(t)[i]
      BY <1>10, <1>13 DEF Around
    <2>2. u[q] * in[q] = u[i]
      BY <1>3, <2>1
    <2> QED BY <1>2, <1>9, <1>11, <1>13, <2>2 DEF u
  <1> QED BY <1>12, <1>13

-----------------------------------------------------------------------------
(* The invariant of a report in the making.                                *)

\* A tool that has ended holds what it answers on this site, or has failed; the
\* report as built is that of these results.
ReportInv ==
    /\ IsSite(site)
    /\ DOMAIN results \subseteq site.FULL_REPORT_TOOLS
    /\ \A t \in DOMAIN results : results[t] = Ok(Answered(t)) \/ results[t] = Failed
    /\ pdf # None => DOMAIN results = site.FULL_REPORT_TOOLS /\ pdf = Pdf(Report)

\* No tool has ended in the beginning.
LEMMA InitReport == Init => ReportInv
  <1> SUFFICES ASSUME Init PROVE ReportInv
    OBVIOUS
  <1>1. PICK subject \in Subjects : site \in SitesOf(subject)
    BY DEF Init
  <1>2. IsSite(site)
    BY <1>1, SitesAre
  <1>3. results = <<>> /\ pdf = None
    BY DEF Init
  <1>4. DOMAIN results = {}
    BY <1>3
  <1> QED BY <1>2, <1>3, <1>4 DEF ReportInv

\* Every step keeps it.
LEMMA NextReport == ReportInv /\ [Next]_vars => ReportInv'
  <1> SUFFICES ASSUME ReportInv, [Next]_vars PROVE ReportInv'
    OBVIOUS
  <1>1. \A t : site' = site => Answered(t)' = Answered(t)
    BY DEF Answered, Extracted
  <1>2. ASSUME NEW tool \in Tools, RunTool(tool) PROVE ReportInv'
    <2>1. site' = site /\ pdf' = pdf /\ tool \in site.FULL_REPORT_TOOLS \ DOMAIN results
      BY <1>2 DEF RunTool
    <2>2. PICK r : /\ r = Ok(Answered(tool)) \/ r = Failed
                   /\ results' = With(tool, r)
      BY <1>2 DEF RunTool
    <2>3. DOMAIN results' = DOMAIN results \cup {tool} /\ results'[tool] = r
          /\ \A t \in DOMAIN results : results'[t] = results[t]
      BY <2>1, <2>2 DEF With
    <2>4. \A t \in DOMAIN results' : results'[t] = Ok(Answered(t)) \/ results'[t] = Failed
      BY <2>2, <2>3 DEF ReportInv
    <2>5. IsSite(site)' /\ (DOMAIN results \subseteq site.FULL_REPORT_TOOLS)'
      BY <2>1, <2>3 DEF ReportInv
    <2>6. (\A t \in DOMAIN results : results[t] = Ok(Answered(t)) \/ results[t] = Failed)'
      BY <1>1, <2>1, <2>4 DEF Ok, Failed
    <2>7. pdf' = None
      BY <2>1 DEF ReportInv
    <2> QED BY <2>5, <2>6, <2>7 DEF ReportInv
  <1>3. CASE BuildReportPdf
    <2>1. /\ site' = site /\ results' = results
          /\ DOMAIN results = site.FULL_REPORT_TOOLS /\ pdf' = Pdf(Report)
      BY <1>3 DEF BuildReportPdf
    <2>2. Report' = Report
      BY <2>1 DEF Report
    <2> QED BY <1>1, <2>1, <2>2 DEF ReportInv, Ok, Failed
  <1>4. CASE UNCHANGED vars
    <2>1. site' = site /\ results' = results /\ pdf' = pdf
      BY <1>4 DEF vars
    <2>2. Report' = Report
      BY <2>1 DEF Report
    <2> QED BY <1>1, <2>1, <2>2 DEF ReportInv, Ok, Failed
  <1>5. CASE Built
    BY <1>4, <1>5 DEF Built
  <1> QED BY <1>2, <1>3, <1>4, <1>5 DEF Next

\* A sequence followed by n entries of one kind.
LEMMA Padded ==
    ASSUME NEW S, NEW s \in Seq(S), NEW o \in S, NEW n \in Nat, NEW q,
           q = s \o [i \in 1..n |-> o]
    PROVE  /\ DOMAIN q = 1..(Len(s) + n) /\ Len(q) = Len(s) + n /\ Len(s) + n \in Nat
           /\ \A i \in 1..(Len(s) + n) : q[i] \in S
  <1>1. [i \in 1..n |-> o] \in Seq(S) /\ Len([i \in 1..n |-> o]) = n
    OBVIOUS
  <1>2. q \in Seq(S) /\ Len(q) = Len(s) + n
    BY <1>1
  <1>3. \A i \in 1..Len(q) : q[i] \in S
    BY <1>2
  <1> QED BY <1>2, <1>3

\* What is extracted from a site: so many objects, the right ones, as often as they
\* ought to be.
LEMMA ExtractedIs ==
    ASSUME IsSite(site)
    PROVE  LET n == Len(site.objects) + Cardinality(JsonObjects(site.json))
                                      + Cardinality(TopScopes(site.markup))
           IN  /\ n \in Nat /\ DOMAIN Extracted = 1..n /\ Len(Extracted) = n
               /\ \A i \in 1..n : IsObject(Extracted[i])
               /\ ListsOnce(FlattenJsonLd(site.json), JsonObjects(site.json))
               /\ ExtractedAsNamed(site.markup)
  <1> DEFINE json == site.json
             markup == site.markup
             a == Cardinality(JsonObjects(json))
             b == Cardinality(TopScopes(markup))
             S == Objects \cup {SampleObject}
             unlisted == Object("Unlisted", <<>>)
  <1>1. site.objects \in Seq(S) /\ Rooted(json)
    BY DEF IsSite
  <1>2. PICK k \in Nat : json \in Trees(k, JsonLabels)
    BY DEF IsSite, IsTree
  <1>3. PICK m \in Nat : markup \in Trees(m, MarkupLabels)
    BY DEF IsSite, IsTree
  <1> HIDE DEF json, markup
  <1>4. ListsOnce(FlattenJsonLd(json), JsonObjects(json)) /\ JsonObjects(json) \subseteq 1..k
    BY <1>1, <1>2, FlattenIsExact, ListsCount
  <1>5. IsMarkup(markup, m) /\ Nodes(markup) = 1..m
    BY <1>3, TreeIs, MarkupIs
  <1>6. ExtractedAsNamed(markup)
    BY <1>5, ItemsAreExtractedAsNamed
  <1>7. TopScopes(markup) \subseteq 1..m
    BY <1>5 DEF TopScopes, Scopes
  <1>8. a \in Nat /\ b \in Nat
    BY <1>2, <1>3, <1>4, <1>7, IntervalSize, FS_Subset, FS_CardinalityType
  <1>9. unlisted \in S
    BY DEF Objects
  <1>10. Extracted = site.objects \o [i \in 1..(a + b) |-> unlisted]
    BY <1>4 DEF Extracted, ListsOnce, json, markup
  <1> DEFINE n == Len(site.objects) + (a + b)
  <1>11. /\ DOMAIN Extracted = 1..n /\ Len(Extracted) = n /\ n \in Nat
         /\ \A i \in 1..n : Extracted[i] \in S
    <2>1. a + b \in Nat
      BY <1>8
    <2> HIDE DEF a, b, S, unlisted
    <2> QED BY <1>1, <1>9, <1>10, <2>1, Padded
  <1>12. \A o \in S : IsObject(o)
    BY ObjectsAreFinite
  <1>13. n = Len(site.objects) + a + b
    <2>1. Len(site.objects) \in Nat
      BY <1>1
    <2>2. \A x, y, z \in Nat : x + (y + z) = x + y + z
      OBVIOUS
    <2> QED BY <1>8, <2>1, <2>2, Zenon
  <1> HIDE DEF n, a, b, S, unlisted
  <1>14. /\ n \in Nat /\ DOMAIN Extracted = 1..n /\ Len(Extracted) = n
         /\ \A i \in 1..n : IsObject(Extracted[i])
    BY <1>11, <1>12
  <1> QED BY <1>4, <1>6, <1>13, <1>14, Zenon DEF a, b, json, markup

\* What a report holds of a tool is what the tool answers.
LEMMA ReportIs ==
    ASSUME ReportInv
    PROVE  \A t \in Tools : Report[t].status = "ok" => Report[t].data = Answered(t)
  <1> SUFFICES ASSUME NEW t \in Tools, Report[t].status = "ok"
               PROVE  Report[t].data = Answered(t)
    OBVIOUS
  <1>1. Report[t] = IF t \in DOMAIN results THEN results[t] ELSE Skipped
    BY DEF Report
  <1>2. Report[t] = Ok(Answered(t))
    BY <1>1 DEF ReportInv, Failed, Skipped
  <1> QED BY <1>2 DEF Ok

\* What the tools answer is fit to be scored.
LEMMA AnswersAre ==
    ASSUME IsSite(site)
    PROVE  /\ IsMetrics(Answered("pagespeed")) /\ IsMetrics(Answered("gtmetrix"))
           /\ IsWave(Answered("accessibility"))
           /\ site.scan \in Scan /\ Answered("ssl") = ParseScan(site.scan)
           /\ LET d == Answered("links")
              IN  d.total_links \in Nat /\ d.broken \in Nat /\ d.broken <= d.total_links
           /\ LET d == Answered("structured_data")
              IN  /\ d.total_schemas \in Nat /\ d.valid_schemas \in Nat
                  /\ d.valid_schemas <= d.total_schemas
                  /\ d.total_errors \in Nat
                  /\ d.valid_schemas < d.total_schemas <=> d.total_errors > 0
  <1>1. /\ Answered("pagespeed") = site.pagespeed /\ Answered("gtmetrix") = site.gtmetrix
        /\ Answered("accessibility") = site.wave /\ Answered("ssl") = ParseScan(site.scan)
        /\ Answered("links") = QuickLinkCheck(site.page, site.network)
        /\ Answered("structured_data") = QuickSchemaCheck(Extracted)
    BY DEF Answered
  <1>2. /\ IsMetrics(site.pagespeed) /\ IsMetrics(site.gtmetrix) /\ IsWave(site.wave)
        /\ site.scan \in Scan /\ site.page \in Seq(Element) /\ site.network \in [Urls -> Answer]
    BY DEF IsSite
  <1>3. LET d == QuickLinkCheck(site.page, site.network)
        IN  d.total_links \in Nat /\ d.broken \in Nat /\ d.broken <= d.total_links
    BY <1>2, LinkCounts
  <1>4. PICK n \in Nat : /\ DOMAIN Extracted = 1..n /\ Len(Extracted) = n
                         /\ \A i \in 1..n : IsObject(Extracted[i])
    BY ExtractedIs
  <1>5. LET d == QuickSchemaCheck(Extracted)
        IN  /\ d.total_schemas = n
            /\ d.valid_schemas \in Nat /\ d.valid_schemas <= n
            /\ d.total_errors \in Nat
            /\ d.valid_schemas < n <=> d.total_errors > 0
    BY <1>4, SchemaCounts
  <1> QED BY <1>1, <1>2, <1>3, <1>4, <1>5

-----------------------------------------------------------------------------
(* The SSL section.                                                        *)

\* What forces the lowest scores, and what merely lowers them.
Fatal(scan) == \/ Protocols(scan) \cap {"SSL 2.0", "SSL 3.0"} # {}
               \/ Vulnerabilities(scan) \cap {"heartbleed", "openssl_ccs_injection", "robot"} # {}
               \/ Untrusted(scan.certificate)
               \/ ExpiresWithin(scan.certificate, 0)

Old(scan) == Protocols(scan) \cap {"TLS 1.0", "TLS 1.1"} # {}

Capped(scan) == Vulnerabilities(scan) # {}

Modern(scan) == "TLS 1.3" \in Protocols(scan)

\* The score of a scan by what was found, without the grade between them.
LEMMA ScoreByHarm ==
    ASSUME NEW scan \in Scan
    PROVE  SslScore(ParseScan(scan)) =
              IF Fatal(scan) THEN 30
              ELSE IF Capped(scan) THEN 40
              ELSE IF Old(scan) THEN 80
              ELSE IF Modern(scan) THEN 100 ELSE 95
  <1> DEFINE protocols == Protocols(scan)
             vulnerabilities == Vulnerabilities(scan)
             certificate == scan.certificate
             grade == SynthesiseGrade(protocols, vulnerabilities, certificate)
             parsed == ParseScan(scan)
  <1>1. /\ parsed.grade = grade /\ parsed.vulnerabilities = vulnerabilities
        /\ parsed.certificate = certificate
    BY DEF ParseScan
  <1>2. CASE Fatal(scan)
    <2>1. grade \in {"F", "T"}
      BY <1>2 DEF SynthesiseGrade, Fatal
    <2>2. GradeScore(grade) = 30
      BY <2>1 DEF GradeScore
    <2> QED BY <1>1, <1>2, <2>2 DEF SslScore
  <1>3. CASE ~Fatal(scan)
    <2>1. ~Untrusted(certificate)
      BY <1>3 DEF Fatal
    <2>2. grade = IF Old(scan) THEN "B"
                  ELSE IF /\ Modern(scan)
                          /\ vulnerabilities \cap {"tls_compression_crime",
                                                   "insecure_renegotiation"} = {}
                  THEN "A+" ELSE "A"
      BY <1>3 DEF SynthesiseGrade, Fatal, Old, Modern
    <2>3. GradeScore("B") = 80 /\ GradeScore("A") = 95 /\ GradeScore("A+") = 100
      BY DEF GradeScore
    <2>4. CASE Capped(scan)
      <3>1. GradeScore(grade) > 40
        BY <2>2, <2>3
      <3> QED BY <1>1, <1>3, <2>4, <3>1 DEF SslScore, Capped
    <2>5. CASE ~Capped(scan)
      <3>1. vulnerabilities = {}
        BY <2>5 DEF Capped
      <3>2. SslScore(parsed) = GradeScore(grade)
        BY <1>1, <2>1, <3>1 DEF SslScore
      <3> QED BY <1>3, <2>2, <2>3, <2>5, <3>1, <3>2
    <2> QED BY <2>4, <2>5
  <1> QED BY <1>2, <1>3

\* One more defect takes no other away, and brings no new protocol.
LEMMA DefectsAddUp ==
    ASSUME NEW scan \in Scan, NEW worse \in Worsenings(scan)
    PROVE  /\ worse \in Scan
           /\ Fatal(scan) => Fatal(worse)
           /\ Old(scan) => Old(worse)
           /\ Capped(scan) => Capped(worse)
           /\ Modern(worse) => Modern(scan)
  <1>1. ASSUME NEW c \in Defects, worse = [scan EXCEPT !.command[c] = "found"]
        PROVE  /\ worse \in Scan
               /\ worse.certificate = scan.certificate
               /\ Protocols(scan) \subseteq Protocols(worse)
               /\ Vulnerabilities(scan) \subseteq Vulnerabilities(worse)
               /\ "TLS 1.3" \in Protocols(worse) => "TLS 1.3" \in Protocols(scan)
    <2>1. c \in Commands /\ c # "TLS 1.3"
      BY DEF Defects, Commands, PROTOCOL_SCANS, VulnerabilityScans
    <2>2. /\ worse \in Scan /\ worse.certificate = scan.certificate
          /\ worse.command = [scan.command EXCEPT ![c] = "found"]
      BY <1>1, <2>1 DEF Scan, Outcomes
    <2>3. \A d \in Commands : worse.command[d] = IF d = c THEN "found" ELSE scan.command[d]
      BY <2>1, <2>2 DEF Scan
    <2> QED BY <2>1, <2>2, <2>3 DEF Protocols, Vulnerabilities, Commands
  <1>2. ASSUME worse \in {[scan EXCEPT !.certificate.trusted = FALSE],
                         [scan EXCEPT !.certificate.days = @ - 1],
                         [scan EXCEPT !.certificate.days = -1]}
        PROVE  /\ worse \in Scan
               /\ worse.command = scan.command
               /\ Untrusted(scan.certificate) => Untrusted(worse.certificate)
               /\ ExpiresWithin(scan.certificate, 0) => ExpiresWithin(worse.certificate, 0)
    <2> DEFINE before == scan.certificate
               after == worse.certificate
    <2>1. scan \in [command : [Commands -> Outcomes], certificate : Certificate]
          /\ before \in [outcome : {"lacking", "completed"}, days : Int, trusted : BOOLEAN]
      BY DEF Scan, Certificate
    <2>2. worse.command = scan.command /\ worse = [scan EXCEPT !.certificate = after]
      BY <1>2, <2>1
    <2>3. \/ after = [before EXCEPT !.trusted = FALSE]
          \/ after = [before EXCEPT !.days = @ - 1]
          \/ after = [before EXCEPT !.days = -1]
      BY <1>2, <2>1
    <2>4. /\ after \in Certificate
          /\ after.outcome = before.outcome
          /\ after.trusted => before.trusted
          /\ before.days < 0 => after.days < 0
      <3> HIDE DEF before, after
      <3>1. before.days \in Int /\ before.days - 1 \in Int /\ -1 \in Int
        BY <2>1
      <3>2. CASE after = [before EXCEPT !.trusted = FALSE]
        BY <2>1, <3>2 DEF Certificate
      <3>3. CASE after = [before EXCEPT !.days = @ - 1]
        BY <2>1, <3>1, <3>3 DEF Certificate
      <3>4. CASE after = [before EXCEPT !.days = -1]
        BY <2>1, <3>1, <3>4 DEF Certificate
      <3> QED BY <2>3, <3>2, <3>3, <3>4
    <2>5. worse \in Scan
      BY <2>1, <2>2, <2>4 DEF Scan
    <2> QED BY <2>2, <2>4, <2>5 DEF Untrusted, ExpiresWithin
  <1>3. CASE \E c \in Defects : worse = [scan EXCEPT !.command[c] = "found"]
    <2>1. PICK c \in Defects : worse = [scan EXCEPT !.command[c] = "found"]
      BY <1>3
    <2> QED BY <1>1, <2>1 DEF Fatal, Old, Capped, Modern
  <1>4. CASE worse \in {[scan EXCEPT !.certificate.trusted = FALSE],
                        [scan EXCEPT !.certificate.days = @ - 1],
                        [scan EXCEPT !.certificate.days = -1]}
    <2>1. Protocols(worse) = Protocols(scan) /\ Vulnerabilities(worse) = Vulnerabilities(scan)
      BY <1>2, <1>4 DEF Protocols, Vulnerabilities
    <2> QED BY <1>2, <1>4, <2>1 DEF Fatal, Old, Capped, Modern
  <1> QED BY <1>3, <1>4 DEF Worsenings

\* What a scan finds more never raises the score of the SSL section, whatever the
\* outcome of the other commands and the days the certificate has left, although
\* the rules of the grade are not in the order of its scores (sslyze_scanner.py,
\* _synthesise_grade; pdf_builder.py, _SSL_GRADE_SCORE and the cap of _ssl_score).
THEOREM WorseScansScoreLower ==
    \A scan \in Scan : \A worse \in Worsenings(scan) :
        SslScore(ParseScan(worse)) <= SslScore(ParseScan(scan))
  <1> SUFFICES ASSUME NEW scan \in Scan, NEW worse \in Worsenings(scan)
               PROVE  SslScore(ParseScan(worse)) <= SslScore(ParseScan(scan))
    OBVIOUS
  <1> QED BY ScoreByHarm, DefectsAddUp

\* Whenever the SSL section is scored below the threshold the report has advice
\* on it (recommendations.py, the rules on ssl, beside the scorer of pdf_builder.py).
THEOREM LowSslScoreIsAdvised ==
    \A scan \in Scan :
        SslScore(ParseScan(scan)) < PASS_THRESHOLD => SslAdvice(ParseScan(scan)) # {}
  <1> SUFFICES ASSUME NEW scan \in Scan, SslScore(ParseScan(scan)) < PASS_THRESHOLD
               PROVE  SslAdvice(ParseScan(scan)) # {}
    OBVIOUS
  <1> DEFINE parsed == ParseScan(scan)
             grade == SynthesiseGrade(Protocols(scan), Vulnerabilities(scan), scan.certificate)
  <1>1. /\ parsed.grade = grade /\ parsed.vulnerabilities = Vulnerabilities(scan)
    BY DEF ParseScan
  <1>2. Fatal(scan) \/ Capped(scan)
    BY ScoreByHarm DEF PASS_THRESHOLD
  <1>3. CASE Fatal(scan)
    <2>1. grade \in {"F", "T"}
      BY <1>3 DEF SynthesiseGrade, Fatal
    <2>2. "ssl_grade" \in SslAdvice(parsed)
      BY <1>1, <2>1 DEF SslAdvice
    <2> QED BY <2>2
  <1>4. CASE Capped(scan)
    <2>1. "ssl_vuln" \in SslAdvice(parsed)
      BY <1>1, <1>4 DEF SslAdvice, Capped
    <2> QED BY <2>1
  <1> QED BY <1>2, <1>3, <1>4

-----------------------------------------------------------------------------
(* The scores.                                                             *)

\* The score of what a tool answers on a site.
ScoreOf(d, tool) ==
    CASE tool = "pagespeed" -> PagespeedScore(d)
      [] tool = "gtmetrix" -> GtmetrixScore(d)
      [] tool = "accessibility" -> AccessibilityScore(d)
      [] tool = "ssl" -> SslScore(d)
      [] tool = "links" -> LinksScore(d)
      [] tool = "structured_data" -> StructuredDataScore(d)

\* Each answer is scored from 0 to 100, or not at all.
LEMMA AnswersScore ==
    ASSUME IsSite(site)
    PROVE  /\ PagespeedScore(Answered("pagespeed")) \in Score \cup {None}
           /\ GtmetrixScore(Answered("gtmetrix")) \in Score \cup {None}
           /\ AccessibilityScore(Answered("accessibility")) \in Score \cup {None}
           /\ SslScore(Answered("ssl")) \in Score \cup {None}
           /\ LinksScore(Answered("links")) \in Score \cup {None}
           /\ StructuredDataScore(Answered("structured_data")) \in Score \cup {None}
  <1> DEFINE p == Answered("pagespeed")
             g == Answered("gtmetrix")
             w == Answered("accessibility")
             l == Answered("links")
             d == Answered("structured_data")
  <1>1. /\ IsMetrics(p) /\ IsMetrics(g) /\ IsWave(w)
        /\ site.scan \in Scan /\ Answered("ssl") = ParseScan(site.scan)
        /\ l.total_links \in Nat /\ l.broken \in Nat /\ l.broken <= l.total_links
        /\ d.total_schemas \in Nat /\ d.valid_schemas \in Nat /\ d.total_errors \in Nat
    BY AnswersAre
  <1> HIDE DEF p, g, w, l, d
  <1>2. PagespeedScore(p) \in Score \cup {None}
    <2> DEFINE q == <<p.performance_score, p.accessibility_score, p.best_practices_score,
                      p.seo_score>>
    <2>1. DOMAIN q = 1..4 /\ Len(q) = 4 /\ \A i \in 1..4 : q[i] \in Score \cup {None}
      BY <1>1 DEF IsMetrics
    <2>2. PagespeedScore(p) = MeanScore(q)
      BY DEF PagespeedScore
    <2> HIDE DEF q
    <2> QED BY <2>1, <2>2, MeanIsScore
  <1>3. GtmetrixScore(g) \in Score \cup {None}
    <2> DEFINE q == <<g.performance_score, g.structure_score>>
    <2>1. DOMAIN q = 1..2 /\ Len(q) = 2 /\ \A i \in 1..2 : q[i] \in Score \cup {None}
      BY <1>1 DEF IsMetrics
    <2>2. GtmetrixScore(g) = MeanScore(q)
      BY DEF GtmetrixScore
    <2> HIDE DEF q
    <2> QED BY <2>1, <2>2, MeanIsScore
  <1>4. AccessibilityScore(w) \in Score
    <2>1. 100 - 3 * w.total_errors - 2 * w.total_contrast_errors \in Int
      BY <1>1 DEF IsWave
    <2> QED BY <2>1, ClampIsScore DEF AccessibilityScore
  <1>5. SslScore(Answered("ssl")) \in Score
    BY <1>1, ScoreByHarm DEF Score
  <1>6. LinksScore(l) \in Score \cup {None}
    <2> SUFFICES ASSUME l.total_links # 0 PROVE LinksScore(l) \in Score
      BY DEF LinksScore
    <2> DEFINE a == 100 * (l.total_links - l.broken)
               n == l.total_links
    <2>1. a \in Int /\ n \in Nat \ {0}
      BY <1>1
    <2>2. LinksScore(l) = Clamp(RoundedQuotient(a, n))
      BY DEF LinksScore
    <2> HIDE DEF a, n
    <2> QED BY <2>1, <2>2, QuotientIsInt, ClampIsScore
  <1>7. StructuredDataScore(d) \in Score \cup {None}
    <2> SUFFICES ASSUME d.total_schemas # 0 PROVE StructuredDataScore(d) \in Score
      BY DEF StructuredDataScore
    <2> DEFINE a == 100 * d.valid_schemas - 5 * d.total_errors * d.total_schemas
               n == d.total_schemas
    <2>1. a \in Int /\ n \in Nat \ {0}
      <3>1. \A x, y, z \in Nat : 100 * x - 5 * y * z \in Int
        <4> TAKE x, y, z \in Nat
        <4>1. y * z \in Nat /\ 5 * y \in Nat /\ (5 * y) * z \in Nat
          OBVIOUS
        <4> QED BY <4>1
      <3> QED BY <1>1, <3>1
    <2>2. StructuredDataScore(d) = Clamp(RoundedQuotient(a, n))
      BY DEF StructuredDataScore
    <2> HIDE DEF a, n
    <2> QED BY <2>1, <2>2, QuotientIsInt, ClampIsScore
  <1> QED BY <1>2, <1>3, <1>4, <1>5, <1>6, <1>7 DEF p, g, w, l, d

\* Every section and the whole are scored from 0 to 100, or not at all.
LEMMA ScoresAreScores ==
    ASSUME ReportInv
    PROVE  /\ \A t \in Tools : SubScore(Report, t) \in Score \cup {None}
           /\ OverallScore(Report) \in Score \cup {None}
  <1>1. ASSUME NEW t \in Tools PROVE SubScore(Report, t) \in Score \cup {None}
    <2>1. CASE Report[t].status # "ok"
      BY <2>1 DEF SubScore
    <2>2. CASE Report[t].status = "ok"
      <3>1. Report[t].data = Answered(t)
        BY <2>2, ReportIs
      <3>2. SubScore(Report, t) = ScoreOf(Answered(t), t)
        BY <2>2, <3>1, Zenon DEF SubScore, ScoreOf
      <3>3. \/ t = "pagespeed" \/ t = "gtmetrix" \/ t = "accessibility" \/ t = "ssl"
            \/ t = "links" \/ t = "structured_data"
        BY DEF Tools
      <3>4. IsSite(site)
        BY DEF ReportInv
      <3> QED BY <3>2, <3>3, <3>4, AnswersScore DEF ScoreOf
    <2> QED BY <2>1, <2>2
  <1> DEFINE q == <<SubScore(Report, "pagespeed"), SubScore(Report, "gtmetrix"),
                    SubScore(Report, "accessibility"), SubScore(Report, "ssl"),
                    SubScore(Report, "links"), SubScore(Report, "structured_data")>>
  <1>2. DOMAIN q = 1..6 /\ Len(q) = 6 /\ \A i \in 1..6 : q[i] \in Score \cup {None}
    BY <1>1 DEF Tools
  <1>3. OverallScore(Report) = MeanScore(q)
    BY DEF OverallScore
  <1> HIDE DEF q
  <1>4. OverallScore(Report) \in Score \cup {None}
    BY <1>2, <1>3, MeanIsScore
  <1> QED BY <1>1, <1>4

\* What the invariant says of the scores,
LEMMA InvScoresTell == ReportInv => ScoresTell
  <1> SUFFICES ASSUME ReportInv PROVE ScoresTell
    OBVIOUS
  <1>1. pdf # None => /\ pdf.overall \in Score \cup {None}
                      /\ \A t \in Tools : SubScore(Report, t) \in Score \cup {None}
    <2>1. pdf # None => pdf.overall = OverallScore(Report)
      BY DEF ReportInv, Pdf
    <2> QED BY <2>1, ScoresAreScores
  <1>2. ASSUME "ssl" \in DOMAIN results, results["ssl"].status = "ok",
               NEW worse \in Worsenings(site.scan)
        PROVE  SslScore(ParseScan(worse)) <= SslScore(results["ssl"].data)
    <2>1. results["ssl"] = Ok(Answered("ssl"))
      BY <1>2 DEF ReportInv, Failed
    <2>2. site.scan \in Scan /\ Answered("ssl") = ParseScan(site.scan)
      BY AnswersAre DEF ReportInv
    <2> QED BY <2>1, <2>2, WorseScansScoreLower DEF Ok
  <1> QED BY <1>1, <1>2 DEF ScoresTell

-----------------------------------------------------------------------------
(* The advice.                                                             *)

\* The section of a tool that is given no advice is scored at least 95.
LEMMA NoAdviceIsGood ==
    ASSUME ReportInv, NEW t \in Advised, AdviceOn(Report, t) = {}
    PROVE  ~Below(SubScore(Report, t), 95)
  <1> SUFFICES ASSUME Report[t].status = "ok" PROVE ~Below(SubScore(Report, t), 95)
    BY DEF SubScore, Below
  <1> DEFINE d == Answered(t)
  <1>1. t \in Tools /\ IsSite(site)
    BY DEF Advised, Tools, ReportInv
  <1>2. Report[t].data = d
    BY <1>1, ReportIs
  <1> HIDE DEF d
  <1>3. CASE t = "accessibility"
    <2>1. IsWave(d)
      BY <1>1, <1>3, AnswersAre DEF d
    <2>2. AccessibilityAdvice(d) = {} /\ SubScore(Report, t) = AccessibilityScore(d)
      BY <1>2, <1>3 DEF AdviceOn, SubScore
    <2>3. d.total_errors = 0 /\ d.total_contrast_errors = 0
      BY <2>1, <2>2 DEF AccessibilityAdvice, IsWave
    <2>4. AccessibilityScore(d) = 100
      BY <2>3 DEF AccessibilityScore, Clamp
    <2> QED BY <2>2, <2>4 DEF Below
  <1>4. CASE t = "ssl"
    <2>1. site.scan \in Scan /\ d = ParseScan(site.scan)
      BY <1>1, <1>4, AnswersAre DEF d
    <2>2. SslAdvice(d) = {} /\ SubScore(Report, t) = SslScore(d)
      BY <1>2, <1>4 DEF AdviceOn, SubScore
    <2>3. d.grade \in {"A+", "A"} /\ d.vulnerabilities = {}
      BY <2>2 DEF SslAdvice
    <2>4. /\ d.grade = SynthesiseGrade(Protocols(site.scan), Vulnerabilities(site.scan),
                                       site.scan.certificate)
          /\ d.vulnerabilities = Vulnerabilities(site.scan)
      BY <2>1 DEF ParseScan
    <2>5. ~Fatal(site.scan) /\ ~Capped(site.scan) /\ ~Old(site.scan)
      BY <2>3, <2>4 DEF SynthesiseGrade, Fatal, Capped, Old
    <2>6. SslScore(d) \in {95, 100}
      BY <2>1, <2>5, ScoreByHarm
    <2> QED BY <2>2, <2>6 DEF Below
  <1>5. CASE t = "links"
    <2>1. d.total_links \in Nat
      BY <1>1, <1>5, AnswersAre DEF d
    <2>2. LinksAdvice(d) = {} /\ SubScore(Report, t) = LinksScore(d)
      BY <1>2, <1>5 DEF AdviceOn, SubScore
    <2>3. d.broken \in Nat
      BY <1>1, <1>5, AnswersAre DEF d
    <2>4. d.broken = 0
      BY <2>2, <2>3 DEF LinksAdvice
    <2>5. CASE d.total_links = 0
      BY <2>2, <2>5 DEF LinksScore, Below
    <2>6. CASE d.total_links # 0
      <3> DEFINE n == d.total_links
      <3>1. LinksScore(d) = Clamp(RoundedQuotient(100 * (n - d.broken), n))
        BY <2>6 DEF LinksScore
      <3>2. 100 * (n - d.broken) = 100 * n /\ n \in Nat \ {0}
        BY <2>1, <2>4, <2>6
      <3> HIDE DEF n
      <3>3. LinksScore(d) = 100
        BY <3>1, <3>2, QuotientOfWhole DEF Clamp
      <3> QED BY <2>2, <3>3 DEF Below
    <2> QED BY <2>5, <2>6
  <1>6. CASE t = "structured_data"
    <2>1. /\ d.total_schemas \in Nat /\ d.valid_schemas \in Nat /\ d.total_errors \in Nat
          /\ d.valid_schemas <= d.total_schemas
          /\ d.valid_schemas < d.total_schemas <=> d.total_errors > 0
      BY <1>1, <1>6, AnswersAre DEF d
    <2>2. StructuredDataAdvice(d) = {} /\ SubScore(Report, t) = StructuredDataScore(d)
      BY <1>2, <1>6 DEF AdviceOn, SubScore
    <2>3. d.total_schemas # 0 /\ d.total_errors = 0
      BY <2>1, <2>2 DEF StructuredDataAdvice
    <2> DEFINE n == d.total_schemas
    <2>4. StructuredDataScore(d)
            = Clamp(RoundedQuotient(100 * d.valid_schemas - 5 * d.total_errors * n, n))
      BY <2>3 DEF StructuredDataScore
    <2>5. n \in Nat \ {0} /\ d.valid_schemas = n
      BY <2>1, <2>3
    <2>6. 100 * d.valid_schemas - 5 * d.total_errors * n = 100 * n
      BY <2>3, <2>5
    <2> HIDE DEF n
    <2>7. StructuredDataScore(d) = 100
      BY <2>4, <2>5, <2>6, QuotientOfWhole DEF Clamp
    <2> QED BY <2>2, <2>7 DEF Below
  <1> QED BY <1>3, <1>4, <1>5, <1>6 DEF Advised

\* All advice is in the dictionaries, and "all_good" is not among it.
LEMMA AdviceIsThere ==
    ASSUME ReportInv
    PROVE  \A t \in Tools : AdviceOn(Report, t) \subseteq EnglishAdvice \ {"all_good", "intro"}
  <1> SUFFICES ASSUME NEW t \in Tools, Report[t].status = "ok"
               PROVE  AdviceOn(Report, t) \subseteq EnglishAdvice \ {"all_good", "intro"}
    BY DEF AdviceOn
  <1> DEFINE d == Answered(t)
  <1>1. Report[t].data = d
    BY ReportIs
  <1>2. t = "pagespeed" => d.slow \subseteq {"lcp", "tbt", "cls"}
    BY AnswersAre DEF ReportInv, IsMetrics
  <1> HIDE DEF d
  <1>3. CASE t = "pagespeed"
    <2>1. AdviceOn(Report, t) = PagespeedAdvice(d)
      BY <1>1, <1>3 DEF AdviceOn
    <2> QED BY <1>2, <1>3, <2>1 DEF PagespeedAdvice, EnglishAdvice
  <1>4. CASE t = "accessibility"
    <2>1. AdviceOn(Report, t) = AccessibilityAdvice(d)
      BY <1>1, <1>4 DEF AdviceOn
    <2> QED BY <2>1 DEF AccessibilityAdvice, EnglishAdvice
  <1>5. CASE t = "ssl"
    <2>1. AdviceOn(Report, t) = SslAdvice(d)
      BY <1>1, <1>5 DEF AdviceOn
    <2> QED BY <2>1 DEF SslAdvice, EnglishAdvice
  <1>6. CASE t = "links"
    <2>1. AdviceOn(Report, t) = LinksAdvice(d)
      BY <1>1, <1>6 DEF AdviceOn
    <2> QED BY <2>1 DEF LinksAdvice, EnglishAdvice
  <1>7. CASE t = "structured_data"
    <2>1. AdviceOn(Report, t) = StructuredDataAdvice(d)
      BY <1>1, <1>7 DEF AdviceOn
    <2> QED BY <2>1 DEF StructuredDataAdvice, EnglishAdvice
  <1>8. CASE t = "gtmetrix"
    <2>1. AdviceOn(Report, t) = {}
      BY <1>1, <1>8 DEF AdviceOn
    <2> QED BY <2>1
  <1> QED BY <1>3, <1>4, <1>5, <1>6, <1>7, <1>8 DEF Tools

\* No lookup fails.
LEMMA TextsAreThere ==
    ASSUME ReportInv
    PROVE  EverythingIsSaid(Report)
  <1>1. \A lang \in Languages : /\ LABELS[lang] = EnglishLabels
                                /\ EXPLANATIONS[lang] = EnglishNotes
                                /\ REC[lang] = EnglishAdvice
    <2>1. /\ ArabicLabels = EnglishLabels /\ ArabicNotes = EnglishNotes
          /\ ArabicAdvice = EnglishAdvice
      BY Zenon DEF ArabicLabels, EnglishLabels, ArabicNotes, EnglishNotes, ArabicAdvice,
                   EnglishAdvice
    <2> QED BY <2>1, Zenon DEF LABELS, EXPLANATIONS, REC
  <1>2. FrameLabels(Report) \subseteq EnglishLabels
    BY DEF FrameLabels, EnglishLabels
  <1>3. {"intro"} \cup BuildRecommendations(Report) \subseteq EnglishAdvice
    <2>1. UNION {AdviceOn(Report, t) : t \in Tools} \subseteq EnglishAdvice
      BY AdviceIsThere
    <2>2. "intro" \in EnglishAdvice /\ "all_good" \in EnglishAdvice
      BY DEF EnglishAdvice
    <2> HIDE DEF EnglishAdvice
    <2> QED BY <2>1, <2>2 DEF BuildRecommendations
  <1>4. ASSUME NEW t \in Tools
        PROVE  /\ RowsOf(t) \subseteq EnglishNotes
               /\ RowsOf(t) \cup {TitleOf(t), "metric", "result"} \subseteq EnglishLabels
    <2>1. \/ t = "pagespeed" \/ t = "gtmetrix" \/ t = "accessibility" \/ t = "ssl"
          \/ t = "links" \/ t = "structured_data"
      BY DEF Tools
    <2> QED BY <2>1 DEF RowsOf, TitleOf, EnglishNotes, EnglishLabels
  <1>5. ASSUME NEW t \in Tools, NEW d PROVE ValuesOfTable(t, d) \subseteq EnglishLabels
    <2>1. \A s : Rating(s) \in {"na", "good", "warn", "poor"}
      BY DEF Rating
    <2>2. CASE t = "pagespeed"
      <3>1. ValuesOfTable(t, d) \subseteq {"na", "good", "warn", "poor"}
        BY <2>1, <2>2 DEF ValuesOfTable
      <3> QED BY <3>1 DEF EnglishLabels
    <2>3. CASE t = "gtmetrix"
      BY <2>3 DEF ValuesOfTable
    <2>4. CASE t = "accessibility"
      BY <2>4 DEF ValuesOfTable, EnglishLabels
    <2>5. CASE t = "ssl"
      BY <2>5 DEF ValuesOfTable, EnglishLabels
    <2>6. CASE t = "links"
      BY <2>6 DEF ValuesOfTable, EnglishLabels
    <2>7. CASE t = "structured_data"
      BY <2>7 DEF ValuesOfTable, EnglishLabels
    <2> QED BY <2>2, <2>3, <2>4, <2>5, <2>6, <2>7 DEF Tools
  <1>6. ASSUME NEW t \in Tools PROVE LabelsOf(Report, t) \subseteq EnglishLabels
    <2>1. {"not_included", "could_not_run", "sd_none"} \subseteq EnglishLabels
      BY DEF EnglishLabels
    <2> DEFINE values == ValuesOfTable(t, Report[t].data)
    <2>2. values \subseteq EnglishLabels
      BY <1>5
    <2>3. LabelsOf(Report, t) \subseteq {TitleOf(t), "not_included", "could_not_run", "sd_none",
                                         "metric", "result"} \cup RowsOf(t) \cup values
      <3> HIDE DEF values
      <3> QED BY DEF LabelsOf, values
    <2> HIDE DEF values
    <2> QED BY <1>4, <2>1, <2>2, <2>3
  <1> QED BY <1>1, <1>2, <1>3, <1>4, <1>6 DEF EverythingIsSaid

\* of the advice,
LEMMA InvAdviceExplains == ReportInv => AdviceExplains
  <1> SUFFICES ASSUME ReportInv PROVE AdviceExplains
    OBVIOUS
  <1>1. ASSUME NEW t \in Advised, Below(SubScore(Report, t), PASS_THRESHOLD)
        PROVE  AdviceOn(Report, t) # {}
    <2>1. SubScore(Report, t) \in Score \cup {None}
      BY ScoresAreScores DEF Advised, Tools
    <2>2. Below(SubScore(Report, t), 95)
      BY <1>1, <2>1 DEF Below, PASS_THRESHOLD, Score
    <2> QED BY <2>2, NoAdviceIsGood
  <1>2. ASSUME BuildRecommendations(Report) = {"all_good"}, NEW t \in Advised
        PROVE  ~Below(SubScore(Report, t), 95)
    <2> DEFINE recs == UNION {AdviceOn(Report, s) : s \in Tools}
    <2>1. "all_good" \notin recs
      BY AdviceIsThere
    <2>2. BuildRecommendations(Report) = IF recs = {} THEN {"all_good"} ELSE recs
      BY DEF BuildRecommendations
    <2>3. recs = {}
      <3> HIDE DEF recs
      <3> QED BY <1>2, <2>1, <2>2
    <2>4. AdviceOn(Report, t) = {}
      BY <2>3 DEF Advised, Tools
    <2> QED BY <2>4, NoAdviceIsGood
  <1>3. ASSUME NEW t \in Tools, Section(Report, t) # "tables" PROVE SubScore(Report, t) = None
    <2>1. CASE Report[t].status # "ok"
      BY <2>1 DEF SubScore
    <2>2. CASE Report[t].status = "ok"
      <3>1. t = "structured_data" /\ Report[t].data.total_schemas = 0
        BY <1>3, <2>2 DEF Section
      <3>2. SubScore(Report, t) = StructuredDataScore(Report[t].data)
        BY <2>2, <3>1 DEF SubScore
      <3> QED BY <3>1, <3>2 DEF StructuredDataScore
    <2> QED BY <2>1, <2>2
  <1>4. pdf # None => /\ pdf.recommendations = BuildRecommendations(Report)
                      /\ \A t \in Tools : pdf.section[t] = Section(Report, t)
    BY DEF ReportInv, Pdf
  <1>5. EverythingIsSaid(Report)
    BY TextsAreThere
  <1>6. ASSUME NEW i \in DOMAIN site.objects PROVE IneligibleIsExplained(site.objects[i])
    <2>1. site.objects[i] \in Objects \cup {SampleObject}
      BY DEF ReportInv, IsSite
    <2>2. IsObject(site.objects[i])
      BY <2>1, ObjectsAreFinite
    <2> QED BY <2>2, IneligibleHasIssue
  <1> QED BY <1>1, <1>2, <1>3, <1>4, <1>5, <1>6 DEF AdviceExplains

-----------------------------------------------------------------------------
(* The findings.                                                           *)

\* and of the findings.
LEMMA InvFindingsExact == ReportInv => FindingsExact
  <1> SUFFICES ASSUME ReportInv PROVE FindingsExact
    OBVIOUS
  <1>1. IsSite(site) /\ site.page \in Seq(Element) /\ site.network \in [Urls -> Answer]
    BY DEF ReportInv, IsSite
  <1>2. ASSUME NEW t \in DOMAIN results, results[t].status = "ok"
        PROVE  results[t].data = Answered(t)
    <2>1. results[t] = Ok(Answered(t))
      BY <1>2 DEF ReportInv, Failed
    <2> QED BY <2>1 DEF Ok
  <1>3. ASSUME "links" \in DOMAIN results, results["links"].status = "ok"
        PROVE  LET d == results["links"].data
                   targets == Destinations(site.page)
               IN  /\ d.total_links = IF Cardinality(targets) < max_links
                                      THEN Cardinality(targets) ELSE max_links
                   /\ d.total_links = d.healthy + d.broken + d.redirects + d.timeouts + d.errors
                   /\ d.total_links = Cardinality(targets) =>
                         /\ d.broken = Cardinality({u \in targets : IsBroken(site.network, u)})
                         /\ d.healthy = Cardinality({u \in targets : IsHealthy(site.network, u)})
    <2> DEFINE page == site.page
               network == site.network
               q == QuickLinkCheck(page, network)
               targets == Destinations(page)
    <2>1. results["links"].data = q
      BY <1>2, <1>3 DEF Answered
    <2>2. page \in Seq(Element) /\ network \in [Urls -> Answer]
      BY <1>1
    <2> HIDE DEF page, network
    <2>3. /\ q.total_links = IF Cardinality(targets) < max_links
                             THEN Cardinality(targets) ELSE max_links
          /\ q.total_links = q.healthy + q.broken + q.redirects + q.timeouts + q.errors
          /\ q.total_links = Cardinality(targets) =>
                /\ q.broken = Cardinality({u \in targets : IsBroken(network, u)})
                /\ q.healthy = Cardinality({u \in targets : IsHealthy(network, u)})
      <3> HIDE DEF q, targets
      <3> QED BY <2>2, LinkCounts, Zenon DEF q, targets
    <2> HIDE DEF q, targets
    <2> QED BY <2>1, <2>3, Zenon DEF targets, page, network
  <1>4. ASSUME "structured_data" \in DOMAIN results, results["structured_data"].status = "ok"
        PROVE  LET d == results["structured_data"].data IN
               /\ d.total_schemas = Len(site.objects) + Cardinality(JsonObjects(site.json))
                                      + Cardinality(TopScopes(site.markup))
               /\ d.valid_schemas < d.total_schemas <=> d.total_errors > 0
               /\ ListsOnce(FlattenJsonLd(site.json), JsonObjects(site.json))
               /\ ExtractedAsNamed(site.markup)
    <2> DEFINE n == Len(site.objects) + Cardinality(JsonObjects(site.json))
                                      + Cardinality(TopScopes(site.markup))
               d == QuickSchemaCheck(Extracted)
    <2>1. results["structured_data"].data = d
      BY <1>2, <1>4 DEF Answered
    <2>2. /\ n \in Nat /\ DOMAIN Extracted = 1..n /\ Len(Extracted) = n
          /\ \A i \in 1..n : IsObject(Extracted[i])
          /\ ListsOnce(FlattenJsonLd(site.json), JsonObjects(site.json))
          /\ ExtractedAsNamed(site.markup)
      BY <1>1, ExtractedIs
    <2> HIDE DEF n
    <2>3. d.total_schemas = n /\ (d.valid_schemas < n <=> d.total_errors > 0)
      BY <2>2, SchemaCounts
    <2> HIDE DEF d
    <2> QED BY <2>1, <2>2, <2>3, Zenon DEF n
  <1> QED BY <1>3, <1>4 DEF FindingsExact

-----------------------------------------------------------------------------
(* The theorems.                                                           *)

\* The invariant holds in every behaviour.
LEMMA ReportInvHolds == Spec => []ReportInv
  BY InitReport, NextReport, PTL DEF Spec

\* A link is reported broken exactly when some answer within MAX_REDIRECTS
\* redirects says so, and healthy exactly when the first one does, whatever the
\* network answers, loops of redirects included (services.py, check_single_link:
\* the loop over range(MAX_REDIRECTS + 1) and what it falls through to).
THEOREM VerdictsAreRight ==
    \A network \in [Urls -> Answer] : \A url \in Urls :
        /\ CheckSingleLink(network, url) = "broken" <=> IsBroken(network, url)
        /\ CheckSingleLink(network, url) = "healthy" <=> IsHealthy(network, url)
  BY CheckIsRight

\* The list _flatten_json_ld returns holds each object below lists and @graph once, a
\* typed container beside its entries, and nothing else, however deep the block is
\* nested (extractor_service.py: extend over the entries, append of the node).
THEOREM JsonLdIsFlattened ==
    \A n \in Nat : \A t \in Trees(n, JsonLabels) :
        Rooted(t) => ListsOnce(FlattenJsonLd(t), JsonObjects(t))
  BY FlattenIsExact, ListsCount

\* An element of a page is in what extract_microdata and extract_rdfa return once for
\* each name it lists, times as often as the item it lies in; a top-level item is
\* there once, and what is left out is outside every item, lists no name, or lies in
\* a nested item that lists none (extractor_service.py, _nearest_scope and the loop
\* over the names in the recursion of _parse_microdata_item).
THEOREM MarkupIsExtractedAsNamed ==
    \A n \in Nat : \A t \in Trees(n, MarkupLabels) : ExtractedAsNamed(t)
  BY MarkupIs, ItemsAreExtractedAsNamed

\* Whatever the tools find, and whichever of them answer, every score is a number
\* from 0 to 100 or missing, and what a scan finds more lowers the score of the SSL
\* section or leaves it (pdf_builder.py, _mean_score, _clamp and the six scorers).
THEOREM ScoresCorrect == Spec => []ScoresTell
  BY ReportInvHolds, InvScoresTell, PTL

\* No section is scored below the threshold without advice on it, "all_good" is
\* said of good scores only, no text is missing in either language, and an object
\* that is no rich result is told why (recommendations.py, labels.py,
\* explanations.py and rules.py, which agree with pdf_builder.py by hand only).
THEOREM AdviceCorrect == Spec => []AdviceExplains
  BY ReportInvHolds, InvAdviceExplains, PTL

\* The counts of a report are those of the page: each destination once, one verdict
\* for each, the right one; each object of JSON-LD once, and each element of the
\* markup as often as it is named (linkchecker/services.py, extractor_service.py,
\* schema_validator_service.py).
THEOREM FindingsCorrect == Spec => []FindingsExact
  BY ReportInvHolds, InvFindingsExact, PTL
=============================================================================
