------------------------ MODULE RecommendationProofs ------------------------
(***************************************************************************)
(* Recommendation: its types, and what it promises of the policies shown,  *)
(* of the rows it saves and of the answers it was given, for any policies, *)
(* rules, users, searches and models.                                      *)
(***************************************************************************)
EXTENDS Recommendation, RuleProofs

(***************************************************************************)
(* The filter and the candidate search.                                    *)
(***************************************************************************)
\* What the filter refuses, a rule or an alternative group refuses when read on its own.
LEMMA FilterRefuses ==
  ASSUME NEW c, NEW R, IsFiniteSet(R), R \subseteq RuleRow,
         \A r \in R : ~r.review,
         ConditionValue(c, "age") = {} => \A r \in R : r.field # "age",
         Filter(c, R).failed # {}
  PROVE  \/ \E r \in Flat(R) : FlatVerdict(r, ConditionValue(c, r.field)) = "fail"
         \/ \E g \in OrGroups(R) : GroupVerdict(c, g) = "fail"
<1>1. Trusted(R) = R BY DEF Trusted
<1>2. \A r \in R : FilterValue(c, r.field) = ConditionValue(c, r.field) BY DEF FilterValue
<1>3. \A s \in R : IsRule(s) BY RowsAreRules
<1>4. CASE \E r \in Flat(R) : FlatVerdict(r, FilterValue(c, r.field)) = "fail"
  <2>1. Flat(R) \subseteq R BY DEF Flat
  <2> QED BY <1>2, <1>4, <2>1
<1>5. CASE \E g \in OrGroups(R) :
             GroupOutcome({MemberVerdict(c, r, FilterValue(c, r.field)) : r \in g}) = "fail"
  <2>1. PICK g \in OrGroups(R) :
          GroupOutcome({MemberVerdict(c, r, FilterValue(c, r.field)) : r \in g}) = "fail"
    BY <1>5
  <2>2. g \subseteq R BY DEF OrGroups, Alternatives
  <2>3. \A r \in g : MemberVerdict(c, r, FilterValue(c, r.field))
                       = MemberVerdict(c, r, ConditionValue(c, r.field))
    BY <1>2, <2>2
  <2>4. {MemberVerdict(c, r, FilterValue(c, r.field)) : r \in g}
          = {MemberVerdict(c, r, ConditionValue(c, r.field)) : r \in g}
    BY <2>3
  <2> QED BY <2>1, <2>4 DEF GroupVerdict
<1> QED BY <1>1, <1>3, <1>4, <1>5, FilterFails

\* A rule or a group that refuses excludes the candidate.
LEMMA RefusedCandidate ==
  ASSUME NEW p, NEW c, NEW R, NEW found,
         \/ \E r \in Flat(R) : FlatVerdict(r, ConditionValue(c, r.field)) = "fail"
         \/ \E g \in OrGroups(R) : GroupVerdict(c, g) = "fail"
  PROVE  Candidate(p, c, R, found).status = "EXCLUDED"
<1> DEFINE findings == (ValuesOf(Guesses(p, c, R)) \ {Nothing}) \cup Targets(p, c, R)
                         \cup FlatFindings(c, R) \cup GroupFindings(c, R)
<1>1. \A v, f, s, n : Finding(v, f, s, n).verdict = v BY DEF Finding
<1>2. Judged("fail") = "excluded" BY DEF Judged
<1>3. \E x \in findings : x.verdict = "excluded"
  <2>1. CASE \E r \in Flat(R) : FlatVerdict(r, ConditionValue(c, r.field)) = "fail"
    <3>1. PICK r \in Flat(R) : FlatVerdict(r, ConditionValue(c, r.field)) = "fail" BY <2>1
    <3> DEFINE x == Finding(Judged(FlatVerdict(r, ConditionValue(c, r.field))), r.field,
                            ConditionValue(c, r.field), 0)
    <3>2. x \in FlatFindings(c, R) BY <3>1 DEF FlatFindings
    <3>3. x.verdict = "excluded" BY <1>1, <1>2, <3>1
    <3> QED BY <3>2, <3>3
  <2>2. CASE \E g \in OrGroups(R) : GroupVerdict(c, g) = "fail"
    <3>1. PICK g \in OrGroups(R) : GroupVerdict(c, g) = "fail" BY <2>2
    <3> DEFINE x == Finding(Judged(GroupVerdict(c, g)), GroupKey(g), {}, 0)
    <3>2. x \in GroupFindings(c, R) BY <3>1 DEF GroupFindings, Undecided
    <3>3. x.verdict = "excluded" BY <1>1, <1>2, <3>1
    <3> QED BY <3>2, <3>3
  <2> QED BY <2>1, <2>2
<1>4. Candidate(p, c, R, found).status = CandidateStatus({x.verdict : x \in findings})
  BY DEF Candidate
<1> HIDE DEF findings
<1> QED BY <1>3, <1>4 DEF CandidateStatus

\* An answer "I get no such benefit" refuses every rule of its own that demands one.
LEMMA DeniedBenefitRefuses ==
  ASSUME NEW R, NEW c, "none" \in ConditionValue(c, "income_status"),
         NEW r \in Flat(R), r.field = "income_status", "none" \notin ValuesOf(r.values),
         NEW p, NEW found
  PROVE  Candidate(p, c, R, found).status = "EXCLUDED"
<1>1. FlatVerdict(r, ConditionValue(c, r.field)) = "fail"
  BY DEF FlatVerdict, DeniedIncomeMismatch
<1> QED BY <1>1, RefusedCandidate

(***************************************************************************)
(* The score of a candidate.                                               *)
(***************************************************************************)
LEMMA ScoresAreNumbers == \A x \in Score : x \in Int
BY DEF Score

LEMMA SmallerIsNat ==
  ASSUME NEW a \in Nat, NEW b \in Nat
  PROVE  Smaller(a, b) \in 0..a /\ Smaller(a, b) \in 0..b
BY DEF Smaller

\* The points of a guess.
LEMMA GuessIsNat ==
  ASSUME NEW p \in Policies, NEW c, \A f \in DOMAIN c : IsFiniteSet(c[f]), NEW R
  PROVE  \A i \in 1..6 : Guesses(p, c, R)[i].score \in Nat
<1>1. \A v, f, s, n : Finding(v, f, s, n).score = n BY DEF Finding
<1>2. Nothing.score = 0 BY <1>1 DEF Nothing
<1>3. \A d, x : x.score \in Nat => Guess(d, R, x).score \in Nat BY <1>2 DEF Guess
<1>4. \A f : IsFiniteSet(ConditionValue(c, f))
  BY FS_EmptySet DEF ConditionValue
<1>5. StageFinding(p, c).score \in Nat BY <1>1, <1>2 DEF StageFinding
<1>6. ChildAgeFinding(p, c).score \in Nat BY <1>1, <1>2 DEF ChildAgeFinding
<1>7. RegionFinding(p, c).score \in Nat BY <1>1, <1>2 DEF RegionFinding
<1>8. IncomeFinding(p, c).score \in Nat BY <1>1, <1>2 DEF IncomeFinding
<1>9. SpecialFinding(p, c).score \in Nat
  <2> DEFINE hits == ConditionValue(c, "special") \cap Text[p].terms
  <2>1. hits \in SUBSET ConditionValue(c, "special") OBVIOUS
  <2>2. IsFiniteSet(hits) BY <1>4, <2>1, FS_Subset
  <2>3. 800 * Cardinality(hits) \in Nat BY <2>2, FS_CardinalityType
  <2>4. Smaller(800 * Cardinality(hits), 1600) \in Nat BY <2>3 DEF Smaller
  <2> QED BY <1>1, <1>2, <2>4 DEF SpecialFinding
<1>10. NeedsFinding(p, c).score \in Nat
  <2> DEFINE hits == {n \in ConditionValue(c, "needs") : TermsOf(n) \cap Text[p].terms # {}}
  <2>1. hits \in SUBSET ConditionValue(c, "needs") OBVIOUS
  <2>2. IsFiniteSet(hits) BY <1>4, <2>1, FS_Subset
  <2>3. 800 * Cardinality(hits) \in Nat BY <2>2, FS_CardinalityType
  <2>4. Smaller(800 * Cardinality(hits), 1600) \in Nat BY <2>3 DEF Smaller
  <2> QED BY <1>1, <1>2, <2>4 DEF NeedsFinding
<1> HIDE DEF StageFinding, ChildAgeFinding, RegionFinding, IncomeFinding, SpecialFinding, NeedsFinding
<1>11. Guess("stage", R, StageFinding(p, c)).score \in Nat BY <1>3, <1>5
<1>12. Guess("child_age", R, ChildAgeFinding(p, c)).score \in Nat BY <1>3, <1>6
<1>13. Guess("region", R, RegionFinding(p, c)).score \in Nat BY <1>3, <1>7
<1>14. Guess("income", R, IncomeFinding(p, c)).score \in Nat BY <1>3, <1>8
<1>15. Guess("special", R, SpecialFinding(p, c)).score \in Nat BY <1>3, <1>9
<1> QED BY <1>10, <1>11, <1>12, <1>13, <1>14, <1>15 DEF Guesses

\* Rules are finitely many, and so are their groups.
LEMMA RuleScoreIsNat ==
  ASSUME NEW c, NEW R, IsFiniteSet(R)
  PROVE  RuleScore(c, R) \in Nat
<1> DEFINE flat == {r \in Flat(R) : FlatVerdict(r, ConditionValue(c, r.field)) = "match"}
           groups == {g \in OrGroups(R) :
                        \E r \in g : MemberVerdict(c, r, ConditionValue(c, r.field)) = "match"}
           W == {Alternatives(R, r) : r \in R}
           f == [r \in R |-> Alternatives(R, r)]
<1>1. flat \in SUBSET R BY DEF Flat
<1>2. Cardinality(flat) \in Nat BY <1>1, FS_Subset, FS_CardinalityType
<1>3. f \in Surjection(R, W) BY DEF Surjection
<1>4. IsFiniteSet(W)
  <2> HIDE DEF f, W
  <2> QED BY <1>3, FS_Surjection
<1>5. groups \in SUBSET W BY DEF OrGroups
<1>6. Cardinality(groups) \in Nat
  <2> HIDE DEF groups, W
  <2> QED BY <1>4, <1>5, FS_Subset, FS_CardinalityType
<1>7. RuleScore(c, R) = Smaller(500 * (Cardinality(flat) + Cardinality(groups)), 2000)
  BY DEF RuleScore
<1> HIDE DEF flat, groups
<1>8. 500 * (Cardinality(flat) + Cardinality(groups)) \in Nat BY <1>2, <1>6
<1> DEFINE points == 500 * (Cardinality(flat) + Cardinality(groups))
<1>9. points \in Nat /\ RuleScore(c, R) = Smaller(points, 2000) BY <1>7, <1>8
<1> HIDE DEF points
<1> QED BY <1>9 DEF Smaller

LEMMA SearchScoreIsNat ==
  ASSUME NEW p \in Policies, NEW c, NEW found, found.vector \in Nat
  PROVE  SearchScore(p, c, found) \in Nat
<1> DEFINE hits == QueryTerms(c) \cap Text[p].terms
<1>1. hits \in SUBSET Text[p].terms /\ IsFiniteSet(Text[p].terms) BY TextAssumption
<1>2. IsFiniteSet(hits) BY <1>1, FS_Subset
<1>3. Cardinality(hits) \in Nat BY <1>2, FS_CardinalityType
<1>4. DbKeywordScore(p, c) \in Nat BY <1>3, SmallerIsNat DEF DbKeywordScore
<1>5. Smaller(found.vector, 2700) \in Nat BY DEF Smaller
<1> DEFINE sum == (IF found.db THEN DbKeywordScore(p, c) ELSE 0) + Smaller(found.vector, 2700)
<1>6. sum \in Nat BY <1>4, <1>5
<1> HIDE DEF sum
<1>7. Smaller(sum, 3500) \in Nat BY <1>6 DEF Smaller
<1> QED BY <1>7 DEF SearchScore, sum

\* A candidate has one of three statuses, and a score between 0 and 1.
LEMMA CandidateType ==
  ASSUME NEW p \in Policies, NEW c, \A f \in DOMAIN c : IsFiniteSet(c[f]),
         NEW R, IsFiniteSet(R), NEW found, found.vector \in Nat
  PROVE  LET k == Candidate(p, c, R, found) IN
         /\ k.status \in {"CANDIDATE", "UNCERTAIN", "EXCLUDED"}
         /\ k.score \in Score /\ k.search \in Nat
<1> DEFINE k == Candidate(p, c, R, found)
           g == Guesses(p, c, R)
           sum == SearchScore(p, c, found) + RuleScore(c, R) + GuessScore(g)
<1>1. k.status \in {"CANDIDATE", "UNCERTAIN", "EXCLUDED"}
  BY DEF Candidate, CandidateStatus
<1>2. k.score = (IF k.status = "EXCLUDED" THEN 0 ELSE Smaller(10000, sum))
      /\ k.search = SearchScore(p, c, found)
  BY DEF Candidate
<1>3. GuessScore(g) \in Nat
  <2>1. \A i \in 1..6 : g[i].score \in Nat BY GuessIsNat
  <2> HIDE DEF g
  <2>2. /\ g[1].score \in Nat /\ g[2].score \in Nat /\ g[3].score \in Nat
        /\ g[4].score \in Nat /\ g[5].score \in Nat /\ g[6].score \in Nat
    BY <2>1
  <2> QED BY <2>2 DEF GuessScore
<1>4. sum \in Nat BY <1>3, SearchScoreIsNat, RuleScoreIsNat
<1> HIDE DEF sum, k
<1>5. k.score \in Score
  <2>1. Smaller(10000, sum) \in 0..10000 BY <1>4 DEF Smaller
  <2>2. 0 \in 0..10000 OBVIOUS
  <2> QED BY <1>2, <2>1, <2>2 DEF Score
<1> QED BY <1>1, <1>2, <1>5, SearchScoreIsNat DEF k

(***************************************************************************)
(* Order.                                                                  *)
(***************************************************************************)
\* The order on keys of one length is strict and total.
LEMMA LexLessIrreflexive ==
  ASSUME NEW n \in Nat, NEW k \in [1..n -> Int]
  PROVE  ~LexLess(k, k)
BY DEF LexLess

LEMMA LexLessTransitive ==
  ASSUME NEW n \in Nat, NEW a \in [1..n -> Int], NEW b \in [1..n -> Int], NEW c \in [1..n -> Int],
         LexLess(a, b), LexLess(b, c)
  PROVE  LexLess(a, c)
<1>1. PICK i \in 1..n : a[i] < b[i] /\ \A j \in 1..(i - 1) : a[j] = b[j] BY DEF LexLess
<1>2. PICK l \in 1..n : b[l] < c[l] /\ \A j \in 1..(l - 1) : b[j] = c[j] BY DEF LexLess
<1> DEFINE m == IF i < l THEN i ELSE l
<1>3. m \in 1..n /\ \A j \in 1..(m - 1) : j \in 1..(i - 1) /\ j \in 1..(l - 1) OBVIOUS
<1>4. \A j \in 1..(m - 1) : a[j] = c[j] BY <1>1, <1>2, <1>3
<1>5. a[m] < c[m]
  <2>0. /\ a[i] \in Int /\ b[i] \in Int /\ c[i] \in Int
        /\ a[l] \in Int /\ b[l] \in Int /\ c[l] \in Int
    OBVIOUS
  <2>1. CASE i < l
    <3>1. i \in 1..(l - 1) BY <2>1
    <3> QED BY <1>1, <1>2, <2>0, <2>1, <3>1
  <2>2. CASE l < i
    <3>1. l \in 1..(i - 1) BY <2>2
    <3> QED BY <1>1, <1>2, <2>0, <2>2, <3>1
  <2>3. CASE i = l BY <1>1, <1>2, <2>0, <2>3
  <2> QED BY <2>1, <2>2, <2>3
<1> QED BY <1>3, <1>4, <1>5 DEF LexLess

LEMMA LexLessTotal ==
  ASSUME NEW n \in Nat, NEW a \in [1..n -> Int], NEW b \in [1..n -> Int]
  PROVE  a = b \/ LexLess(a, b) \/ LexLess(b, a)
<1> SUFFICES ASSUME a # b PROVE LexLess(a, b) \/ LexLess(b, a)
  OBVIOUS
<1> DEFINE D == {i \in 1..n : a[i] # b[i]}
<1>1. D \in SUBSET Nat /\ D # {} OBVIOUS
<1>2. PICK i \in D : \A j \in D : i <= j BY <1>1, LeastNumber
<1>3. i \in 1..n /\ a[i] # b[i] /\ a[i] \in Int /\ b[i] \in Int OBVIOUS
<1>4. \A j \in 1..(i - 1) : a[j] = b[j] BY <1>2
<1>5. a[i] < b[i] \/ b[i] < a[i] BY <1>3
<1> QED BY <1>3, <1>4, <1>5 DEF LexLess

\* A sorted list has every element of the set, once.
LEMMA SortedHasAll ==
  ASSUME NEW S, IsFiniteSet(S), NEW n \in Nat, NEW key,
         \A p \in S : key[p] \in [1..n -> Int],
         \A p, q \in S : key[p] = key[q] => p = q
  PROVE  /\ Sorted(S, key) \in [1..Cardinality(S) -> S]
         /\ ValuesOf(Sorted(S, key)) = S
         /\ IsInjective(Sorted(S, key))
<1> DEFINE B == [p \in S |-> {q \in S : LexLess(key[q], key[p])}]
           N == Cardinality(S)
           s == Sorted(S, key)
<1>0. N \in Nat BY FS_CardinalityType
<1>1. B \in [S -> SUBSET S] OBVIOUS
<1>2. \A p \in S : p \notin B[p] BY LexLessIrreflexive
<1>3. \A p \in S : \A q \in B[p] : B[q] \subseteq B[p]
  <2> SUFFICES ASSUME NEW p \in S, NEW q \in B[p], NEW r \in B[q] PROVE r \in B[p]
    OBVIOUS
  <2>1. q \in S /\ r \in S /\ LexLess(key[r], key[q]) /\ LexLess(key[q], key[p]) OBVIOUS
  <2>2. key[p] \in [1..n -> Int] /\ key[q] \in [1..n -> Int] /\ key[r] \in [1..n -> Int] BY <2>1
  <2>3. LexLess(key[r], key[p]) BY <2>1, <2>2, LexLessTransitive
  <2> QED BY <2>1, <2>3
<1>4. \A p, q \in S : p = q \/ q \in B[p] \/ p \in B[q]
  <2> SUFFICES ASSUME NEW p \in S, NEW q \in S PROVE p = q \/ q \in B[p] \/ p \in B[q]
    OBVIOUS
  <2>1. key[p] = key[q] \/ LexLess(key[p], key[q]) \/ LexLess(key[q], key[p])
    BY LexLessTotal
  <2> QED BY <2>1
<1>5. /\ \A p \in S : Cardinality(B[p]) \in 0..(N - 1)
      /\ \A i \in 0..(N - 1) : \E p \in S : Cardinality(B[p]) = i
  <2> HIDE DEF B
  <2> QED BY <1>1, <1>2, <1>3, <1>4, Ranking
<1>6. s = [i \in 1..N |-> AtRank(S, key, i)] BY DEF Sorted
<1>7. ASSUME NEW i \in 1..N
      PROVE  AtRank(S, key, i) \in S /\ Cardinality(B[AtRank(S, key, i)]) = i - 1
  <2>1. i - 1 \in 0..(N - 1) BY <1>0
  <2>2. \E p \in S : Cardinality({q \in S : LexLess(key[q], key[p])}) = i - 1
    <3>1. PICK p \in S : Cardinality(B[p]) = i - 1
      <4> HIDE DEF B
      <4> QED BY <1>5, <2>1
    <3> QED BY <3>1
  <2>3. AtRank(S, key, i) \in S
        /\ Cardinality({q \in S : LexLess(key[q], key[AtRank(S, key, i)])}) = i - 1
    BY <2>2 DEF AtRank
  <2> QED BY <2>3
<1> HIDE DEF B, s
<1>8. s \in [1..N -> S] BY <1>6, <1>7
<1>9. \A i, j \in 1..N : s[i] = s[j] => i = j BY <1>0, <1>6, <1>7
<1>10. ValuesOf(s) = S
  <2>1. \A f \in Injection(1..N, S) : f \in Surjection(1..N, S)
    <3>1. IsFiniteSet(1..N) /\ Cardinality(1..N) = N BY <1>0, FS_Interval
    <3> QED BY <3>1, FS_Injection
  <2>2. s \in Injection(1..N, S) BY <1>8, <1>9 DEF Injection, IsInjective
  <2>3. s \in Surjection(1..N, S) BY <2>1, <2>2
  <2> QED BY <1>8, <2>3 DEF Surjection, ValuesOf
<1> QED BY <1>8, <1>9, <1>10 DEF s, IsInjective

(***************************************************************************)
(* Lists.                                                                  *)
(***************************************************************************)
\* The positions in a set: every one, in ascending order.
LEMMA PositionsAscend ==
  ASSUME NEW I, IsFiniteSet(I)
  PROVE  I \subseteq Nat =>
           /\ \A n \in 1..Cardinality(I) : Position(I, n) \in I
           /\ \A m, n \in 1..Cardinality(I) : m < n => Position(I, m) < Position(I, n)
           /\ \A i \in I : \E n \in 1..Cardinality(I) : Position(I, n) = i
<1> DEFINE B == [i \in I |-> {j \in I : j < i}]
           N == Cardinality(I)
<1>a. SUFFICES ASSUME I \subseteq Nat
               PROVE  /\ \A n \in 1..N : Position(I, n) \in I
                      /\ \A m, n \in 1..N : m < n => Position(I, m) < Position(I, n)
                      /\ \A i \in I : \E n \in 1..N : Position(I, n) = i
  OBVIOUS
<1>0. N \in Nat BY FS_CardinalityType
<1>1. B \in [I -> SUBSET I] OBVIOUS
<1>2. \A i \in I : i \notin B[i] BY <1>a
<1>3. \A i \in I : \A j \in B[i] : B[j] \subseteq B[i]
  <2> SUFFICES ASSUME NEW i \in I, NEW j \in B[i], NEW k \in B[j] PROVE k \in B[i]
    OBVIOUS
  <2>1. j \in I /\ k \in I /\ k < j /\ j < i OBVIOUS
  <2>2. k < i BY <1>a, <2>1
  <2> QED BY <2>1, <2>2
<1>4. \A i, j \in I : i = j \/ j \in B[i] \/ i \in B[j] BY <1>a
<1>5. /\ \A i \in I : Cardinality(B[i]) \in 0..(N - 1)
      /\ \A i \in I : \A j \in B[i] : Cardinality(B[j]) < Cardinality(B[i])
      /\ \A i, j \in I : Cardinality(B[i]) = Cardinality(B[j]) => i = j
      /\ \A n \in 0..(N - 1) : \E i \in I : Cardinality(B[i]) = n
  <2> HIDE DEF B
  <2> QED BY <1>1, <1>2, <1>3, <1>4, Ranking
<1>6. ASSUME NEW n \in 1..N
      PROVE  Position(I, n) \in I /\ Cardinality(B[Position(I, n)]) = n - 1
  <2>1. n - 1 \in 0..(N - 1) BY <1>0
  <2>2. \E i \in I : Cardinality({j \in I : j < i}) = n - 1
    <3>1. PICK i \in I : Cardinality(B[i]) = n - 1
      <4> HIDE DEF B
      <4> QED BY <1>5, <2>1
    <3> QED BY <3>1
  <2>3. Position(I, n) \in I /\ Cardinality({j \in I : j < Position(I, n)}) = n - 1
    BY <2>2 DEF Position
  <2> QED BY <2>3
<1>7. ASSUME NEW m \in 1..N, NEW n \in 1..N, m < n PROVE Position(I, m) < Position(I, n)
  <2> DEFINE x == Position(I, m)
             y == Position(I, n)
  <2>1. x \in I /\ y \in I /\ Cardinality(B[x]) = m - 1 /\ Cardinality(B[y]) = n - 1 BY <1>6
  <2>1a. x \in Nat /\ y \in Nat BY <1>a, <2>1
  <2> HIDE DEF x, y
  <2>2. x # y BY <1>7, <2>1
  <2>3. ~(y < x)
    <3>1. y < x => y \in B[x] BY <2>1
    <3> HIDE DEF B
    <3> QED BY <1>5, <1>7, <2>1, <3>1
  <2>4. x < y BY <2>1a, <2>2, <2>3
  <2> QED BY <2>4 DEF x, y
<1>8. ASSUME NEW i \in I PROVE \E n \in 1..N : Position(I, n) = i
  <2> DEFINE n == Cardinality(B[i]) + 1
  <2>1. Cardinality(B[i]) \in 0..(N - 1) BY <1>5
  <2>2. n \in 1..N /\ n - 1 = Cardinality(B[i]) BY <1>0, <2>1
  <2>3. Position(I, n) \in I /\ Cardinality(B[Position(I, n)]) = n - 1 BY <1>6, <2>2
  <2> HIDE DEF B
  <2>4. Position(I, n) = i BY <1>5, <2>2, <2>3
  <2> QED BY <2>2, <2>4
<1> QED BY <1>6, <1>7, <1>8

\* A subsequence: a list of some elements, at ascending positions of the list it is of.
LEMMA SubsequenceType ==
  ASSUME NEW T, NEW s \in Seq(T), NEW I \in SUBSET DOMAIN s
  PROVE  /\ IsFiniteSet(I) /\ Cardinality(I) \in Nat
         /\ Subsequence(s, I) \in Seq(T) /\ Len(Subsequence(s, I)) = Cardinality(I)
         /\ DOMAIN Subsequence(s, I) = 1..Cardinality(I)
         /\ \A n \in 1..Cardinality(I) : /\ Position(I, n) \in I
                                         /\ Subsequence(s, I)[n] = s[Position(I, n)]
         /\ \A m, n \in 1..Cardinality(I) : m < n => Position(I, m) < Position(I, n)
         /\ \A i \in I : \E n \in 1..Cardinality(I) : Position(I, n) = i
<1>1. DOMAIN s = 1..Len(s) /\ Len(s) \in Nat /\ \A i \in DOMAIN s : s[i] \in T OBVIOUS
<1>2. IsFiniteSet(DOMAIN s) BY <1>1, FS_Interval
<1>3. I \subseteq Nat BY <1>1
<1>4. IsFiniteSet(I) /\ Cardinality(I) \in Nat BY <1>2, FS_Subset, FS_CardinalityType
<1>5. /\ \A n \in 1..Cardinality(I) : Position(I, n) \in I
      /\ \A m, n \in 1..Cardinality(I) : m < n => Position(I, m) < Position(I, n)
      /\ \A i \in I : \E n \in 1..Cardinality(I) : Position(I, n) = i
  BY <1>3, <1>4, PositionsAscend
<1>6. /\ DOMAIN Subsequence(s, I) = 1..Cardinality(I)
      /\ \A n \in 1..Cardinality(I) : Subsequence(s, I)[n] = s[Position(I, n)]
  BY DEF Subsequence
<1>7. Subsequence(s, I) = [n \in 1..Cardinality(I) |-> s[Position(I, n)]] BY DEF Subsequence
<1>8. \A n \in 1..Cardinality(I) : s[Position(I, n)] \in T BY <1>1, <1>5
<1>9. Subsequence(s, I) \in Seq(T) /\ Len(Subsequence(s, I)) = Cardinality(I)
  BY <1>4, <1>7, <1>8
<1> QED BY <1>4, <1>5, <1>6, <1>9

\* The first elements of a list.
LEMMA PrefixType ==
  ASSUME NEW T, NEW s \in Seq(T), NEW n \in Nat
  PROVE  /\ Prefix(s, n) \in Seq(T) /\ Len(Prefix(s, n)) = Smaller(n, Len(s))
         /\ Len(Prefix(s, n)) <= n /\ Len(Prefix(s, n)) <= Len(s)
         /\ DOMAIN Prefix(s, n) \subseteq DOMAIN s
         /\ \A i \in DOMAIN Prefix(s, n) : Prefix(s, n)[i] = s[i]
<1> DEFINE m == Smaller(n, Len(s))
<1>1. DOMAIN s = 1..Len(s) /\ Len(s) \in Nat /\ \A i \in DOMAIN s : s[i] \in T OBVIOUS
<1>2. m \in Nat /\ m <= n /\ m <= Len(s) BY <1>1 DEF Smaller
<1> HIDE DEF m
<1>3. Prefix(s, n) = [i \in 1..m |-> s[i]] BY DEF Prefix, m
<1>4. \A i \in 1..m : i \in DOMAIN s /\ s[i] \in T BY <1>1, <1>2
<1>5. Prefix(s, n) \in Seq(T) /\ Len(Prefix(s, n)) = m BY <1>2, <1>3, <1>4
<1> QED BY <1>2, <1>3, <1>4, <1>5 DEF m

(***************************************************************************)
(* Reranking.                                                              *)
(***************************************************************************)
ItemOf(P) == [policy : P, priority : Int, score : Int]

\* What the schema of the ranking model's answer lets through.
RankingRow == [policy : Nat, priority : Score, score : Score]

\* Each policy once.
Distinct(items) == \A i, j \in DOMAIN items : items[i].policy = items[j].policy => i = j

\* An answer for a policy of the pool is an item of it.
LEMMA RankingRowIsItem ==
  ASSUME NEW P
  PROVE  \A x \in RankingRow : x.policy \in P => x \in ItemOf(P)
BY ScoresAreNumbers DEF RankingRow, ItemOf

\* The model's answer, cut to what it may choose: policies of the pool, each once.
LEMMA SanitizedType ==
  ASSUME NEW ranking \in Seq(RankingRow), NEW base
  PROVE  LET picks == Sanitized(ranking, base) IN
         /\ picks \in Seq(ItemOf(ValuesOf(base))) /\ Len(picks) <= ResultLimit
         /\ Distinct(picks)
<1> DEFINE P == ValuesOf(base)
           I == {i \in DOMAIN ranking : /\ ranking[i].policy \in P
                                        /\ \A j \in 1..(i - 1) : ranking[j].policy # ranking[i].policy}
           s == Subsequence(ranking, I)
           picks == Sanitized(ranking, base)
<1>2. picks = Prefix(s, ResultLimit) BY DEF Sanitized
<1>3. I \in SUBSET DOMAIN ranking OBVIOUS
<1>3a. \A i \in I : ranking[i].policy \in P OBVIOUS
<1>3b. \A i \in I : \A j \in 1..(i - 1) : ranking[j].policy # ranking[i].policy OBVIOUS
<1>3c. DOMAIN ranking \subseteq Nat \ {0} OBVIOUS
<1> HIDE DEF I, s, picks, P
<1>4. /\ Cardinality(I) \in Nat /\ s \in Seq(RankingRow) /\ Len(s) = Cardinality(I)
      /\ DOMAIN s = 1..Cardinality(I)
      /\ \A n \in 1..Cardinality(I) : Position(I, n) \in I /\ s[n] = ranking[Position(I, n)]
      /\ \A m, n \in 1..Cardinality(I) : m < n => Position(I, m) < Position(I, n)
  BY <1>3, SubsequenceType DEF s
<1>5. /\ picks \in Seq(RankingRow) /\ Len(picks) <= ResultLimit
      /\ DOMAIN picks \subseteq DOMAIN s /\ \A i \in DOMAIN picks : picks[i] = s[i]
  BY <1>2, <1>4, PrefixType, LimitAssumption
<1>6. \A i \in DOMAIN picks : picks[i].policy \in P /\ picks[i] \in RankingRow
  BY <1>3a, <1>4, <1>5
<1>7. picks \in Seq(ItemOf(P))
  <2>1. \A x \in RankingRow : x.policy \in P => x \in ItemOf(P) BY RankingRowIsItem
  <2>2. \A i \in 1..Len(picks) : picks[i] \in ItemOf(P) BY <1>5, <1>6, <2>1
  <2> QED BY <1>5, <2>2
<1>8. ASSUME NEW m \in DOMAIN picks, NEW n \in DOMAIN picks, m < n
      PROVE  picks[m].policy # picks[n].policy
  <2>1. m \in 1..Cardinality(I) /\ n \in 1..Cardinality(I) BY <1>4, <1>5
  <2>2. Position(I, m) < Position(I, n) /\ Position(I, m) \in I /\ Position(I, n) \in I
    BY <1>4, <1>8, <2>1
  <2>3. Position(I, m) \in 1..(Position(I, n) - 1) BY <1>3, <1>3c, <2>2
  <2>4. ranking[Position(I, m)].policy # ranking[Position(I, n)].policy BY <1>3b, <2>2, <2>3
  <2> QED BY <1>4, <1>5, <2>1, <2>4
<1>9. Distinct(picks)
  <2>1. \A m, n \in DOMAIN picks : m < n \/ n < m \/ m = n BY <1>5
  <2> QED BY <1>8, <2>1 DEF Distinct
<1> QED BY <1>5, <1>7, <1>9 DEF picks, P

\* The list is filled up from the base result, behind what the model chose.
LEMMA BackfilledType ==
  ASSUME NEW P, NEW base \in Seq(P), P = ValuesOf(base),
         \A i, j \in DOMAIN base : base[i] = base[j] => i = j,
         NEW picks \in Seq(ItemOf(P)), Len(picks) <= ResultLimit, Distinct(picks)
  PROVE  LET items == Backfilled(picks, base) IN
         /\ items \in Seq(ItemOf(P)) /\ Len(items) <= ResultLimit /\ Distinct(items)
         /\ \A i \in DOMAIN picks : i \in DOMAIN items /\ items[i] = picks[i]
<1> DEFINE picked == {r.policy : r \in ValuesOf(picks)}
           I == {i \in DOMAIN base : base[i] \notin picked}
           rest == Subsequence(base, I)
           added == [i \in DOMAIN rest |-> Item(rest[i], 0, 0)]
           full == picks \o added
           items == Backfilled(picks, base)
<1>1. items = Prefix(full, ResultLimit) BY DEF Backfilled
<1>2. I \in SUBSET DOMAIN base /\ \A i \in I : base[i] \notin picked OBVIOUS
<1>3. \A i \in DOMAIN picks : picks[i].policy \in picked BY DEF ValuesOf
<1> HIDE DEF picked, I, rest, items
<1>4. /\ Cardinality(I) \in Nat /\ rest \in Seq(P) /\ Len(rest) = Cardinality(I)
      /\ DOMAIN rest = 1..Cardinality(I)
      /\ \A n \in 1..Cardinality(I) : Position(I, n) \in I /\ rest[n] = base[Position(I, n)]
      /\ \A m, n \in 1..Cardinality(I) : m < n => Position(I, m) < Position(I, n)
  BY <1>2, SubsequenceType DEF rest
<1>5. \A p \in P : Item(p, 0, 0) \in ItemOf(P) /\ Item(p, 0, 0).policy = p BY DEF Item, ItemOf
<1>6. \A i \in DOMAIN rest : rest[i] \in P /\ rest[i] \notin picked BY <1>2, <1>4
<1>7. added \in Seq(ItemOf(P)) /\ Len(added) = Cardinality(I) /\ DOMAIN added = 1..Cardinality(I)
  BY <1>4, <1>5, <1>6
<1>8. \A i \in 1..Cardinality(I) : added[i].policy = rest[i] BY <1>4, <1>5, <1>6
<1> HIDE DEF added
<1>9. \A m, n \in 1..Cardinality(I) : m < n => rest[m] # rest[n]
  <2> SUFFICES ASSUME NEW m \in 1..Cardinality(I), NEW n \in 1..Cardinality(I), m < n
               PROVE  rest[m] # rest[n]
    OBVIOUS
  <2>1. /\ Position(I, m) \in DOMAIN base /\ Position(I, n) \in DOMAIN base
        /\ Position(I, m) < Position(I, n)
    BY <1>2, <1>4
  <2>2. Position(I, m) # Position(I, n) BY <2>1
  <2> QED BY <1>4, <2>1, <2>2
<1>10. /\ full \in Seq(ItemOf(P)) /\ Len(full) = Len(picks) + Cardinality(I)
       /\ \A i \in 1..Len(full) : full[i] = IF i <= Len(picks) THEN picks[i] ELSE added[i - Len(picks)]
  BY <1>7
<1> HIDE DEF full
<1>11. \A m, n \in DOMAIN full : m < n => full[m].policy # full[n].policy
  <2> SUFFICES ASSUME NEW m \in DOMAIN full, NEW n \in DOMAIN full, m < n
               PROVE  full[m].policy # full[n].policy
    OBVIOUS
  <2>0. m \in Nat \ {0} /\ n \in Nat \ {0} /\ n <= Len(picks) + Cardinality(I) /\ Len(picks) \in Nat
        /\ m <= Len(full) /\ n <= Len(full)
    BY <1>10
  <2>1. CASE n <= Len(picks)
    <3>1. m \in DOMAIN picks /\ n \in DOMAIN picks BY <2>0, <2>1
    <3>2. full[m] = picks[m] /\ full[n] = picks[n] BY <1>10, <2>0, <2>1
    <3> QED BY <3>1, <3>2, <2>0 DEF Distinct
  <2>2. CASE m <= Len(picks) /\ n > Len(picks)
    <3>1. m \in DOMAIN picks /\ n - Len(picks) \in 1..Cardinality(I) BY <1>4, <2>0, <2>2
    <3>2. full[m] = picks[m] /\ full[n] = added[n - Len(picks)] BY <1>10, <2>0, <2>2
    <3>3. full[m].policy \in picked BY <1>3, <3>1, <3>2
    <3>4. full[n].policy \notin picked BY <1>4, <1>6, <1>8, <3>1, <3>2
    <3> QED BY <3>3, <3>4
  <2>3. CASE m > Len(picks)
    <3> DEFINE a == m - Len(picks)
               b == n - Len(picks)
    <3>1. a \in 1..Cardinality(I) /\ b \in 1..Cardinality(I) /\ a < b BY <1>4, <2>0, <2>3
    <3>2. full[m] = added[a] /\ full[n] = added[b] BY <1>10, <2>0, <2>3
    <3> HIDE DEF a, b
    <3> QED BY <1>8, <1>9, <3>1, <3>2
  <2> QED BY <2>0, <2>1, <2>2, <2>3
<1>12. /\ items \in Seq(ItemOf(P)) /\ Len(items) <= ResultLimit
       /\ DOMAIN items \subseteq DOMAIN full /\ \A i \in DOMAIN items : items[i] = full[i]
       /\ Len(items) = Smaller(ResultLimit, Len(full))
  BY <1>1, <1>10, PrefixType, LimitAssumption
<1>13. Distinct(items)
  <2>1. \A m, n \in DOMAIN items : m < n \/ n < m \/ m = n BY <1>12
  <2>2. \A m, n \in DOMAIN items : m < n => items[m].policy # items[n].policy BY <1>11, <1>12
  <2> QED BY <2>1, <2>2 DEF Distinct
<1>14. ASSUME NEW i \in DOMAIN picks PROVE i \in DOMAIN items /\ items[i] = picks[i]
  <2>1. i \in 1..Len(picks) /\ Len(picks) \in Nat OBVIOUS
  <2>2. Len(picks) <= Len(full) /\ Len(full) \in Nat BY <1>4, <1>10
  <2>3. Len(picks) <= Len(items) BY <1>12, <2>1, <2>2, LimitAssumption DEF Smaller
  <2>4. i \in DOMAIN items BY <1>12, <2>1, <2>3
  <2> QED BY <1>10, <1>12, <2>1, <2>2, <2>4
<1> QED BY <1>12, <1>13, <1>14 DEF items

\* What a conflict of a listed policy with a denial depends on.
Clashes(items, kept, topics, i) == DenialConflict(kept[items[i].policy], items[i].policy, topics)

\* Moving the conflicts back keeps every item, once, and leaves them behind all others.
LEMMA DemotedType ==
  ASSUME NEW P, NEW items \in Seq(ItemOf(P)), Distinct(items), NEW kept, NEW topics
  PROVE  LET out == Demoted(items, kept, topics) IN
         /\ out \in Seq(ItemOf(P)) /\ Len(out) = Len(items) /\ Distinct(out)
         /\ \A i \in DOMAIN items : \E n \in DOMAIN out : out[n] = items[i]
         /\ \A m, n \in DOMAIN out :
              m < n /\ Clashes(out, kept, topics, m) => Clashes(out, kept, topics, n)
<1> DEFINE I == {i \in DOMAIN items : Clashes(items, kept, topics, i)}
           J == DOMAIN items \ I
           head == Subsequence(items, J)
           tail == Subsequence(items, I)
           out == Demoted(items, kept, topics)
           h(n) == IF n <= Cardinality(J) THEN Position(J, n) ELSE Position(I, n - Cardinality(J))
<1>1. out = head \o tail BY DEF Demoted, Clashes
<1>2. I \in SUBSET DOMAIN items /\ J \in SUBSET DOMAIN items OBVIOUS
<1>3. \A i \in I : Clashes(items, kept, topics, i) OBVIOUS
<1>4. \A i \in J : ~Clashes(items, kept, topics, i) OBVIOUS
<1>5. I \cap J = {} /\ I \cup J = DOMAIN items OBVIOUS
<1>6. IsFiniteSet(DOMAIN items) /\ Cardinality(DOMAIN items) = Len(items) /\ DOMAIN items \subseteq Nat
  <2>1. DOMAIN items = 1..Len(items) /\ Len(items) \in Nat OBVIOUS
  <2>2. IsFiniteSet(1..Len(items)) /\ Cardinality(1..Len(items)) = Len(items) BY <2>1, FS_Interval
  <2> QED BY <2>1, <2>2
<1> HIDE DEF I, J, head, tail, out
<1>7. /\ IsFiniteSet(J) /\ Cardinality(J) \in Nat
      /\ head \in Seq(ItemOf(P)) /\ Len(head) = Cardinality(J)
      /\ \A n \in 1..Cardinality(J) : Position(J, n) \in J /\ head[n] = items[Position(J, n)]
      /\ \A m, n \in 1..Cardinality(J) : m < n => Position(J, m) < Position(J, n)
      /\ \A i \in J : \E n \in 1..Cardinality(J) : Position(J, n) = i
  BY <1>2, SubsequenceType DEF head
<1>8. /\ IsFiniteSet(I) /\ Cardinality(I) \in Nat
      /\ tail \in Seq(ItemOf(P)) /\ Len(tail) = Cardinality(I)
      /\ \A n \in 1..Cardinality(I) : Position(I, n) \in I /\ tail[n] = items[Position(I, n)]
      /\ \A m, n \in 1..Cardinality(I) : m < n => Position(I, m) < Position(I, n)
      /\ \A i \in I : \E n \in 1..Cardinality(I) : Position(I, n) = i
  BY <1>2, SubsequenceType DEF tail
<1>9. Cardinality(J) + Cardinality(I) = Len(items)
  <2>1. Cardinality(I \cup J) = Cardinality(I) + Cardinality(J) - Cardinality(I \cap J)
    BY <1>7, <1>8, FS_Union
  <2>2. Cardinality(I \cap J) = 0 BY <1>5, FS_EmptySet
  <2> QED BY <1>5, <1>6, <1>7, <1>8, <2>1, <2>2
<1>10. /\ out \in Seq(ItemOf(P)) /\ Len(out) = Cardinality(J) + Cardinality(I)
       /\ \A n \in 1..Len(out) :
            out[n] = IF n <= Cardinality(J) THEN head[n] ELSE tail[n - Cardinality(J)]
  BY <1>1, <1>7, <1>8
<1>11. DOMAIN out = 1..Len(out) /\ Len(out) \in Nat BY <1>10
<1>12. ASSUME NEW n \in DOMAIN out
       PROVE  /\ h(n) \in DOMAIN items /\ out[n] = items[h(n)]
              /\ n <= Cardinality(J) => h(n) \in J
              /\ n > Cardinality(J) => h(n) \in I
  <2>1. CASE n <= Cardinality(J)
    <3>1. n \in 1..Cardinality(J) BY <1>7, <1>11, <2>1
    <3> QED BY <1>2, <1>7, <1>10, <1>11, <2>1, <3>1
  <2>2. CASE ~(n <= Cardinality(J))
    <3>1. n - Cardinality(J) \in 1..Cardinality(I) BY <1>7, <1>8, <1>10, <1>11, <2>2
    <3>2. h(n) = Position(I, n - Cardinality(J)) /\ out[n] = tail[n - Cardinality(J)]
      BY <1>10, <1>11, <2>2
    <3>3. h(n) \in I /\ out[n] = items[h(n)]
      <4> HIDE DEF h
      <4> QED BY <1>8, <3>1, <3>2
    <3> QED BY <1>2, <2>2, <3>3
  <2> QED BY <2>1, <2>2
<1>13. ASSUME NEW m \in DOMAIN out, NEW n \in DOMAIN out, m < n PROVE h(m) # h(n)
  <2>0. m \in Nat \ {0} /\ n \in Nat \ {0} /\ n <= Cardinality(J) + Cardinality(I)
    BY <1>7, <1>8, <1>10, <1>11
  <2>1. CASE n <= Cardinality(J)
    <3>1. m \in 1..Cardinality(J) /\ n \in 1..Cardinality(J) /\ m <= Cardinality(J)
      BY <1>7, <1>13, <2>0, <2>1
    <3>2. Position(J, m) < Position(J, n) BY <1>7, <1>13, <3>1
    <3>3. Position(J, m) \in Nat /\ Position(J, n) \in Nat BY <1>2, <1>6, <1>7, <3>1
    <3> QED BY <2>1, <3>1, <3>2, <3>3
  <2>2. CASE m <= Cardinality(J) /\ n > Cardinality(J)
    <3>1. h(m) \in J /\ h(n) \in I BY <1>12, <2>2
    <3> HIDE DEF h
    <3> QED BY <1>5, <3>1
  <2>3. CASE m > Cardinality(J)
    <3> DEFINE a == m - Cardinality(J)
               b == n - Cardinality(J)
    <3>1. a \in 1..Cardinality(I) /\ b \in 1..Cardinality(I) /\ a < b
      BY <1>7, <1>8, <1>13, <2>0, <2>3
    <3>2. h(m) = Position(I, a) /\ h(n) = Position(I, b) BY <1>7, <1>13, <2>0, <2>3
    <3> HIDE DEF a, b, h
    <3>3. Position(I, a) < Position(I, b) BY <1>8, <3>1
    <3>4. Position(I, a) \in Nat /\ Position(I, b) \in Nat BY <1>2, <1>6, <1>8, <3>1
    <3> QED BY <3>2, <3>3, <3>4
  <2> QED BY <1>7, <2>0, <2>1, <2>2, <2>3
<1>14. Distinct(out)
  <2>1. \A m, n \in DOMAIN out : m < n => out[m].policy # out[n].policy
    <3> SUFFICES ASSUME NEW m \in DOMAIN out, NEW n \in DOMAIN out, m < n
                 PROVE  out[m].policy # out[n].policy
      OBVIOUS
    <3>1. h(m) # h(n) BY <1>13
    <3>2. /\ h(m) \in DOMAIN items /\ out[m] = items[h(m)]
          /\ h(n) \in DOMAIN items /\ out[n] = items[h(n)]
      BY <1>12
    <3> HIDE DEF h
    <3> QED BY <3>1, <3>2 DEF Distinct
  <2>2. \A m, n \in DOMAIN out : m < n \/ n < m \/ m = n BY <1>11
  <2> QED BY <2>1, <2>2 DEF Distinct
<1>15. ASSUME NEW i \in DOMAIN items PROVE \E n \in DOMAIN out : out[n] = items[i]
  <2>1. CASE i \in J
    <3>1. PICK n \in 1..Cardinality(J) : Position(J, n) = i BY <1>7, <2>1
    <3>2. n \in DOMAIN out /\ n <= Cardinality(J) BY <1>7, <1>8, <1>10, <1>11
    <3> QED BY <1>7, <1>10, <1>11, <3>1, <3>2
  <2>2. CASE i \in I
    <3>1. PICK n \in 1..Cardinality(I) : Position(I, n) = i BY <1>8, <2>2
    <3> DEFINE a == Cardinality(J) + n
    <3>2. a \in DOMAIN out /\ ~(a <= Cardinality(J)) /\ a - Cardinality(J) = n
      BY <1>7, <1>8, <1>10, <1>11
    <3> HIDE DEF a
    <3>3. out[a] = tail[n] BY <1>10, <1>11, <3>2
    <3> QED BY <1>8, <3>1, <3>2, <3>3
  <2> QED BY <1>5, <2>1, <2>2
<1>16. ASSUME NEW m \in DOMAIN out, NEW n \in DOMAIN out, m < n, Clashes(out, kept, topics, m)
       PROVE  Clashes(out, kept, topics, n)
  <2>1. /\ h(m) \in DOMAIN items /\ out[m] = items[h(m)]
        /\ h(n) \in DOMAIN items /\ out[n] = items[h(n)]
        /\ m <= Cardinality(J) => h(m) \in J
        /\ n > Cardinality(J) => h(n) \in I
    BY <1>12
  <2> HIDE DEF h
  <2>2. Clashes(items, kept, topics, h(m)) BY <1>16, <2>1 DEF Clashes
  <2>3. ~(m <= Cardinality(J)) BY <1>4, <2>1, <2>2
  <2>4. n > Cardinality(J) BY <1>7, <1>11, <1>16, <2>3
  <2>5. Clashes(items, kept, topics, h(n)) BY <1>3, <2>1, <2>4
  <2> QED BY <2>1, <2>5 DEF Clashes
<1> QED BY <1>9, <1>10, <1>14, <1>15, <1>16 DEF out

\* Rounding goes to a whole hundredth no further than half a hundredth away.
LEMMA RoundedIsNear ==
  ASSUME NEW s \in Int
  PROVE  \E n \in Int : Rounded(s) = 100 * n /\ 100 * n - 50 <= s /\ s <= 100 * n + 50
<1> DEFINE n == s \div 100
           r == s % 100
           up == r > 50 \/ (r = 50 /\ n \in HalvesUp)
<1>1. n \in Int /\ r \in 0..99 /\ s = 100 * n + r OBVIOUS
<1>2. Rounded(s) = 100 * (IF up THEN n + 1 ELSE n) BY DEF Rounded
<1> HIDE DEF n, r
<1>3. CASE up
  <2>1. r >= 50 BY <1>1, <1>3
  <2>2. Rounded(s) = 100 * (n + 1) BY <1>2, <1>3
  <2>3. n + 1 \in Int /\ 100 * (n + 1) - 50 <= s /\ s <= 100 * (n + 1) + 50 BY <1>1, <2>1
  <2> QED BY <2>2, <2>3
<1>4. CASE ~up
  <2>1. r <= 50 BY <1>1, <1>4
  <2>2. Rounded(s) = 100 * n BY <1>2, <1>4
  <2>3. 100 * n - 50 <= s /\ s <= 100 * n + 50 BY <1>1, <2>1
  <2> QED BY <1>1, <2>2, <2>3
<1> QED BY <1>3, <1>4

LEMMA RoundedWhole ==
  ASSUME NEW m \in Int
  PROVE  Rounded(100 * m) = 100 * m
<1>1. PICK n \in Int : Rounded(100 * m) = 100 * n /\ 100 * n - 50 <= 100 * m /\ 100 * m <= 100 * n + 50
  BY RoundedIsNear
<1>2. n = m BY <1>1
<1> QED BY <1>1, <1>2

\* Whole hundredths from the floor to one.
Grid == {y \in 4500..10000 : \E n \in Int : y = 100 * n}

\* What lets a priority b, at rank j and made of a score, be level with the one before it.
MayBeLevel(b, score, j) ==
  b = 4500 \/ score \in (b - 50)..(b - 1) \/ (j \in ShortBounds /\ b = Bound(j))

Falls(a, b, score, j) == a > b \/ (a = b /\ MayBeLevel(b, score, j))

\* The cut a score is put to: at least the floor, at most the bound of its rank.
LEMMA CutScore ==
  ASSUME NEW source \in Int, NEW i \in Nat \ {0}
  PROVE  LET score == Smaller(Larger(source, 4500), Bound(i)) IN
         /\ score \in 4500..9700
         /\ \E n \in 72..97 : Bound(i) = 100 * n
         /\ score = 4500 \/ score = Bound(i) \/ score = source
         /\ source >= Bound(i) => score = Bound(i)
<1>1. \E n \in 72..97 : Bound(i) = 100 * n
  <2>1. CASE 7200 > 10100 - 400 * i
    <3>1. Bound(i) = 100 * 72 BY <2>1 DEF Bound, Larger
    <3> QED BY <3>1
  <2>2. CASE ~(7200 > 10100 - 400 * i)
    <3>1. Bound(i) = 100 * (101 - 4 * i) BY <2>2 DEF Bound, Larger
    <3>2. 101 - 4 * i \in 72..97 BY <2>2
    <3> QED BY <3>1, <3>2
  <2> QED BY <2>1, <2>2
<1>2. Bound(i) \in 7200..9700 BY <1>1
<1> QED BY <1>1, <1>2 DEF Smaller, Larger

\* One priority: a whole hundredth, below the previous one, or level with it where it may be.
LEMMA RankAdjustedFalls ==
  ASSUME NEW source \in Int, NEW i \in Nat \ {0}, NEW previous \in Grid \cup {10001}
  PROVE  /\ RankAdjusted(source, i, previous) \in Grid
         /\ previous \in Grid => Falls(previous, RankAdjusted(source, i, previous), source, i)
<1> DEFINE score == Smaller(Larger(source, 4500), Bound(i))
           short == i \in ShortBounds /\ source >= Bound(i)
           lowered == score > previous \/ (score = previous /\ ~short)
           x == IF lowered THEN Larger(4500, previous - 300) ELSE score
           out == Rounded(x)
<1>0. RankAdjusted(source, i, previous) = out BY DEF RankAdjusted
<1>1. /\ score \in 4500..9700
      /\ \E n \in 72..97 : Bound(i) = 100 * n
      /\ score = 4500 \/ score = Bound(i) \/ score = source
      /\ source >= Bound(i) => score = Bound(i)
  BY CutScore
<1> HIDE DEF score
<1>2. \A y \in Grid : y \in Int /\ 4500 <= y /\ y <= 10000 /\ \E n \in Int : y = 100 * n
  BY DEF Grid
<1>3. score \in Int /\ 4500 <= score /\ score <= 9700 BY <1>1
<1>4. CASE lowered
  <2>1. previous \in Grid BY <1>3, <1>4
  <2>2. PICK m \in Int : previous = 100 * m BY <1>2, <2>1
  <2>3. previous \in Int /\ 4500 <= previous /\ previous <= 10000 BY <1>2, <2>1
  <2>4. x = Larger(4500, previous - 300) BY <1>4
  <2>5. /\ x \in Int /\ 4500 <= x /\ x <= 10000
        /\ x < previous \/ (x = 4500 /\ previous = 4500)
        /\ x = 4500 \/ x = previous - 300
    <3> HIDE DEF x
    <3> QED BY <2>3, <2>4 DEF Larger
  <2> HIDE DEF x
  <2>6. \E n \in Int : x = 100 * n
    <3>1. CASE x = 4500
      <4>1. 4500 = 100 * 45 /\ 45 \in Int OBVIOUS
      <4> QED BY <3>1, <4>1
    <3>2. CASE x = previous - 300
      <4>1. m - 3 \in Int /\ x = 100 * (m - 3) BY <2>2, <3>2
      <4> QED BY <4>1
    <3> QED BY <2>5, <3>1, <3>2
  <2>7. out = x BY <2>6, RoundedWhole
  <2> HIDE DEF out
  <2>8. out \in Grid BY <2>5, <2>6, <2>7 DEF Grid
  <2>9. Falls(previous, out, source, i) BY <2>3, <2>5, <2>7 DEF Falls, MayBeLevel
  <2> QED BY <1>0, <2>8, <2>9
<1>5. CASE ~lowered
  <2>1. x = score BY <1>5
  <2>2. PICK n \in Int : out = 100 * n /\ 100 * n - 50 <= score /\ score <= 100 * n + 50
    <3> HIDE DEF x
    <3> QED BY <1>3, <2>1, RoundedIsNear
  <2> HIDE DEF x, out
  <2>3. out \in Int /\ 4500 <= out /\ out <= 9700 BY <1>3, <2>2
  <2>4. out \in Grid BY <2>2, <2>3 DEF Grid
  <2>5. ASSUME previous \in Grid PROVE Falls(previous, out, source, i)
    <3>1. PICK m \in Int : previous = 100 * m BY <1>2, <2>5
    <3>2. PICK k \in Int : Bound(i) = 100 * k BY <1>1
    <3>3. CASE score = previous
      <4>1. short BY <1>5, <3>3
      <4>2. i \in ShortBounds /\ score = Bound(i) BY <1>1, <4>1
      <4>3. out = previous BY <2>2, <3>1, <3>3
      <4>4. out = Bound(i)
        <5>1. score = Bound(i) BY <4>2
        <5>2. out = score BY <3>3, <4>3
        <5> QED BY <5>1, <5>2
      <4> QED BY <4>2, <4>3, <4>4 DEF Falls, MayBeLevel
    <3>4. CASE score < previous
      <4>1. n <= m BY <1>3, <2>2, <3>1, <3>4
      <4>2. CASE n < m
        <5>1. previous > out BY <2>2, <3>1, <4>2
        <5> QED BY <5>1 DEF Falls
      <4>3. CASE n = m
        <5>1. out = previous BY <2>2, <3>1, <4>3
        <5>2. score \in (out - 50)..(out - 1) BY <1>3, <2>2, <2>3, <3>4, <5>1
        <5>3. score # Bound(i)
          <6>1. SUFFICES ASSUME score = 100 * k PROVE FALSE BY <3>2
          <6> QED BY <1>3, <2>2, <3>1, <3>4, <4>3, <6>1
        <5>4. CASE score = 4500
          <6>1. out = 4500 BY <2>2, <2>3, <5>4
          <6> QED BY <5>1, <6>1 DEF Falls, MayBeLevel
        <5>5. CASE score = source BY <5>1, <5>2, <5>5 DEF Falls, MayBeLevel
        <5> QED BY <1>1, <5>3, <5>4, <5>5
      <4> QED BY <4>1, <4>2, <4>3
    <3>5. ~(score > previous) BY <1>5
    <3>6. previous \in Int BY <1>2, <2>5
    <3>7. score = previous \/ score < previous BY <1>3, <3>5, <3>6
    <3> QED BY <3>3, <3>4, <3>7
  <2> QED BY <1>0, <2>4, <2>5
<1> QED BY <1>4, <1>5

ShownRow(P) == [policy : P, priority : Int, source : Int]

RowsFall(shown, i, j) == Falls(shown[i].priority, shown[j].priority, shown[j].source, j)

\* The list presented: the same policies in the same order, with priorities that fall.
LEMMA PresentedType ==
  ASSUME NEW P, NEW items \in Seq(ItemOf(P)), NEW raw, \A p \in P : raw[p] \in Int
  PROVE  LET out == Presented(items, raw) IN
         /\ out \in Seq(ShownRow(P)) /\ Len(out) = Len(items)
         /\ \A i \in 1..Len(items) : out[i].policy = items[i].policy
         /\ \A i, j \in 1..Len(items) : i < j => RowsFall(out, i, j)
<1> DEFINE n == Len(items)
           Source(i) == SourceScore(items[i], raw[items[i].policy])
           Step(g, i) == RankAdjusted(Source(i), i, IF i = 1 THEN 10001 ELSE g[i - 1])
<1>0. n \in Nat /\ DOMAIN items = 1..n OBVIOUS
<1>1. ASSUME NEW i \in 1..n PROVE Source(i) \in Int
  <2>1. items[i] \in ItemOf(P) OBVIOUS
  <2>2. items[i].policy \in P /\ items[i].priority \in Int /\ items[i].score \in Int
    BY <2>1 DEF ItemOf
  <2> QED BY <2>2 DEF SourceScore
<1> HIDE DEF Source
\* The recursive definition has a solution.
<1>2. \E g : g = [i \in 1..n |-> Step(g, i)]
  <2> DEFINE T == {m \in Nat : \E g : g = [i \in 1..m |-> Step(g, i)]}
  <2>1. 0 \in T
    <3>1. \E g : g = [i \in 1..0 |-> Step(g, i)]
      <4> DEFINE g == [i \in {} |-> 0]
      <4>1. g = [i \in 1..0 |-> Step(g, i)] OBVIOUS
      <4> QED BY <4>1
    <3> QED BY <3>1
  <2>2. ASSUME NEW m \in Nat, m \in T PROVE m + 1 \in T
    <3>1. PICK g : g = [i \in 1..m |-> Step(g, i)] BY <2>2
    <3> DEFINE h == [i \in 1..(m + 1) |-> IF i <= m THEN g[i] ELSE Step(g, i)]
    <3>2. ASSUME NEW i \in 1..(m + 1) PROVE h[i] = Step(h, i)
      <4>1. Step(h, i) = Step(g, i)
        <5>1. CASE i = 1 BY <5>1
        <5>2. CASE i # 1
          <6>1. i - 1 \in 1..(m + 1) /\ i - 1 <= m BY <5>2
          <6>2. h[i - 1] = g[i - 1] BY <6>1
          <6> QED BY <6>2
        <5> QED BY <5>1, <5>2
      <4>2. CASE i <= m
        <5>1. i \in 1..m BY <4>2
        <5>2. g[i] = Step(g, i) BY <3>1, <5>1
        <5>3. h[i] = g[i] BY <4>2
        <5> HIDE DEF Step, h
        <5> QED BY <4>1, <5>2, <5>3
      <4>3. CASE ~(i <= m)
        <5>1. h[i] = Step(g, i) BY <4>3
        <5> HIDE DEF Step, h
        <5> QED BY <4>1, <5>1
      <4> QED BY <4>2, <4>3
    <3>3. h = [i \in 1..(m + 1) |-> h[i]] OBVIOUS
    <3> HIDE DEF h
    <3>4. h = [i \in 1..(m + 1) |-> Step(h, i)]
      <4> HIDE DEF Step
      <4> QED BY <3>2, <3>3
    <3>5. \E f : f = [i \in 1..(m + 1) |-> Step(f, i)] BY <3>4
    <3> HIDE DEF Step
    <3> QED BY <3>5
  <2>3. \A m \in Nat : m \in T
    <3> HIDE DEF T
    <3> QED BY <2>1, <2>2, NatSetInduction
  <2> HIDE DEF Step
  <2> QED BY <1>0, <2>3
<1> DEFINE shown == CHOOSE g : g = [i \in 1..n |-> Step(g, i)]
           out == Presented(items, raw)
<1>3. shown = [i \in 1..n |-> Step(shown, i)]
  <2> HIDE DEF Step
  <2> QED BY <1>2
<1>4. out = [i \in 1..n |-> [policy |-> items[i].policy, priority |-> shown[i], source |-> Source(i)]]
  BY DEF Presented, Source
<1> HIDE DEF shown, out
<1>5. ASSUME NEW i \in 1..n
      PROVE  shown[i] = RankAdjusted(Source(i), i, IF i = 1 THEN 10001 ELSE shown[i - 1])
  BY <1>3
<1>5a. \A x \in Grid : x \in Int BY DEF Grid
<1>6. \A i \in 1..n : shown[i] \in Grid
  <2> DEFINE T == {m \in Nat : m \in 1..n => shown[m] \in Grid}
  <2>1. 0 \in T OBVIOUS
  <2>2. ASSUME NEW m \in Nat, m \in T PROVE m + 1 \in T
    <3> SUFFICES ASSUME m + 1 \in 1..n PROVE shown[m + 1] \in Grid
      OBVIOUS
    <3>1. (IF m + 1 = 1 THEN 10001 ELSE shown[m + 1 - 1]) \in Grid \cup {10001}
      <4>1. CASE m = 0 BY <4>1
      <4>2. CASE m # 0
        <5>1. m \in 1..n /\ m + 1 - 1 = m BY <4>2
        <5> QED BY <2>2, <4>2, <5>1
      <4> QED BY <4>1, <4>2
    <3>2. Source(m + 1) \in Int BY <1>1
    <3> DEFINE previous == IF m + 1 = 1 THEN 10001 ELSE shown[m + 1 - 1]
    <3>3. shown[m + 1] = RankAdjusted(Source(m + 1), m + 1, previous) BY <1>5
    <3>4. previous \in Grid \cup {10001} BY <3>1
    <3>5. m + 1 \in Nat \ {0} OBVIOUS
    <3> HIDE DEF previous
    <3> QED BY <3>2, <3>3, <3>4, <3>5, RankAdjustedFalls
  <2>3. \A m \in Nat : m \in T
    <3> HIDE DEF T
    <3> QED BY <2>1, <2>2, NatSetInduction
  <2> QED BY <2>3
<1>7. ASSUME NEW i \in 1..n, i # 1
      PROVE  Falls(shown[i - 1], shown[i], Source(i), i)
  <2>1. i - 1 \in 1..n BY <1>7
  <2>2. shown[i - 1] \in Grid BY <1>6, <2>1
  <2>3. shown[i] = RankAdjusted(Source(i), i, shown[i - 1]) BY <1>5, <1>7
  <2>4. Source(i) \in Int /\ i \in Nat \ {0} BY <1>1
  <2> DEFINE previous == shown[i - 1]
  <2>5. previous \in Grid /\ shown[i] = RankAdjusted(Source(i), i, previous) BY <2>2, <2>3
  <2> HIDE DEF previous
  <2>6. Falls(previous, RankAdjusted(Source(i), i, previous), Source(i), i)
    BY <2>4, <2>5, RankAdjustedFalls
  <2> QED BY <2>5, <2>6 DEF previous
<1>8. ASSUME NEW i \in 1..n
      PROVE  \A j \in 1..n : i < j => Falls(shown[i], shown[j], Source(j), j)
  <2> DEFINE T == {m \in Nat : i + 1 + m \in 1..n =>
                                 Falls(shown[i], shown[i + 1 + m], Source(i + 1 + m), i + 1 + m)}
  <2>1. 0 \in T
    <3> SUFFICES ASSUME i + 1 \in 1..n PROVE Falls(shown[i], shown[i + 1], Source(i + 1), i + 1)
      OBVIOUS
    <3>1. i + 1 # 1 /\ i + 1 - 1 = i OBVIOUS
    <3> QED BY <1>7, <3>1
  <2>2. ASSUME NEW m \in Nat, m \in T PROVE m + 1 \in T
    <3> DEFINE a == i + 1 + m
               b == i + 1 + (m + 1)
    <3> SUFFICES ASSUME b \in 1..n PROVE Falls(shown[i], shown[b], Source(b), b)
      OBVIOUS
    <3>1. a \in 1..n /\ b \in 1..n /\ b # 1 /\ b - 1 = a OBVIOUS
    <3>2. Falls(shown[i], shown[a], Source(a), a) BY <2>2, <3>1
    <3> HIDE DEF a, b
    <3>3. Falls(shown[a], shown[b], Source(b), b) BY <1>7, <3>1
    <3>4. shown[i] \in Int /\ shown[a] \in Int /\ shown[b] \in Int BY <1>5a, <1>6, <3>1
    <3> QED BY <3>2, <3>3, <3>4 DEF Falls
  <2>3. \A m \in Nat : m \in T
    <3> HIDE DEF T
    <3> QED BY <2>1, <2>2, NatSetInduction
  <2> SUFFICES ASSUME NEW j \in 1..n, i < j PROVE Falls(shown[i], shown[j], Source(j), j)
    OBVIOUS
  <2>4. j - i - 1 \in Nat /\ i + 1 + (j - i - 1) = j OBVIOUS
  <2>5. j - i - 1 \in T BY <2>3, <2>4
  <2> QED BY <2>4, <2>5
<1>9. \A i \in 1..n : /\ out[i].policy = items[i].policy /\ out[i].priority = shown[i]
                       /\ out[i].source = Source(i)
  BY <1>4
<1>10. out \in Seq(ShownRow(P)) /\ Len(out) = n
  <2>1. ASSUME NEW i \in 1..n PROVE items[i].policy \in P /\ shown[i] \in Int /\ Source(i) \in Int
    <3>1. items[i] \in ItemOf(P) OBVIOUS
    <3> QED BY <1>1, <1>5a, <1>6, <3>1 DEF ItemOf
  <2> QED BY <1>0, <1>4, <2>1 DEF ShownRow
<1>11. \A i, j \in 1..n : i < j => RowsFall(out, i, j) BY <1>8, <1>9 DEF RowsFall
<1> QED BY <1>9, <1>10, <1>11 DEF out

\* What a list to be shown has to be: policies of P, each once, no more than the limit,
\* with priorities that fall and the conflicts behind all others.
Presentable(shown, P, kept, topics) ==
  /\ shown \in Seq(ShownRow(P)) /\ Len(shown) <= ResultLimit
  /\ Distinct(shown)
  /\ \A i, j \in DOMAIN shown : i < j => RowsFall(shown, i, j)
  /\ \A i, j \in DOMAIN shown : i < j /\ Clashes(shown, kept, topics, i) => Clashes(shown, kept, topics, j)

\* Whatever the model answers, the list is presentable and has every policy it chose.
LEMMA RerankedType ==
  ASSUME NEW ranking \in Seq(RankingRow), NEW P, NEW base \in Seq(P), P = ValuesOf(base),
         \A i, j \in DOMAIN base : base[i] = base[j] => i = j,
         NEW kept, NEW raw, \A p \in P : raw[p] \in Int, NEW topics
  PROVE  LET out == Reranked(ranking, base, kept, raw, topics) IN
         /\ Presentable(out.shown, P, kept, topics)
         /\ \A p \in DOMAIN out.scores : \E i \in DOMAIN out.shown : out.shown[i].policy = p
<1> DEFINE out == Reranked(ranking, base, kept, raw, topics)
           picks == Sanitized(ranking, base)
           plain == [i \in DOMAIN base |-> Item(base[i], 0, 0)]
           filled == Backfilled(picks, base)
           items == IF picks = <<>> THEN Prefix(Demoted(plain, kept, topics), ResultLimit)
                    ELSE Demoted(filled, kept, topics)
<1>1. out.shown = Presented(items, raw) /\ DOMAIN out.scores = {r.policy : r \in ValuesOf(picks)}
  BY DEF Reranked
<1> HIDE DEF out
<1>2. picks \in Seq(ItemOf(P)) /\ Len(picks) <= ResultLimit /\ Distinct(picks)
  BY SanitizedType
<1> HIDE DEF picks
<1>3. /\ items \in Seq(ItemOf(P)) /\ Len(items) <= ResultLimit /\ Distinct(items)
      /\ \A i \in DOMAIN picks : \E n \in DOMAIN items : items[n] = picks[i]
      /\ \A i, j \in DOMAIN items : i < j /\ Clashes(items, kept, topics, i) => Clashes(items, kept, topics, j)
  <2>1. CASE picks = <<>>
    <3> DEFINE moved == Demoted(plain, kept, topics)
    <3>1. \A i \in DOMAIN base : base[i] \in P OBVIOUS
    <3>2. \A p \in P : Item(p, 0, 0) \in ItemOf(P) /\ Item(p, 0, 0).policy = p BY DEF Item, ItemOf
    <3>3. plain \in Seq(ItemOf(P)) /\ DOMAIN plain = DOMAIN base BY <3>1, <3>2
    <3>4. Distinct(plain) BY <3>1, <3>2 DEF Distinct
    <3> HIDE DEF plain
    <3>5. /\ moved \in Seq(ItemOf(P)) /\ Distinct(moved)
          /\ \A i, j \in DOMAIN moved : i < j /\ Clashes(moved, kept, topics, i) => Clashes(moved, kept, topics, j)
      BY <3>3, <3>4, DemotedType
    <3> HIDE DEF moved
    <3>6. /\ items = Prefix(moved, ResultLimit)
          /\ items \in Seq(ItemOf(P)) /\ Len(items) <= ResultLimit
          /\ DOMAIN items \subseteq DOMAIN moved /\ \A i \in DOMAIN items : items[i] = moved[i]
      BY <2>1, <3>5, PrefixType, LimitAssumption DEF moved
    <3> HIDE DEF items
    <3>7. Distinct(items) BY <3>5, <3>6 DEF Distinct
    <3>8. \A i, j \in DOMAIN items : i < j /\ Clashes(items, kept, topics, i) => Clashes(items, kept, topics, j)
      BY <3>5, <3>6 DEF Clashes
    <3>9. DOMAIN picks = {} BY <2>1
    <3> QED BY <3>6, <3>7, <3>8, <3>9
  <2>2. CASE picks # <<>>
    <3>1. /\ filled \in Seq(ItemOf(P)) /\ Len(filled) <= ResultLimit /\ Distinct(filled)
          /\ \A i \in DOMAIN picks : i \in DOMAIN filled /\ filled[i] = picks[i]
      BY <1>2, BackfilledType
    <3> HIDE DEF filled
    <3>2. items = Demoted(filled, kept, topics) BY <2>2 DEF filled
    <3> HIDE DEF items
    <3>3. /\ items \in Seq(ItemOf(P)) /\ Len(items) = Len(filled) /\ Distinct(items)
          /\ \A i \in DOMAIN filled : \E n \in DOMAIN items : items[n] = filled[i]
          /\ \A i, j \in DOMAIN items : i < j /\ Clashes(items, kept, topics, i) => Clashes(items, kept, topics, j)
      BY <3>1, <3>2, DemotedType
    <3> QED BY <3>1, <3>3
  <2> QED BY <2>1, <2>2
<1> HIDE DEF items
<1>4. /\ out.shown \in Seq(ShownRow(P)) /\ Len(out.shown) = Len(items)
      /\ \A i \in 1..Len(items) : out.shown[i].policy = items[i].policy
      /\ \A i, j \in 1..Len(items) : i < j => RowsFall(out.shown, i, j)
  <2>1. items \in Seq(ItemOf(P)) BY <1>3
  <2> DEFINE list == Presented(items, raw)
  <2>2. list \in Seq(ShownRow(P)) BY <2>1, PresentedType
  <2>3. Len(list) = Len(items) BY <2>1, PresentedType
  <2>4. \A i \in 1..Len(items) : list[i].policy = items[i].policy BY DEF Presented
  <2>5. \A i, j \in 1..Len(items) : i < j => RowsFall(list, i, j)
    BY <2>1, PresentedType
  <2>6. out.shown = list BY <1>1
  <2> HIDE DEF list
  <2> QED BY <2>2, <2>3, <2>4, <2>5, <2>6
<1>5. DOMAIN items = 1..Len(items) /\ DOMAIN out.shown = 1..Len(items) BY <1>3, <1>4
<1>6. Distinct(out.shown) BY <1>3, <1>4, <1>5 DEF Distinct
<1>7. \A i \in DOMAIN items : Clashes(out.shown, kept, topics, i) <=> Clashes(items, kept, topics, i)
  BY <1>4, <1>5 DEF Clashes
<1>8. Presentable(out.shown, P, kept, topics)
  BY <1>3, <1>4, <1>5, <1>6, <1>7 DEF Presentable
<1>9. ASSUME NEW p \in DOMAIN out.scores PROVE \E i \in DOMAIN out.shown : out.shown[i].policy = p
  <2>1. PICK i \in DOMAIN picks : picks[i].policy = p BY <1>1 DEF ValuesOf
  <2>2. PICK m \in DOMAIN items : items[m] = picks[i] BY <1>3
  <2> QED BY <1>4, <1>5, <2>1, <2>2
<1> QED BY <1>8, <1>9 DEF out

(***************************************************************************)
(* The inductive invariant.                                                *)
(***************************************************************************)
AfterSearch == {"rule_filter", "candidate_save", "policy_assessment", "assessment_save",
                "build_result", "llm_rerank", "rerank_save", "finalize_result"}
AfterFilter == AfterSearch \ {"rule_filter"}
AfterSave   == AfterFilter \ {"candidate_save"}
AfterJudgement  == AfterSave \ {"policy_assessment"}
AfterAssessment == AfterJudgement \ {"assessment_save"}
AfterBase   == AfterAssessment \ {"build_result"}
AfterRerank == {"rerank_save", "finalize_result"}
Graph == {"candidate_search"} \cup AfterSearch

RunFields == {"cond", "issues", "conflict", "rows", "kept", "verdicts", "base", "raw", "shown", "scores"}

\* Answers are finite sets of values.
Finitely(c) == \A f \in DOMAIN c : IsFiniteSet(c[f])

\* The request and its node: a run is at the nodes of its kind, and over when it is not processed.
RequestInv ==
  /\ kind \in {"recommendation", "eligibility", "policy_detail"} /\ status \in Statuses
  /\ resolved \in BOOLEAN /\ denials \subseteq Categories
  /\ pc \in {"analyze", "check", "ended"} \cup Graph
  /\ pc = "ended" <=> status # "PROCESSING"
  /\ pc \in Graph => kind = "recommendation"
  /\ pc = "check" => kind # "recommendation"
  /\ pc \in {"analyze", "ended"} => run = NoRun

\* The rules and the conditions are those the program can be given.
InputInv ==
  /\ \A p \in Policies : rules[p] \in RuleChoices[p]
  /\ Finitely(profile) /\ Finitely(selected) /\ Finitely(run.cond)
  /\ DOMAIN run = RunFields

TablesTyped(rows, verdicts, shown) ==
  /\ DOMAIN rows \subseteq Policies /\ DOMAIN verdicts \subseteq Policies
  /\ \A p \in DOMAIN rows : /\ rows[p].status \in {"CANDIDATE", "UNCERTAIN", "EXCLUDED"}
                            /\ rows[p].score \in Score
  /\ \A p \in DOMAIN verdicts : verdicts[p] \in Assessments
  /\ Len(shown) <= ResultLimit

\* The tables, and what a rollback puts back, have their types.
TableInv == TablesTyped(cands, assess, result) /\ TablesTyped(before[1], before[2], before[3])

\* The candidates are those found, each as its rules and its text make it.
CandidateInv ==
  /\ pc \in AfterSearch =>
       /\ DOMAIN run.rows \subseteq Policies
       /\ \A p \in DOMAIN run.rows : run.rows[p].vector \in Nat
  /\ pc \in AfterFilter =>
       /\ DOMAIN run.kept \subseteq DOMAIN run.rows
       /\ \A p \in DOMAIN run.kept : run.kept[p] = Candidate(p, run.cond, rules[p], run.rows[p])

\* The rows are this round's, and have no rerank score before this round's model gives one.
SavedInv ==
  /\ pc \in AfterSave =>
       /\ DOMAIN cands = DOMAIN run.kept
       /\ \A p \in DOMAIN cands : /\ cands[p].status = run.kept[p].status
                                  /\ cands[p].score = run.kept[p].score
  /\ pc \in AfterSave \ {"finalize_result"} =>
       \A p \in DOMAIN cands : "rerank" \in DOMAIN cands[p] /\ cands[p].rerank = {}
  /\ pc = "finalize_result" => \A p \in DOMAIN cands : cands[p].rerank # {} => p \in DOMAIN run.scores

\* Every candidate is assessed, and the assessments are this round's.
VerdictInv ==
  /\ pc \in AfterJudgement =>
       /\ DOMAIN run.verdicts = DOMAIN run.kept
       /\ \A p \in DOMAIN run.verdicts : run.verdicts[p] \in Assessments
  /\ pc \in AfterAssessment => assess = run.verdicts

\* The base result, and the list made of it, have eligible candidates only, each once.
ShownInv ==
  /\ pc \in AfterBase =>
       /\ run.base \in Seq(Eligible(run.kept, run.verdicts))
       /\ \A i, j \in DOMAIN run.base : run.base[i] = run.base[j] => i = j
       /\ \A p \in DOMAIN run.kept : run.raw[p] \in Int
  /\ pc \in AfterRerank =>
       /\ Presentable(run.shown, Eligible(run.kept, run.verdicts), run.kept, denials)
       /\ \A p \in DOMAIN run.scores : \E i \in DOMAIN run.shown : run.shown[i].policy = p
  /\ pc \notin AfterRerank => run.shown = <<>>

\* A denied benefit is among the selected conditions, and among those of the run.
DenialInv ==
  "income_status" \in denials =>
    /\ kind = "recommendation"
    /\ "income_status" \in DOMAIN selected /\ selected["income_status"] = {"none"}
    /\ pc \in Graph => "income_status" \in DOMAIN run.cond /\ run.cond["income_status"] = {"none"}

\* What a completed recommendation has stored.
ResultInv ==
  pc = "ended" /\ status = "COMPLETED" /\ kind = "recommendation" =>
    /\ Distinct(result)
    /\ \A i \in DOMAIN result : LET p == result[i].policy IN
         /\ p \in DOMAIN cands /\ cands[p].status # "EXCLUDED"
         /\ p \in DOMAIN assess /\ assess[p] # "NOT_MATCH"
    /\ \A p \in DOMAIN cands : cands[p].rerank # {} => \E i \in DOMAIN result : result[i].policy = p

IInv == /\ RequestInv /\ InputInv /\ TableInv /\ CandidateInv /\ SavedInv /\ VerdictInv
        /\ ShownInv /\ DenialInv /\ ResultInv /\ SettledStaysSettled

(***************************************************************************)
(* The base result.                                                        *)
(***************************************************************************)
LEMMA KeyType ==
  ASSUME NEW a \in Int, NEW b \in Int, NEW c \in Int, NEW d \in Int, NEW e \in Int
  PROVE  <<a, b, c, d, e>> \in [1..5 -> Int]
<1> DEFINE k == <<a, b, c, d, e>>
<1>1. DOMAIN k = 1..5 /\ k = [i \in 1..5 |-> k[i]] OBVIOUS
<1>2. \A i \in 1..5 : k[i] \in Int OBVIOUS
<1> HIDE DEF k
<1> QED BY <1>1, <1>2 DEF k

LEMMA LongerKeyType ==
  ASSUME NEW a \in Int, NEW b \in Int, NEW c \in Int, NEW d \in Int, NEW e \in Int, NEW f \in Int
  PROVE  <<a, b, c, d, e, f>> \in [1..6 -> Int]
<1> DEFINE k == <<a, b, c, d, e, f>>
<1>1. DOMAIN k = 1..6 /\ k = [i \in 1..6 |-> k[i]] OBVIOUS
<1>2. \A i \in 1..6 : k[i] \in Int OBVIOUS
<1> HIDE DEF k
<1> QED BY <1>1, <1>2 DEF k

\* Candidates that are policies and have scores.
Scored(kept) ==
  DOMAIN kept \subseteq Policies /\ \A p \in DOMAIN kept : kept[p].score \in Int /\ kept[p].search \in Int

\* The base result has eligible candidates, each once; keys differ by the policy in them.
LEMMA BaseResultType ==
  ASSUME NEW kept, Scored(kept), NEW raw, \A p \in DOMAIN kept : raw[p] \in Int,
         NEW verdicts, NEW topics
  PROVE  LET base == BaseResult(kept, raw, verdicts, topics) IN
         /\ base \in Seq(Eligible(kept, verdicts))
         /\ \A i, j \in DOMAIN base : base[i] = base[j] => i = j
<1> DEFINE E == Eligible(kept, verdicts)
           K == PoolKey(kept, verdicts, topics)
           B == BaseKey(kept, raw, verdicts, topics)
           P == Pool(kept, verdicts, topics)
<1>0. DOMAIN kept \subseteq Policies /\ Policies \subseteq Int BY PolicyAssumption DEF Scored
<1>1. E \in SUBSET DOMAIN kept /\ E \subseteq Policies BY <1>0 DEF Eligible
<1>2. IsFiniteSet(E) BY <1>1, PolicyAssumption, FS_Subset
<1>3. ASSUME NEW p \in DOMAIN kept
      PROVE  /\ K[p] \in [1..5 -> Int] /\ K[p][5] = p
             /\ B[p] \in [1..6 -> Int] /\ B[p][6] = p
  <2> DEFINE f == Flag(DenialConflict(kept[p], p, topics))
             u == UserStatus(verdicts[p])
             s == -kept[p].score
             r == -kept[p].search
  <2> DEFINE d == IF kept[p].score # 0 THEN -kept[p].score ELSE -raw[p]
  <2>1. K[p] = <<f, u, s, r, p>> /\ B[p] = <<u, d, f, s, r, p>> BY DEF PoolKey, BaseKey
  <2>2. f \in Int BY DEF Flag
  <2>3. u \in Int BY DEF UserStatus
  <2>4. s \in Int /\ r \in Int
    <3>1. kept[p].score \in Int /\ kept[p].search \in Int BY DEF Scored
    <3> QED BY <3>1
  <2>5. p \in Int BY <1>0
  <2>6. d \in Int
    <3>1. kept[p].score \in Int /\ raw[p] \in Int BY DEF Scored
    <3> QED BY <3>1
  <2> HIDE DEF f, u, s, r, d, K, B
  <2>7. K[p] \in [1..5 -> Int] /\ K[p][5] = p BY <2>1, <2>2, <2>3, <2>4, <2>5, KeyType
  <2> DEFINE k == <<u, d, f, s, r, p>>
  <2>8. k \in [1..6 -> Int]
    BY <2>2, <2>3, <2>4, <2>5, <2>6, LongerKeyType
  <2>9. k[6] = p /\ B[p] = k BY <2>1
  <2> HIDE DEF k
  <2> QED BY <2>7, <2>8, <2>9
<1> HIDE DEF K, B
<1>4. /\ Sorted(E, K) \in [1..Cardinality(E) -> E]
      /\ \A p, q \in E : K[p] = K[q] => p = q
      /\ \A p, q \in E : B[p] = B[q] => p = q
  <2>1. \A p \in E : K[p] \in [1..5 -> Int] BY <1>1, <1>3
  <2>2. /\ \A p, q \in E : K[p] = K[q] => p = q
        /\ \A p, q \in E : B[p] = B[q] => p = q
    BY <1>1, <1>3
  <2> HIDE DEF E
  <2> QED BY <1>2, <2>1, <2>2, SortedHasAll
<1>5. P \in SUBSET E /\ IsFiniteSet(P)
  <2> DEFINE s == Sorted(E, K)
             n == PoolLimit
  <2>1. Cardinality(E) \in Nat BY <1>2, FS_CardinalityType
  <2>2. s \in Seq(E) BY <1>4, <2>1
  <2>3. n \in Nat BY LimitAssumption DEF PoolLimit, Smaller
  <2>4. P = ValuesOf(Prefix(s, n)) BY DEF Pool, K
  <2> HIDE DEF s, n, E, P
  <2>5. Prefix(s, n) \in Seq(E) BY <2>2, <2>3, PrefixType
  <2> QED BY <2>4, <2>5, ValuesAreFinite
<1>6. BaseResult(kept, raw, verdicts, topics) = Sorted(P, B) BY DEF BaseResult, B
<1> HIDE DEF P, E
<1>7. /\ Sorted(P, B) \in [1..Cardinality(P) -> P]
      /\ \A i, j \in 1..Cardinality(P) : Sorted(P, B)[i] = Sorted(P, B)[j] => i = j
  <2>1. \A p \in P : B[p] \in [1..6 -> Int] BY <1>1, <1>3, <1>5
  <2>2. \A p, q \in P : B[p] = B[q] => p = q BY <1>4, <1>5
  <2>3. IsFiniteSet(P) BY <1>5
  <2>4. Sorted(P, B) \in [1..Cardinality(P) -> P] BY <2>1, <2>2, <2>3, SortedHasAll
  <2>5. IsInjective(Sorted(P, B)) BY <2>1, <2>2, <2>3, SortedHasAll
  <2> QED BY <2>4, <2>5 DEF IsInjective
<1>8. Cardinality(P) \in Nat BY <1>5, FS_CardinalityType
<1>9. Sorted(P, B) \in Seq(E) /\ DOMAIN Sorted(P, B) = 1..Cardinality(P) BY <1>5, <1>7, <1>8
<1> QED BY <1>6, <1>7, <1>9 DEF E

(***************************************************************************)
(* The conditions.                                                         *)
(***************************************************************************)
\* What the rules read has finitely many answers to every question.
LEMMA OverIsFinite ==
  ASSUME NEW c, NEW d, Finitely(c), Finitely(d)
  PROVE  Finitely(Over(c, d))
BY DEF Finitely, Over

LEMMA SnapshotIsFinite ==
  ASSUME NEW c, Finitely(c)
  PROVE  Finitely(Snapshot(c))
<1>1. \A f \in DOMAIN c : IsFiniteSet(c[f]) /\ IsFiniteSet(c[f] \cup {Basic})
  <2> SUFFICES ASSUME NEW f \in DOMAIN c
               PROVE  IsFiniteSet(c[f]) /\ IsFiniteSet(c[f] \cup {Basic})
    OBVIOUS
  <2>1. IsFiniteSet(c[f]) BY DEF Finitely
  <2> QED BY <2>1, FS_AddElement
<1> QED BY <1>1 DEF Snapshot, Answered, Finitely

LEMMA ConditionIsFinite ==
  ASSUME Finitely(profile), Finitely(selected), NEW said \in Parses
  PROVE  Finitely(Merge(Current(said), profile))
<1>1. Finitely(said) BY ConditionAssumption DEF Finitely
<1>2. Finitely(EffectiveSelection) BY DEF EffectiveSelection, Finitely, Answered
<1>3. Finitely(Current(said)) BY <1>1, <1>2, OverIsFinite DEF Current
<1>4. Finitely(Snapshot(Current(said))) /\ Finitely(Snapshot(profile)) BY <1>3, SnapshotIsFinite
<1> QED BY <1>4, OverIsFinite DEF Merge

\* A denied benefit is not taken back by what is said or saved.
LEMMA DenialReachesTheCondition ==
  ASSUME kind = "recommendation", "income_status" \in DOMAIN selected,
         selected["income_status"] = {"none"}, NEW said
  PROVE  LET c == Merge(Current(said), profile) IN
         "income_status" \in DOMAIN c /\ c["income_status"] = {"none"}
<1> DEFINE now == Current(said)
<1>1. "income_status" \in DOMAIN now /\ now["income_status"] = {"none"}
  BY DEF Current, Over, EffectiveSelection
<1> HIDE DEF now
<1>2. {"none"} \cap Specific = {} /\ {"none"} # {} BY DEF Specific
<1>3. "income_status" \in DOMAIN Snapshot(now) /\ Snapshot(now)["income_status"] = {"none"}
  BY <1>1, <1>2 DEF Snapshot, Answered
<1> QED BY <1>3 DEF Merge, Over, now

\* The policy of an eligibility check.
LEMMA TargetIsPolicy == Target \in Policies
<1>1. \E p \in Policies : \A q \in Policies : p <= q BY PolicyAssumption, LeastNumber
<1> QED BY <1>1 DEF Target

(***************************************************************************)
(* Every action keeps the invariant.                                       *)
(***************************************************************************)
\* Outside of the graph's stages the run promises nothing.
LEMMA OutsideOfTheGraph ==
  ASSUME pc' \notin AfterSearch, run'.shown = <<>>
  PROVE  CandidateInv' /\ SavedInv' /\ VerdictInv' /\ ShownInv'
BY DEF CandidateInv, SavedInv, VerdictInv, ShownInv, AfterSearch, AfterFilter, AfterSave,
       AfterJudgement, AfterAssessment, AfterBase, AfterRerank

LEMMA NoRunHasItsFields ==
  DOMAIN NoRun = RunFields /\ NoRun.shown = <<>> /\ Finitely(NoRun.cond)
BY DEF NoRun, RunFields, Finitely, Empty

LEMMA InitInv == Init => IInv
<1> SUFFICES ASSUME Init PROVE IInv
  OBVIOUS
<1>1. pc = "analyze" /\ status = "PROCESSING" /\ run = NoRun /\ denials = {} BY DEF Init
<1>2. RequestInv BY <1>1 DEF Init, RequestInv, Statuses, Graph, AfterSearch
<1>3. InputInv
  <2>1. Finitely(profile) /\ Finitely(selected)
    BY ConditionAssumption DEF Init, Finitely
  <2> QED BY <1>1, <2>1, NoRunHasItsFields DEF Init, InputInv
<1>4. TableInv
  <2>1. before[1] = Empty /\ before[2] = Empty /\ before[3] = <<>> BY DEF Init, tables
  <2>2. cands = Empty /\ assess = Empty /\ result = <<>> BY DEF Init
  <2>3. DOMAIN Empty = {} /\ Len(<<>>) <= ResultLimit BY LimitAssumption DEF Empty
  <2> QED BY <2>1, <2>2, <2>3 DEF TableInv, TablesTyped
<1>5. CandidateInv /\ SavedInv /\ VerdictInv
  BY <1>1 DEF CandidateInv, SavedInv, VerdictInv, AfterSearch, AfterFilter, AfterSave,
              AfterJudgement, AfterAssessment
<1>6. ShownInv
  BY <1>1, NoRunHasItsFields DEF ShownInv, AfterSearch, AfterFilter, AfterSave,
                                 AfterJudgement, AfterAssessment, AfterBase, AfterRerank
<1>7. DenialInv /\ ResultInv /\ SettledStaysSettled
  BY <1>1 DEF DenialInv, ResultInv, SettledStaysSettled
<1> QED BY <1>2, <1>3, <1>4, <1>5, <1>6, <1>7 DEF IInv

LEMMA AnalyzeInv ==
  ASSUME IInv, Analyze PROVE IInv'
<1>1. /\ pc = "analyze" /\ before' = tables /\ status = "PROCESSING" /\ run = NoRun
      /\ UNCHANGED <<rules, kind, profile, selected, denials, resolved, confirmed, tables>>
  BY DEF Analyze, IInv, RequestInv
<1>2. TableInv'
  <2>1. before'[1] = cands /\ before'[2] = assess /\ before'[3] = result BY <1>1 DEF tables
  <2> QED BY <1>1, <2>1 DEF IInv, TableInv, tables
<1>3. PICK said \in Parses :
        LET cond == Merge(Current(said), profile) IN
        \/ End("FOLLOW_UP_REQUIRED")
        \/ /\ pc' = IF kind = "recommendation" THEN "candidate_search" ELSE "check"
           /\ run' = [NoRun EXCEPT !.cond = cond, !.issues = MissingIssues(cond),
                                   !.conflict = Conflicts(Current(said), profile) # {}]
           /\ status' = status
  BY DEF Analyze
<1> DEFINE cond == Merge(Current(said), profile)
<1>4. CASE End("FOLLOW_UP_REQUIRED")
  <2>1. pc' = "ended" /\ run' = NoRun /\ status' = "FOLLOW_UP_REQUIRED" BY <1>4 DEF End
  <2>2. RequestInv' BY <1>1, <2>1 DEF IInv, RequestInv, Statuses, Graph, AfterSearch
  <2>3. InputInv' BY <1>1, <2>1, NoRunHasItsFields DEF IInv, InputInv
  <2>4. CandidateInv' /\ SavedInv' /\ VerdictInv' /\ ShownInv'
    BY <2>1, OutsideOfTheGraph, NoRunHasItsFields DEF AfterSearch
  <2>5. DenialInv' BY <1>1, <2>1 DEF IInv, DenialInv, Graph, AfterSearch
  <2>6. ResultInv' /\ SettledStaysSettled' BY <2>1 DEF ResultInv, SettledStaysSettled
  <2> QED BY <1>2, <2>2, <2>3, <2>4, <2>5, <2>6 DEF IInv
<1>5. CASE /\ pc' = IF kind = "recommendation" THEN "candidate_search" ELSE "check"
           /\ run' = [NoRun EXCEPT !.cond = cond, !.issues = MissingIssues(cond),
                                   !.conflict = Conflicts(Current(said), profile) # {}]
           /\ status' = status
  <2>1. DOMAIN run' = RunFields /\ run'.shown = <<>> /\ run'.cond = cond
    BY <1>5 DEF NoRun, RunFields
  <2>2. RequestInv'
    BY <1>1, <1>5 DEF IInv, RequestInv, Statuses, Graph, AfterSearch
  <2>3. InputInv'
    <3>1. Finitely(cond) BY ConditionIsFinite DEF IInv, InputInv
    <3> QED BY <1>1, <2>1, <3>1 DEF IInv, InputInv
  <2>4. CandidateInv' /\ SavedInv' /\ VerdictInv' /\ ShownInv'
    BY <1>5, <2>1, OutsideOfTheGraph DEF AfterSearch
  <2>5. DenialInv'
    <3> SUFFICES ASSUME "income_status" \in denials
                 PROVE  /\ kind = "recommendation"
                        /\ "income_status" \in DOMAIN selected /\ selected["income_status"] = {"none"}
                        /\ "income_status" \in DOMAIN cond /\ cond["income_status"] = {"none"}
      BY <1>1, <2>1 DEF DenialInv
    <3>1. /\ kind = "recommendation"
          /\ "income_status" \in DOMAIN selected /\ selected["income_status"] = {"none"}
      BY DEF IInv, DenialInv
    <3> QED BY <3>1, DenialReachesTheCondition
  <2>6. ResultInv' /\ SettledStaysSettled' BY <1>5 DEF ResultInv, SettledStaysSettled
  <2> QED BY <1>2, <2>2, <2>3, <2>4, <2>5, <2>6 DEF IInv
<1> QED BY <1>3, <1>4, <1>5

\* Going on to a node leaves the request, the rules and the tables of before alone.
LEMMA GoInv ==
  ASSUME IInv, pc \in Graph, NEW node \in AfterSearch, Go(node),
         DOMAIN run' = RunFields, run'.cond = run.cond
  PROVE  /\ RequestInv' /\ InputInv' /\ DenialInv' /\ ResultInv' /\ SettledStaysSettled'
         /\ UNCHANGED tables => TableInv'
<1>1. /\ pc' = node /\ node \in Graph /\ node \notin {"analyze", "check", "ended"}
      /\ UNCHANGED <<rules, kind, profile, selected, denials, resolved, confirmed, status, before>>
  BY DEF Go, request, Graph, AfterSearch
<1>2. pc \notin {"analyze", "check", "ended"} BY DEF Graph, AfterSearch
<1>3. RequestInv' BY <1>1, <1>2 DEF IInv, RequestInv
<1>4. InputInv' BY <1>1 DEF IInv, InputInv
<1>5. UNCHANGED tables => TableInv' BY <1>1 DEF IInv, TableInv, tables
<1>6. DenialInv' BY <1>1 DEF IInv, DenialInv
<1>7. ResultInv' /\ SettledStaysSettled' BY <1>1 DEF ResultInv, SettledStaysSettled
<1> QED BY <1>3, <1>4, <1>5, <1>6, <1>7

\* Behind the filter the candidates stay as they are.
LEMMA CandidatesStay ==
  ASSUME IInv, pc \in AfterFilter, rules' = rules,
         run'.cond = run.cond, run'.rows = run.rows, run'.kept = run.kept
  PROVE  CandidateInv'
BY DEF IInv, CandidateInv, AfterFilter

\* What the search finds are policies.
LEMMA CandidateSearchInv ==
  ASSUME IInv, CandidateSearch PROVE IInv'
<1>1. PICK s \in Searches : run' = [run EXCEPT !.rows = Rows(s, VectorHits(s, run.cond))]
  BY DEF CandidateSearch
<1> DEFINE rows == Rows(s, VectorHits(s, run.cond))
<1>2. pc = "candidate_search" /\ Go("rule_filter") /\ UNCHANGED tables BY DEF CandidateSearch
<1>3. DOMAIN run = RunFields /\ run.shown = <<>>
  BY <1>2 DEF IInv, InputInv, ShownInv, AfterRerank
<1>4. /\ DOMAIN run' = RunFields /\ run'.cond = run.cond /\ run'.shown = <<>> /\ run'.rows = rows
  BY <1>1, <1>3 DEF RunFields
<1>5. pc \in Graph /\ "rule_filter" \in AfterSearch BY <1>2 DEF Graph, AfterSearch
<1>6. RequestInv' /\ InputInv' /\ TableInv' /\ DenialInv' /\ ResultInv' /\ SettledStaysSettled'
  BY <1>2, <1>4, <1>5, GoInv
<1>7. DOMAIN rows \subseteq Policies /\ \A p \in DOMAIN rows : rows[p].vector \in Nat
  BY SearchAssumption DEF Rows, VectorHits
<1>8. pc' = "rule_filter" BY <1>2 DEF Go
<1>9. CandidateInv'
  <2> HIDE DEF rows
  <2> QED BY <1>4, <1>7, <1>8 DEF CandidateInv, AfterSearch, AfterFilter
<1>10. SavedInv' /\ VerdictInv'
  BY <1>8 DEF SavedInv, VerdictInv, AfterSearch, AfterFilter, AfterSave, AfterJudgement, AfterAssessment
<1>11. ShownInv'
  BY <1>4, <1>8 DEF ShownInv, AfterSearch, AfterFilter, AfterSave, AfterJudgement, AfterAssessment,
                    AfterBase, AfterRerank
<1> QED BY <1>6, <1>9, <1>10, <1>11 DEF IInv

\* What the filter keeps is as the rules of now make it.
LEMMA RuleFilterInv ==
  ASSUME IInv, RuleFilter PROVE IInv'
<1> DEFINE found == [p \in DOMAIN run.rows |-> Candidate(p, run.cond, rules[p], run.rows[p])]
           kept == [p \in {q \in DOMAIN found : found[q].kept} |-> found[p]]
<1>1. /\ pc = "rule_filter" /\ Go("candidate_save") /\ UNCHANGED tables
      /\ run' = [run EXCEPT !.kept = kept]
  BY DEF RuleFilter
<1>2. DOMAIN kept \subseteq DOMAIN run.rows
      /\ \A p \in DOMAIN kept : kept[p] = Candidate(p, run.cond, rules[p], run.rows[p])
  <2> HIDE DEF Candidate
  <2> QED OBVIOUS
<1> HIDE DEF kept
<1>3. DOMAIN run = RunFields /\ run.shown = <<>>
  BY <1>1 DEF IInv, InputInv, ShownInv, AfterRerank
<1>4. /\ DOMAIN run' = RunFields /\ run'.cond = run.cond /\ run'.shown = <<>>
      /\ run'.rows = run.rows /\ run'.kept = kept
  BY <1>1, <1>3 DEF RunFields
<1>5. pc \in Graph /\ "candidate_save" \in AfterSearch BY <1>1 DEF Graph, AfterSearch
<1>6. RequestInv' /\ InputInv' /\ TableInv' /\ DenialInv' /\ ResultInv' /\ SettledStaysSettled'
  BY <1>1, <1>4, <1>5, GoInv
<1>7. pc' = "candidate_save" /\ rules' = rules BY <1>1 DEF Go
<1>8. CandidateInv'
  <2>1. DOMAIN run.rows \subseteq Policies /\ \A p \in DOMAIN run.rows : run.rows[p].vector \in Nat
    BY <1>1 DEF IInv, CandidateInv, AfterSearch
  <2> QED BY <1>2, <1>4, <1>7, <2>1 DEF CandidateInv
<1>9. SavedInv' /\ VerdictInv'
  BY <1>7 DEF SavedInv, VerdictInv, AfterSearch, AfterFilter, AfterSave, AfterJudgement, AfterAssessment
<1>10. ShownInv'
  BY <1>4, <1>7 DEF ShownInv, AfterSearch, AfterFilter, AfterSave, AfterJudgement, AfterAssessment,
                    AfterBase, AfterRerank
<1> QED BY <1>6, <1>8, <1>9, <1>10 DEF IInv

\* Every candidate has a status and its scores.
LEMMA KeptIsTyped ==
  ASSUME IInv, pc \in AfterFilter
  PROVE  /\ Scored(run.kept)
         /\ \A p \in DOMAIN run.kept : /\ run.kept[p].status \in {"CANDIDATE", "UNCERTAIN", "EXCLUDED"}
                                       /\ run.kept[p].score \in Score
<1>1. /\ DOMAIN run.rows \subseteq Policies /\ \A p \in DOMAIN run.rows : run.rows[p].vector \in Nat
      /\ DOMAIN run.kept \subseteq DOMAIN run.rows
      /\ \A p \in DOMAIN run.kept : run.kept[p] = Candidate(p, run.cond, rules[p], run.rows[p])
  BY DEF IInv, CandidateInv, AfterFilter
<1>2. ASSUME NEW p \in DOMAIN run.kept
      PROVE  /\ p \in Policies
             /\ run.kept[p].status \in {"CANDIDATE", "UNCERTAIN", "EXCLUDED"}
             /\ run.kept[p].score \in Score /\ run.kept[p].search \in Nat
  <2>1. p \in Policies /\ run.rows[p].vector \in Nat BY <1>1
  <2>2. \A f \in DOMAIN run.cond : IsFiniteSet(run.cond[f]) BY DEF IInv, InputInv, Finitely
  <2>3. IsFiniteSet(rules[p]) BY <2>1, RuleAssumption DEF IInv, InputInv
  <2> DEFINE k == Candidate(p, run.cond, rules[p], run.rows[p])
  <2>4. k.status \in {"CANDIDATE", "UNCERTAIN", "EXCLUDED"} /\ k.score \in Score /\ k.search \in Nat
    BY <2>1, <2>2, <2>3, CandidateType
  <2>5. run.kept[p] = k BY <1>1
  <2> HIDE DEF k
  <2> QED BY <2>1, <2>4, <2>5
<1>3. \A p \in DOMAIN run.kept : run.kept[p].score \in Int /\ run.kept[p].search \in Int
  BY <1>2, ScoresAreNumbers
<1> QED BY <1>2, <1>3 DEF Scored

\* The rows saved are the candidates of this round.
LEMMA CandidateSaveInv ==
  ASSUME IInv, CandidateSave PROVE IInv'
<1>1. /\ pc = "candidate_save" /\ Go("policy_assessment") /\ UNCHANGED <<run, assess, result, checked>>
      /\ cands' = [p \in DOMAIN run.kept |->
                     [status |-> run.kept[p].status, score |-> run.kept[p].score, rerank |-> {}]]
  BY DEF CandidateSave
<1>2. pc \in Graph /\ pc \in AfterFilter /\ "policy_assessment" \in AfterSearch
  BY <1>1 DEF Graph, AfterSearch, AfterFilter
<1>3. DOMAIN run' = RunFields /\ run' = run BY <1>1 DEF IInv, InputInv
<1>4. RequestInv' /\ InputInv' /\ DenialInv' /\ ResultInv' /\ SettledStaysSettled'
  BY <1>1, <1>2, <1>3, GoInv
<1>5. pc' = "policy_assessment" /\ rules' = rules /\ before' = before BY <1>1 DEF Go
<1>6. CandidateInv' BY <1>2, <1>3, <1>5, CandidatesStay
<1>7. DOMAIN cands' = DOMAIN run.kept
      /\ \A p \in DOMAIN cands' : /\ cands'[p].status = run.kept[p].status
                                  /\ cands'[p].score = run.kept[p].score
                                  /\ "rerank" \in DOMAIN cands'[p] /\ cands'[p].rerank = {}
  BY <1>1
<1>8. TableInv'
  <2>1. Scored(run.kept)
        /\ \A p \in DOMAIN run.kept : /\ run.kept[p].status \in {"CANDIDATE", "UNCERTAIN", "EXCLUDED"}
                                      /\ run.kept[p].score \in Score
    BY <1>2, KeptIsTyped
  <2>2. TablesTyped(cands', assess', result')
    BY <1>1, <1>7, <2>1 DEF IInv, TableInv, TablesTyped, Scored
  <2> QED BY <1>5, <2>2 DEF IInv, TableInv
<1>9. SavedInv' BY <1>3, <1>5, <1>7 DEF SavedInv, AfterSave, AfterFilter, AfterSearch
<1>10. VerdictInv'
  BY <1>5 DEF VerdictInv, AfterSearch, AfterFilter, AfterSave, AfterJudgement, AfterAssessment
<1>11. ShownInv'
  <2>1. run.shown = <<>> BY <1>1 DEF IInv, ShownInv, AfterRerank
  <2> QED BY <1>3, <1>5, <2>1 DEF ShownInv, AfterSearch, AfterFilter, AfterSave, AfterJudgement,
                                  AfterAssessment, AfterBase, AfterRerank
<1> QED BY <1>4, <1>6, <1>8, <1>9, <1>10, <1>11 DEF IInv

\* The rows saved stay while no node writes them.
LEMMA RowsStay ==
  ASSUME IInv, pc \in AfterSave \ {"rerank_save", "finalize_result"}, pc' # "finalize_result",
         cands' = cands, run'.kept = run.kept
  PROVE  SavedInv'
BY DEF IInv, SavedInv

\* An assessment is one of five, whoever gives it.
LEMMA PolicyAssessmentInv ==
  ASSUME IInv, PolicyAssessment PROVE IInv'
<1>1. PICK j \in Judgements :
        run' = [run EXCEPT !.verdicts = [p \in DOMAIN run.kept |->
                  IF p \in JudgeTargets \cap DOMAIN j THEN j[p] ELSE RuleVerdicts[p]]]
  BY DEF PolicyAssessment
<1> DEFINE verdicts == [p \in DOMAIN run.kept |->
                          IF p \in JudgeTargets \cap DOMAIN j THEN j[p] ELSE RuleVerdicts[p]]
<1>2. /\ pc = "policy_assessment" /\ Go("assessment_save") /\ UNCHANGED tables
  BY DEF PolicyAssessment
<1>3. pc \in Graph /\ pc \in AfterFilter /\ "assessment_save" \in AfterSearch
  BY <1>2 DEF Graph, AfterSearch, AfterFilter
<1>4. DOMAIN verdicts = DOMAIN run.kept /\ \A p \in DOMAIN verdicts : verdicts[p] \in Assessments
  <2>1. \A p \in DOMAIN j : j[p] \in Assessments BY AnswerAssumption
  <2>2. \A k, c, i, b : Assess(k, c, i, b) \in Assessments BY DEF Assess, Assessments
  <2>3. \A p \in DOMAIN run.kept : RuleVerdicts[p] \in Assessments BY <2>2 DEF RuleVerdicts
  <2> QED BY <2>1, <2>3
<1> HIDE DEF verdicts
<1>5. DOMAIN run = RunFields /\ run.shown = <<>>
  BY <1>2 DEF IInv, InputInv, ShownInv, AfterRerank
<1>6. /\ DOMAIN run' = RunFields /\ run'.cond = run.cond /\ run'.shown = <<>>
      /\ run'.rows = run.rows /\ run'.kept = run.kept /\ run'.verdicts = verdicts
  BY <1>1, <1>5 DEF RunFields, verdicts
<1>7. RequestInv' /\ InputInv' /\ TableInv' /\ DenialInv' /\ ResultInv' /\ SettledStaysSettled'
  BY <1>2, <1>3, <1>6, GoInv
<1>8. pc' = "assessment_save" /\ rules' = rules /\ cands' = cands BY <1>2 DEF Go, tables
<1>9. CandidateInv' BY <1>3, <1>6, <1>8, CandidatesStay
<1>10. SavedInv'
  <2>1. pc \in AfterSave \ {"rerank_save", "finalize_result"}
    BY <1>2 DEF AfterSave, AfterFilter, AfterSearch
  <2> QED BY <1>6, <1>8, <2>1, RowsStay
<1>11. VerdictInv' BY <1>4, <1>6, <1>8 DEF VerdictInv, AfterAssessment
<1>12. ShownInv'
  BY <1>6, <1>8 DEF ShownInv, AfterSearch, AfterFilter, AfterSave, AfterJudgement, AfterAssessment,
                    AfterBase, AfterRerank
<1> QED BY <1>7, <1>9, <1>10, <1>11, <1>12 DEF IInv

\* The assessments saved are those of this round.
LEMMA AssessmentSaveInv ==
  ASSUME IInv, AssessmentSave PROVE IInv'
<1>1. /\ pc = "assessment_save" /\ assess' = run.verdicts
      /\ Go("build_result") /\ UNCHANGED <<run, cands, result, checked>>
  BY DEF AssessmentSave
<1>2. /\ pc \in Graph /\ pc \in AfterFilter /\ "build_result" \in AfterSearch
      /\ pc \in AfterSave \ {"rerank_save", "finalize_result"}
  BY <1>1 DEF Graph, AfterSearch, AfterFilter, AfterSave
<1>3. DOMAIN run' = RunFields /\ run' = run BY <1>1 DEF IInv, InputInv
<1>4. RequestInv' /\ InputInv' /\ DenialInv' /\ ResultInv' /\ SettledStaysSettled'
  BY <1>1, <1>2, <1>3, GoInv
<1>5. pc' = "build_result" /\ rules' = rules /\ before' = before BY <1>1 DEF Go
<1>6. CandidateInv' BY <1>2, <1>3, <1>5, CandidatesStay
<1>7. SavedInv' BY <1>1, <1>2, <1>5, RowsStay
<1>8. DOMAIN run.verdicts = DOMAIN run.kept /\ \A p \in DOMAIN run.verdicts : run.verdicts[p] \in Assessments
  BY <1>1 DEF IInv, VerdictInv, AfterSearch, AfterFilter, AfterSave, AfterJudgement
<1>9. TableInv'
  <2>1. DOMAIN run.kept \subseteq Policies BY <1>2, KeptIsTyped DEF Scored
  <2>2. TablesTyped(cands', assess', result')
    BY <1>1, <1>8, <2>1 DEF IInv, TableInv, TablesTyped
  <2> QED BY <1>5, <2>2 DEF IInv, TableInv
<1>10. VerdictInv' BY <1>1, <1>8 DEF VerdictInv
<1>11. ShownInv'
  <2>1. run.shown = <<>> BY <1>1 DEF IInv, ShownInv, AfterRerank
  <2> QED BY <1>3, <1>5, <2>1 DEF ShownInv, AfterSearch, AfterFilter, AfterSave, AfterJudgement,
                                  AfterAssessment, AfterBase, AfterRerank
<1> QED BY <1>4, <1>6, <1>7, <1>9, <1>10, <1>11 DEF IInv

\* Behind the judgement the verdicts stay, in the run and in the table.
LEMMA VerdictsStay ==
  ASSUME IInv, pc \in AfterAssessment, assess' = assess,
         run'.kept = run.kept, run'.verdicts = run.verdicts
  PROVE  VerdictInv'
BY DEF IInv, VerdictInv, AfterAssessment

\* The base result is chosen among the eligible.
LEMMA BuildResultInv ==
  ASSUME IInv, BuildResult PROVE IInv'
<1>1. PICK found \in SUBSET {p \in DOMAIN run.kept : Text[p].evidence} :
        run' = [run EXCEPT
          !.raw = RawScores(run.kept, found),
          !.base = BaseResult(run.kept, RawScores(run.kept, found), run.verdicts, denials)]
  BY DEF BuildResult
<1> DEFINE raw == RawScores(run.kept, found)
           base == BaseResult(run.kept, raw, run.verdicts, denials)
<1>2. pc = "build_result" /\ Go("llm_rerank") /\ UNCHANGED tables BY DEF BuildResult
<1>3. /\ pc \in Graph /\ pc \in AfterFilter /\ "llm_rerank" \in AfterSearch
      /\ pc \in AfterSave \ {"rerank_save", "finalize_result"} /\ pc \in AfterAssessment
  BY <1>2 DEF Graph, AfterSearch, AfterFilter, AfterSave, AfterJudgement, AfterAssessment
<1>4. DOMAIN run = RunFields /\ run.shown = <<>>
  BY <1>2 DEF IInv, InputInv, ShownInv, AfterRerank
<1>5. Scored(run.kept) BY <1>3, KeptIsTyped
<1>6. \A p \in DOMAIN run.kept : raw[p] \in Int
  <2> SUFFICES ASSUME NEW p \in DOMAIN run.kept PROVE raw[p] \in Int
    OBVIOUS
  <2>1. run.kept[p].score \in Int BY <1>5 DEF Scored
  <2> QED BY <2>1 DEF RawScores, Smaller
<1> HIDE DEF raw
<1>7. base \in Seq(Eligible(run.kept, run.verdicts))
      /\ \A i, j \in DOMAIN base : base[i] = base[j] => i = j
  BY <1>5, <1>6, BaseResultType
<1> HIDE DEF base
<1>8. /\ DOMAIN run' = RunFields /\ run'.cond = run.cond /\ run'.shown = <<>>
      /\ run'.rows = run.rows /\ run'.kept = run.kept /\ run'.verdicts = run.verdicts
      /\ run'.base = base /\ run'.raw = raw
  BY <1>1, <1>4 DEF RunFields, base, raw
<1>9. RequestInv' /\ InputInv' /\ TableInv' /\ DenialInv' /\ ResultInv' /\ SettledStaysSettled'
  BY <1>2, <1>3, <1>8, GoInv
<1>10. pc' = "llm_rerank" /\ rules' = rules /\ cands' = cands /\ assess' = assess
  BY <1>2 DEF Go, tables
<1>11. CandidateInv' BY <1>3, <1>8, <1>10, CandidatesStay
<1>12. SavedInv' BY <1>3, <1>8, <1>10, RowsStay
<1>13. VerdictInv' BY <1>3, <1>8, <1>10, VerdictsStay
<1>14. ShownInv' BY <1>6, <1>7, <1>8, <1>10 DEF ShownInv, AfterRerank
<1> QED BY <1>9, <1>11, <1>12, <1>13, <1>14 DEF IInv

\* A list of elements of a set is one of any larger set.
LEMMA LargerSet ==
  ASSUME NEW S, NEW T, S \subseteq T, NEW s \in Seq(S)
  PROVE  s \in Seq(T)
<1>1. \A i \in 1..Len(s) : s[i] \in T OBVIOUS
<1> QED BY <1>1

\* The list shown is made of the base result, whatever the ranking model answers.
LEMMA LlmRerankInv ==
  ASSUME IInv, LlmRerank PROVE IInv'
<1>1. PICK ranking \in IF run.base = <<>> THEN {<<>>} ELSE Rankings :
        LET out == Reranked(ranking, run.base, run.kept, run.raw, denials) IN
        run' = [run EXCEPT !.shown = out.shown, !.scores = out.scores]
  BY DEF LlmRerank
<1> DEFINE out == Reranked(ranking, run.base, run.kept, run.raw, denials)
           E == Eligible(run.kept, run.verdicts)
           P == ValuesOf(run.base)
<1>2. pc = "llm_rerank" /\ Go("rerank_save") /\ UNCHANGED tables BY DEF LlmRerank
<1>3. /\ pc \in Graph /\ pc \in AfterFilter /\ "rerank_save" \in AfterSearch
      /\ pc \in AfterSave \ {"rerank_save", "finalize_result"} /\ pc \in AfterAssessment
      /\ pc \in AfterBase
  BY <1>2 DEF Graph, AfterSearch, AfterFilter, AfterSave, AfterJudgement, AfterAssessment, AfterBase
<1>4. DOMAIN run = RunFields BY DEF IInv, InputInv
<1>5. /\ run.base \in Seq(E)
      /\ \A i, j \in DOMAIN run.base : run.base[i] = run.base[j] => i = j
      /\ \A p \in DOMAIN run.kept : run.raw[p] \in Int
  BY <1>3 DEF IInv, ShownInv
<1>6. run.base \in Seq(P) /\ P \subseteq E /\ E \subseteq DOMAIN run.kept
  <2>1. \A i \in 1..Len(run.base) : run.base[i] \in P /\ run.base[i] \in E BY <1>5 DEF ValuesOf
  <2>2. E \subseteq DOMAIN run.kept BY DEF Eligible
  <2> HIDE DEF E
  <2>3. P \subseteq E BY <1>5, <2>1 DEF ValuesOf
  <2> HIDE DEF P
  <2> QED BY <1>5, <2>1, <2>2, <2>3
<1>7. ranking \in Seq(RankingRow)
  <2>1. Rankings \subseteq Seq(RankingRow) BY AnswerAssumption DEF RankingRow
  <2>2. ranking = <<>> \/ ranking \in Rankings OBVIOUS
  <2>3. <<>> \in Seq(RankingRow) OBVIOUS
  <2> QED BY <2>1, <2>2, <2>3
<1>8. /\ Presentable(out.shown, P, run.kept, denials)
      /\ \A p \in DOMAIN out.scores : \E i \in DOMAIN out.shown : out.shown[i].policy = p
  <2>1. \A p \in P : run.raw[p] \in Int BY <1>5, <1>6
  <2>2. P = ValuesOf(run.base) /\ run.base \in Seq(P) BY <1>6
  <2>3. \A i, j \in DOMAIN run.base : run.base[i] = run.base[j] => i = j BY <1>5
  <2> HIDE DEF P
  <2>4. Presentable(out.shown, P, run.kept, denials) BY <1>7, <2>1, <2>2, <2>3, RerankedType
  <2>5. \A p \in DOMAIN out.scores : \E i \in DOMAIN out.shown : out.shown[i].policy = p
    BY <1>7, <2>1, <2>2, <2>3, RerankedType
  <2> QED BY <2>4, <2>5
<1> HIDE DEF out, E, P
<1>9. Presentable(out.shown, E, run.kept, denials)
  <2>1. out.shown \in Seq(ShownRow(P)) BY <1>8 DEF Presentable
  <2>2. ShownRow(P) \subseteq ShownRow(E) BY <1>6 DEF ShownRow
  <2>3. out.shown \in Seq(ShownRow(E)) BY <2>1, <2>2, LargerSet
  <2> QED BY <1>8, <2>3 DEF Presentable
<1>10. /\ DOMAIN run' = RunFields /\ run'.cond = run.cond /\ run'.base = run.base
       /\ run'.rows = run.rows /\ run'.kept = run.kept /\ run'.verdicts = run.verdicts
       /\ run'.raw = run.raw /\ run'.shown = out.shown /\ run'.scores = out.scores
  BY <1>1, <1>4 DEF RunFields, out
<1>11. RequestInv' /\ InputInv' /\ TableInv' /\ DenialInv' /\ ResultInv' /\ SettledStaysSettled'
  BY <1>2, <1>3, <1>10, GoInv
<1>12. pc' = "rerank_save" /\ rules' = rules /\ cands' = cands /\ assess' = assess /\ denials' = denials
  BY <1>2 DEF Go, tables, request
<1>13. CandidateInv' BY <1>3, <1>10, <1>12, CandidatesStay
<1>14. SavedInv' BY <1>3, <1>10, <1>12, RowsStay
<1>15. VerdictInv' BY <1>3, <1>10, <1>12, VerdictsStay
<1>16. ShownInv' BY <1>5, <1>8, <1>9, <1>10, <1>12 DEF ShownInv, AfterRerank, E
<1> QED BY <1>11, <1>13, <1>14, <1>15, <1>16 DEF IInv

\* The rerank scores saved are those of the run.
LEMMA RerankSaveInv ==
  ASSUME IInv, RerankSave PROVE IInv'
<1>1. /\ pc = "rerank_save" /\ Go("finalize_result") /\ UNCHANGED <<run, assess, result, checked>>
      /\ cands' = IF run.scores = Empty THEN cands
                  ELSE [p \in DOMAIN cands |-> [cands[p] EXCEPT
                          !.rerank = IF p \in DOMAIN run.scores THEN {run.scores[p]} ELSE {}]]
  BY DEF RerankSave
<1>2. /\ pc \in Graph /\ pc \in AfterFilter /\ "finalize_result" \in AfterSearch
      /\ pc \in AfterSave \ {"finalize_result"} /\ pc \in AfterAssessment
  BY <1>1 DEF Graph, AfterSearch, AfterFilter, AfterSave, AfterJudgement, AfterAssessment
<1>3. DOMAIN run' = RunFields /\ run' = run BY <1>1 DEF IInv, InputInv
<1>4. RequestInv' /\ InputInv' /\ DenialInv' /\ ResultInv' /\ SettledStaysSettled'
  BY <1>1, <1>2, <1>3, GoInv
<1>5. pc' = "finalize_result" /\ rules' = rules /\ before' = before /\ denials' = denials
  BY <1>1 DEF Go, request
<1>6. CandidateInv' BY <1>2, <1>3, <1>5, CandidatesStay
<1>7. VerdictInv' BY <1>1, <1>2, <1>3, VerdictsStay
<1>8. /\ DOMAIN cands = DOMAIN run.kept
      /\ \A p \in DOMAIN cands : /\ cands[p].status = run.kept[p].status
                                 /\ cands[p].score = run.kept[p].score
                                 /\ "rerank" \in DOMAIN cands[p] /\ cands[p].rerank = {}
  BY <1>2 DEF IInv, SavedInv
<1>9. /\ DOMAIN cands' = DOMAIN cands
      /\ \A p \in DOMAIN cands' : /\ cands'[p].status = cands[p].status
                                  /\ cands'[p].score = cands[p].score
                                  /\ cands'[p].rerank # {} => p \in DOMAIN run.scores
  BY <1>1, <1>8
<1>10. TableInv'
  <2>1. TablesTyped(cands', assess', result')
    BY <1>1, <1>9 DEF IInv, TableInv, TablesTyped
  <2> QED BY <1>5, <2>1 DEF IInv, TableInv
<1>11. SavedInv' BY <1>3, <1>5, <1>8, <1>9 DEF SavedInv
<1>12. ShownInv' BY <1>1, <1>3, <1>5 DEF IInv, ShownInv, AfterRerank, AfterBase, AfterAssessment,
                                     AfterJudgement, AfterSave, AfterFilter, AfterSearch
<1> QED BY <1>4, <1>6, <1>7, <1>10, <1>11, <1>12 DEF IInv

\* A presentable list shows policies of the set it is made of.
LEMMA ShownIsOf ==
  ASSUME NEW shown, NEW P, NEW kept, NEW topics, Presentable(shown, P, kept, topics)
  PROVE  \A i \in DOMAIN shown : shown[i].policy \in P
<1> DEFINE T == ShownRow(P)
<1>1. \A x \in T : x.policy \in P BY DEF ShownRow
<1>2. shown \in Seq(T) BY DEF Presentable
<1> HIDE DEF T
<1>3. \A i \in DOMAIN shown : shown[i] \in T BY <1>2
<1> QED BY <1>1, <1>3

\* What completes the recommendation is what was shown.
LEMMA FinalizeInv ==
  ASSUME IInv, Finalize PROVE IInv'
<1>1. /\ pc = "finalize_result"
      /\ UNCHANGED <<rules, kind, profile, selected, denials, resolved, confirmed, cands, assess, checked, before>>
      /\ pc' = "ended" /\ run' = NoRun
      /\ \/ status' = "FOLLOW_UP_REQUIRED" /\ result' = result
         \/ status' = "COMPLETED" /\ result' = run.shown
  BY DEF Finalize, End
<1>2. /\ pc \in Graph /\ pc \in AfterAssessment /\ pc \in AfterRerank /\ pc \in AfterSave
      /\ pc \in AfterJudgement
  BY <1>1 DEF Graph, AfterSearch, AfterFilter, AfterSave, AfterJudgement, AfterAssessment, AfterRerank
<1>3. kind = "recommendation" BY <1>2 DEF IInv, RequestInv
<1>4. Presentable(run.shown, Eligible(run.kept, run.verdicts), run.kept, denials)
      /\ \A p \in DOMAIN run.scores : \E i \in DOMAIN run.shown : run.shown[i].policy = p
  BY <1>2 DEF IInv, ShownInv
<1>5. RequestInv' BY <1>1 DEF IInv, RequestInv, Statuses, Graph, AfterSearch
<1>6. InputInv' BY <1>1, NoRunHasItsFields DEF IInv, InputInv
<1>7. TableInv'
  <2>1. Len(run.shown) <= ResultLimit BY <1>4 DEF Presentable
  <2> QED BY <1>1, <2>1 DEF IInv, TableInv, TablesTyped
<1>8. CandidateInv' /\ SavedInv' /\ VerdictInv' /\ ShownInv'
  BY <1>1, OutsideOfTheGraph, NoRunHasItsFields DEF AfterSearch
<1>9. DenialInv' BY <1>1 DEF IInv, DenialInv, Graph, AfterSearch
<1>10. ASSUME status' = "COMPLETED" PROVE ResultInv'
  <2>1. result' = run.shown BY <1>1, <1>10
  <2>2. Distinct(run.shown) BY <1>4 DEF Presentable
  <2>3. ASSUME NEW i \in DOMAIN run.shown
        PROVE  LET p == run.shown[i].policy IN
               /\ p \in DOMAIN cands /\ cands[p].status # "EXCLUDED"
               /\ p \in DOMAIN assess /\ assess[p] # "NOT_MATCH"
    <3> DEFINE p == run.shown[i].policy
    <3>1. p \in Eligible(run.kept, run.verdicts)
      <4>1. \A n \in DOMAIN run.shown : run.shown[n].policy \in Eligible(run.kept, run.verdicts)
        BY <1>4, ShownIsOf
      <4> QED BY <4>1
    <3>2. p \in DOMAIN run.kept /\ run.kept[p].status # "EXCLUDED" /\ run.verdicts[p] # "NOT_MATCH"
      BY <3>1 DEF Eligible
    <3>3. DOMAIN cands = DOMAIN run.kept /\ \A q \in DOMAIN cands : cands[q].status = run.kept[q].status
      BY <1>2 DEF IInv, SavedInv
    <3>4. assess = run.verdicts /\ DOMAIN run.verdicts = DOMAIN run.kept
      BY <1>2 DEF IInv, VerdictInv
    <3> HIDE DEF p
    <3>5. p \in DOMAIN cands /\ cands[p].status # "EXCLUDED" /\ p \in DOMAIN assess /\ assess[p] # "NOT_MATCH"
      BY <3>2, <3>3, <3>4
    <3> QED BY <3>5 DEF p
  <2>4. \A p \in DOMAIN cands : cands[p].rerank # {} => p \in DOMAIN run.scores
    BY <1>1 DEF IInv, SavedInv
  <2> QED BY <1>1, <1>4, <2>1, <2>2, <2>3, <2>4 DEF ResultInv
<1>11. ResultInv' BY <1>1, <1>10 DEF ResultInv
<1>12. SettledStaysSettled' BY <1>1, <1>3 DEF SettledStaysSettled
<1> QED BY <1>5, <1>6, <1>7, <1>8, <1>9, <1>11, <1>12 DEF IInv

\* An answered point is not among the open ones of the check that reads the answer.
LEMMA ConfirmedSettles ==
  ASSUME NEW r, NEW x \in DOMAIN confirmed, confirmed[x] # "unknown"
  PROVE  x \notin Confirmed(r).missing /\ x \notin Confirmed(r).manual
<1>1. Flipped(x, confirmed[x]) # "unknown" BY DEF Flipped
<1> QED BY <1>1 DEF Confirmed, Result

LEMMA CheckInv ==
  ASSUME IInv, Check PROVE IInv'
<1> DEFINE r == Confirmed(Filter(run.cond, rules[Target]))
           missing == r.missing \cup {{"input", f} : f \in run.issues}
           manual == r.manual \cup Ambiguous(run.cond)
<1>1. /\ pc = "check" /\ checked' = Result(r.matched, missing, r.failed, manual)
      /\ assess' = [p \in {Target} |->
                      EligibilityStatus(missing, [r EXCEPT !.manual = manual], run.conflict)]
      /\ status' \in {"FOLLOW_UP_REQUIRED", "COMPLETED"} /\ pc' = "ended" /\ run' = NoRun
      /\ UNCHANGED <<rules, kind, profile, selected, denials, resolved, confirmed, cands, result, before>>
  BY DEF Check, End
<1>2. kind # "recommendation" BY <1>1 DEF IInv, RequestInv
<1>3. RequestInv' BY <1>1 DEF IInv, RequestInv, Statuses, Graph, AfterSearch
<1>4. InputInv' BY <1>1, NoRunHasItsFields DEF IInv, InputInv
<1>5. TableInv'
  <2>1. \A a, b, c : EligibilityStatus(a, b, c) \in Assessments BY DEF EligibilityStatus, Assessments
  <2>2. DOMAIN assess' = {Target} /\ \A p \in DOMAIN assess' : assess'[p] \in Assessments
    BY <1>1, <2>1
  <2>3. TablesTyped(cands', assess', result')
    BY <1>1, <2>2, TargetIsPolicy DEF IInv, TableInv, TablesTyped
  <2> QED BY <1>1, <2>3 DEF IInv, TableInv
<1>6. CandidateInv' /\ SavedInv' /\ VerdictInv' /\ ShownInv'
  BY <1>1, OutsideOfTheGraph, NoRunHasItsFields DEF AfterSearch
<1>7. DenialInv' BY <1>1 DEF IInv, DenialInv, Graph, AfterSearch
<1>8. ResultInv' BY <1>1, <1>2 DEF ResultInv
<1>9. SettledStaysSettled'
  <2> SUFFICES ASSUME NEW x \in DOMAIN confirmed, confirmed[x] # "unknown",
                      x \cap {"input", "unknown"} = {}
               PROVE  x \notin missing \cup manual
    BY <1>1 DEF SettledStaysSettled, Result
  <2>1. x \notin r.missing /\ x \notin r.manual BY ConfirmedSettles
  <2>2. \A f : x # {"input", f} /\ x # {"unknown", f} OBVIOUS
  <2> QED BY <2>1, <2>2 DEF Ambiguous
<1> QED BY <1>3, <1>4, <1>5, <1>6, <1>7, <1>8, <1>9 DEF IInv

\* A denied benefit is put among the selected conditions.
LEMMA AnswerInv ==
  ASSUME IInv, NEW topics \in SUBSET Categories, Answer(topics) PROVE IInv'
<1>1. /\ status = "FOLLOW_UP_REQUIRED" /\ kind = "recommendation"
      /\ denials' = topics /\ selected' = Applied(topics)
      /\ resolved' = TRUE /\ status' = "PROCESSING" /\ pc' = "analyze"
      /\ UNCHANGED <<rules, kind, profile, confirmed, cands, assess, result, checked, run, before>>
  BY DEF Answer, tables
<1>2. pc = "ended" /\ run = NoRun BY <1>1 DEF IInv, RequestInv
<1>3. RequestInv' BY <1>1, <1>2 DEF IInv, RequestInv, Statuses, Graph, AfterSearch
<1>4. InputInv'
  <2>1. \A f \in DOMAIN selected : IsFiniteSet(selected[f]) BY DEF IInv, InputInv, Finitely
  <2>2. IsFiniteSet({"none"}) BY FS_Singleton
  <2>3. Finitely(selected') BY <1>1, <2>1, <2>2 DEF Applied, Finitely
  <2> QED BY <1>1, <2>3 DEF IInv, InputInv
<1>5. TableInv' BY <1>1 DEF IInv, TableInv
<1>6. CandidateInv' /\ SavedInv' /\ VerdictInv' /\ ShownInv'
  BY <1>1, <1>2, OutsideOfTheGraph, NoRunHasItsFields DEF AfterSearch
<1>7. DenialInv' BY <1>1 DEF DenialInv, Applied, Graph, AfterSearch
<1>8. ResultInv' /\ SettledStaysSettled' BY <1>1 DEF ResultInv, SettledStaysSettled
<1> QED BY <1>3, <1>4, <1>5, <1>6, <1>7, <1>8 DEF IInv

LEMMA ConfirmInv ==
  ASSUME IInv, NEW point, NEW answer, Confirm(point, answer) PROVE IInv'
<1>1. /\ status # "PROCESSING" /\ kind # "recommendation"
      /\ resolved' = TRUE /\ status' = "PROCESSING" /\ pc' = "analyze"
      /\ UNCHANGED <<rules, kind, profile, selected, denials, cands, assess, result, checked, run, before>>
  BY DEF Confirm, tables
<1>2. pc = "ended" /\ run = NoRun BY <1>1 DEF IInv, RequestInv
<1>3. RequestInv' BY <1>1, <1>2 DEF IInv, RequestInv, Statuses, Graph, AfterSearch
<1>4. InputInv' BY <1>1 DEF IInv, InputInv
<1>5. TableInv' BY <1>1 DEF IInv, TableInv
<1>6. CandidateInv' /\ SavedInv' /\ VerdictInv' /\ ShownInv'
  BY <1>1, <1>2, OutsideOfTheGraph, NoRunHasItsFields DEF AfterSearch
<1>7. DenialInv' BY <1>1 DEF IInv, DenialInv
<1>8. ResultInv' /\ SettledStaysSettled' BY <1>1 DEF ResultInv, SettledStaysSettled
<1> QED BY <1>3, <1>4, <1>5, <1>6, <1>7, <1>8 DEF IInv

\* A rollback puts back tables that were right when the transaction began.
LEMMA FailInv ==
  ASSUME IInv, Fail PROVE IInv'
<1>1. /\ cands' = before[1] /\ assess' = before[2] /\ result' = before[3]
      /\ status' = "FAILED" /\ pc' = "ended" /\ run' = NoRun
      /\ UNCHANGED <<rules, kind, profile, selected, denials, resolved, confirmed, before>>
  BY DEF Fail
<1>2. RequestInv' BY <1>1 DEF IInv, RequestInv, Statuses, Graph, AfterSearch
<1>3. InputInv' BY <1>1, NoRunHasItsFields DEF IInv, InputInv
<1>4. TableInv' BY <1>1 DEF IInv, TableInv
<1>5. CandidateInv' /\ SavedInv' /\ VerdictInv' /\ ShownInv'
  BY <1>1, OutsideOfTheGraph, NoRunHasItsFields DEF AfterSearch
<1>6. DenialInv' BY <1>1 DEF IInv, DenialInv, Graph, AfterSearch
<1>7. ResultInv' /\ SettledStaysSettled' BY <1>1 DEF ResultInv, SettledStaysSettled
<1> QED BY <1>2, <1>3, <1>4, <1>5, <1>6, <1>7 DEF IInv

LEMMA StutterInv ==
  ASSUME IInv, UNCHANGED vars PROVE IInv'
<1>1. /\ UNCHANGED <<rules, kind, profile, selected, denials, resolved, confirmed, status>>
      /\ UNCHANGED <<cands, assess, result, checked, pc, run, before>>
  BY DEF vars
<1>2. RequestInv' /\ InputInv' /\ TableInv' BY <1>1 DEF IInv, RequestInv, InputInv, TableInv
<1>3. CandidateInv' /\ SavedInv' /\ VerdictInv' /\ ShownInv'
  BY <1>1 DEF IInv, CandidateInv, SavedInv, VerdictInv, ShownInv
<1>4. DenialInv' /\ ResultInv' /\ SettledStaysSettled'
  BY <1>1 DEF IInv, DenialInv, ResultInv, SettledStaysSettled
<1> QED BY <1>2, <1>3, <1>4 DEF IInv

\* The invariant of the recommendation and of the eligibility check, in every state: what
\* each node leaves for the next ones, from the first candidate to the stored result.
THEOREM InductiveInvariant == Spec => []IInv
<1>1. IInv /\ [Next]_vars => IInv'
  <2> SUFFICES ASSUME IInv, [Next]_vars PROVE IInv'
    OBVIOUS
  <2>1. CASE Node
    BY <2>1, AnalyzeInv, CandidateSearchInv, RuleFilterInv, CandidateSaveInv, PolicyAssessmentInv,
       AssessmentSaveInv, BuildResultInv, LlmRerankInv, RerankSaveInv, FinalizeInv, CheckInv DEF Node
  <2>2. CASE Fail BY <2>2, FailInv
  <2>3. CASE \E topics \in SUBSET Categories : Answer(topics) BY <2>3, AnswerInv
  <2>4. CASE \E point \in checked.missing \cup checked.manual, a \in {"yes", "no", "unknown"} :
               Confirm(point, a)
    BY <2>4, ConfirmInv
  <2>5. CASE UNCHANGED vars BY <2>5, StutterInv
  <2> QED BY <2>1, <2>2, <2>3, <2>4, <2>5 DEF Next
<1> QED BY InitInv, <1>1, PTL DEF Spec

(***************************************************************************)
(* What it promises.                                                       *)
(***************************************************************************)
\* The request's row and the tables the run writes have their types, in every state.
THEOREM TypeCorrect == Spec => []TypeOK
<1>1. IInv => TypeOK
  BY DEF IInv, RequestInv, TableInv, TablesTyped, TypeOK
<1> QED BY <1>1, InductiveInvariant, PTL

\* A policy in the list the run shows is a saved candidate that nothing speaks against.
LEMMA ShownIsCandidate ==
  ASSUME IInv, pc \in AfterRerank
  PROVE  /\ Distinct(run.shown)
         /\ \A i \in DOMAIN run.shown : LET p == run.shown[i].policy IN
              /\ p \in DOMAIN run.kept /\ run.kept[p].status # "EXCLUDED"
              /\ p \in DOMAIN cands /\ cands[p].status # "EXCLUDED"
              /\ p \in DOMAIN assess /\ assess[p] # "NOT_MATCH"
<1>1. Presentable(run.shown, Eligible(run.kept, run.verdicts), run.kept, denials)
  BY DEF IInv, ShownInv
<1>2. \A n \in DOMAIN run.shown : run.shown[n].policy \in Eligible(run.kept, run.verdicts)
  BY <1>1, ShownIsOf
<1>3. Distinct(run.shown) BY <1>1 DEF Presentable
<1>4. DOMAIN cands = DOMAIN run.kept /\ \A q \in DOMAIN cands : cands[q].status = run.kept[q].status
  BY DEF IInv, SavedInv, AfterRerank, AfterSave, AfterFilter, AfterSearch
<1>5. assess = run.verdicts /\ DOMAIN run.verdicts = DOMAIN run.kept
  BY DEF IInv, VerdictInv, AfterRerank, AfterAssessment, AfterJudgement, AfterSave, AfterFilter, AfterSearch
<1>6. \A p \in Eligible(run.kept, run.verdicts) :
        p \in DOMAIN run.kept /\ run.kept[p].status # "EXCLUDED" /\ run.verdicts[p] # "NOT_MATCH"
  BY DEF Eligible
<1> QED BY <1>2, <1>3, <1>4, <1>5, <1>6

\* Whatever the models answer, what is shown or stored are candidates of this round, each
\* once, that neither the rules excluded nor an assessment refused.
THEOREM ShownAreEligible == Spec => []ShownIsEligible
<1>1. ASSUME IInv PROVE ShownIsEligible
  <2>1. CASE pc = "ended"
    BY <1>1, <2>1 DEF IInv, ResultInv, ShownIsEligible, Distinct
  <2>2. CASE pc \in AfterRerank
    <3>1. pc # "ended" BY <2>2 DEF AfterRerank
    <3> QED BY <1>1, <2>2, <3>1, ShownIsCandidate DEF ShownIsEligible, Distinct
  <2>3. CASE pc # "ended" /\ pc \notin AfterRerank
    <3>1. run.shown = <<>> BY <1>1, <2>3 DEF IInv, ShownInv
    <3> QED BY <2>3, <3>1 DEF ShownIsEligible
  <2> QED BY <2>1, <2>2, <2>3
<1> QED BY <1>1, InductiveInvariant, PTL

\* Once the user has denied the benefits, no policy is shown that a rule of its own makes
\* conditional on one: the denial reaches the rules as a value they fail on.
THEOREM DeniedAreNotShown == Spec => []DeniedIsNotShown
<1>1. ASSUME IInv PROVE DeniedIsNotShown
  <2> SUFFICES ASSUME "income_status" \in denials, NEW i \in DOMAIN run.shown,
                      NEW r \in Flat(rules[run.shown[i].policy]), r.field = "income_status",
                      "none" \notin ValuesOf(r.values)
               PROVE  FALSE
    BY DEF DeniedIsNotShown
  <2> DEFINE p == run.shown[i].policy
  <2>1. pc \in AfterRerank
    <3>1. run.shown # <<>> OBVIOUS
    <3> QED BY <1>1, <3>1 DEF IInv, ShownInv
  <2>2. p \in DOMAIN run.kept /\ run.kept[p].status # "EXCLUDED" BY <1>1, <2>1, ShownIsCandidate
  <2>3. run.kept[p] = Candidate(p, run.cond, rules[p], run.rows[p])
    BY <1>1, <2>1, <2>2 DEF IInv, CandidateInv, AfterRerank, AfterFilter, AfterSearch
  <2>4. "none" \in ConditionValue(run.cond, "income_status")
    <3>1. pc \in Graph BY <2>1 DEF AfterRerank, Graph, AfterSearch
    <3>2. "income_status" \in DOMAIN run.cond /\ run.cond["income_status"] = {"none"}
      BY <1>1, <3>1 DEF IInv, DenialInv
    <3> QED BY <3>2 DEF ConditionValue, ConditionKey
  <2>5. r \in Flat(rules[p]) OBVIOUS
  <2> HIDE DEF p
  <2>6. Candidate(p, run.cond, rules[p], run.rows[p]).status = "EXCLUDED"
    BY <2>4, <2>5, DeniedBenefitRefuses
  <2> QED BY <2>2, <2>3, <2>6
<1> QED BY <1>1, InductiveInvariant, PTL

\* The priorities shown never rise with the rank, and conflicts with a denial come last.  Two
\* priorities are level only at the floor, by the rounding that follows the comparison, or
\* at a bound that is a float below its decimal; whichever way halves are rounded.
THEOREM RanksDoAgree == Spec => []RanksAgree
<1>1. ASSUME IInv PROVE RanksAgree
  <2> SUFFICES ASSUME pc = "rerank_save" PROVE RanksAgree
    BY DEF RanksAgree
  <2>1. Presentable(run.shown, Eligible(run.kept, run.verdicts), run.kept, denials)
    BY <1>1 DEF IInv, ShownInv, AfterRerank
  <2>2. /\ \A i, j \in DOMAIN run.shown : i < j => RowsFall(run.shown, i, j)
        /\ \A i, j \in DOMAIN run.shown :
             i < j /\ Clashes(run.shown, run.kept, denials, i) => Clashes(run.shown, run.kept, denials, j)
    BY <2>1 DEF Presentable
  <2> QED BY <2>2 DEF RanksAgree, RowsFall, Falls, MayBeLevel, Clashes
<1> QED BY <1>1, InductiveInvariant, PTL

\* The rerank scores in the table are of policies that this round's model chose, all of which
\* are shown; in a completed request none is of a policy that is not in the result.
THEOREM ScoresDoMatchRun == Spec => []ScoresMatchRun
<1>1. ASSUME IInv PROVE ScoresMatchRun
  <2>0. \A s, p : (\E i \in DOMAIN s : s[i].policy = p) => p \in {r.policy : r \in ValuesOf(s)}
    BY DEF ValuesOf
  <2>1. ASSUME pc = "finalize_result", NEW p \in DOMAIN cands, cands[p].rerank # {}
        PROVE  p \in DOMAIN run.scores
    BY <1>1, <2>1 DEF IInv, SavedInv
  <2>1a. ASSUME pc = "finalize_result", NEW p \in DOMAIN run.scores
         PROVE  p \in {r.policy : r \in ValuesOf(run.shown)}
    <3>1. \E i \in DOMAIN run.shown : run.shown[i].policy = p
      BY <1>1, <2>1a DEF IInv, ShownInv, AfterRerank
    <3> QED BY <2>0, <3>1
  <2>2. ASSUME pc = "ended", status = "COMPLETED", kind = "recommendation",
               NEW p \in DOMAIN cands, cands[p].rerank # {}
        PROVE  p \in {r.policy : r \in ValuesOf(result)}
    <3>1. \E i \in DOMAIN result : result[i].policy = p BY <1>1, <2>2 DEF IInv, ResultInv
    <3> QED BY <2>0, <3>1
  <2> QED BY <2>1, <2>1a, <2>2 DEF ScoresMatchRun
<1> QED BY <1>1, InductiveInvariant, PTL

\* A point of the policy's rules that the user has settled is not asked for again by the check
\* that reads his answer.
THEOREM SettledDoStaySettled == Spec => []SettledStaysSettled
<1>1. IInv => SettledStaysSettled BY DEF IInv
<1> QED BY <1>1, InductiveInvariant, PTL

\* The verdict on a bucket holds for every number in it.
LEMMA NumericIsSound ==
  ASSUME NEW op \in {"LTE", "LT", "GTE", "GT"}, NEW v, NEW t \in Int, NEW n \in StandsFor(v)
  PROVE  /\ NumericCompare(op, v, t) \in {"yes", "no", "unclear"}
         /\ NumericCompare(op, v, t) = "yes" => Compares(op, n, t)
         /\ NumericCompare(op, v, t) = "no" => ~Compares(op, n, t)
<1>0. \A a, b : Decide(a, b) \in {"yes", "no", "unclear"} BY DEF Decide
<1>1. CASE v \in DOMAIN IncomeRange
  <2> DEFINE low == IncomeRange[v][1]
             up == IncomeRange[v][2]
  <2>1. low \in Int /\ up \in Int BY <1>1, BoundsAreNumbers
  <2>2. n \in (low + 1)..up BY <1>1 DEF StandsFor
  <2>3. NumericCompare(op, v, t) = IncomeBucketMatch(op, low, up, t) BY <1>1 DEF NumericCompare
  <2> HIDE DEF low, up
  <2>4. IncomeBucketMatch(op, low, up, t) \in {"yes", "no", "unclear"}
    BY <1>0 DEF IncomeBucketMatch
  <2> QED BY <2>1, <2>2, <2>3, <2>4, IncomeBucketIsSound
<1>2. CASE v \notin DOMAIN IncomeRange /\ v \in DOMAIN ChildAgeRange
  <2> DEFINE low == ChildAgeRange[v][1]
             up == ChildAgeRange[v][2]
  <2>1. low \in Int /\ up \in Int BY <1>2, BoundsAreNumbers
  <2>2. n \in low..up BY <1>2 DEF StandsFor
  <2>3. NumericCompare(op, v, t) = ChildAgeBucketMatch(op, low, up, t) BY <1>2 DEF NumericCompare
  <2> HIDE DEF low, up
  <2>4. ChildAgeBucketMatch(op, low, up, t) \in {"yes", "no", "unclear"}
    BY <1>0 DEF ChildAgeBucketMatch
  <2> QED BY <2>1, <2>2, <2>3, <2>4, ChildAgeBucketIsSound
<1>3. CASE v \notin DOMAIN IncomeRange /\ v \notin DOMAIN ChildAgeRange
  <2>1. n \in ToNumber(v) BY <1>3 DEF StandsFor
  <2>2. ToNumber(v) = {n} BY <2>1, NumberOfText
  <2>3. (\E m \in ToNumber(v) : Compares(op, m, t)) <=> Compares(op, n, t) BY <2>2
  <2>4. NumericCompare(op, v, t) = IF \E m \in ToNumber(v) : Compares(op, m, t) THEN "yes" ELSE "no"
    BY <1>3, <2>1 DEF NumericCompare, Decide
  <2> QED BY <2>3, <2>4
<1> QED BY <1>1, <1>2, <1>3

\* A rule that sets a bound passes a bucket only if all in it do, and fails it only if
\* nobody does, whatever the bound, the bucket and the number.
THEOREM BucketsDecideSoundly == Spec => []BucketsAreSound
<1>1. ASSUME IInv PROVE BucketsAreSound
  <2> SUFFICES ASSUME NEW p \in DOMAIN run.kept, NEW r \in rules[p],
                      r.op \in {"LTE", "LT", "GTE", "GT"},
                      Cardinality(ConditionValue(run.cond, r.field)) = 1,
                      NEW t \in ToNumber(r.values[1]),
                      NEW v \in ConditionValue(run.cond, r.field), NEW n \in StandsFor(v)
               PROVE  LET m == RuleMatches(r.op, ConditionValue(run.cond, r.field), r.values) IN
                      (m = "yes" => Compares(r.op, n, t)) /\ (m = "no" => ~Compares(r.op, n, t))
    BY DEF BucketsAreSound
  <2> DEFINE given == ConditionValue(run.cond, r.field)
             m == RuleMatches(r.op, given, r.values)
             one == NumericCompare(r.op, v, t)
  <2>1. given = {v}
    <3>1. IsFiniteSet(given) BY <1>1, FS_EmptySet DEF IInv, InputInv, Finitely, ConditionValue
    <3>2. Cardinality(given) = 1 /\ v \in given OBVIOUS
    <3> HIDE DEF given
    <3> QED BY <3>1, <3>2, FS_Singleton
  <2>2. t \in Int /\ ToNumber(r.values[1]) = {t} BY NumberOfText
  <2>3. /\ one \in {"yes", "no", "unclear"}
        /\ one = "yes" => Compares(r.op, n, t)
        /\ one = "no" => ~Compares(r.op, n, t)
    BY <2>2, NumericIsSound
  <2> HIDE DEF one, given
  <2>4. m \in {"unclear", NumericAnyOf(r.op, given, t)}
    <3>1. (CHOOSE x \in ToNumber(r.values[1]) : TRUE) = t BY <2>2
    <3> HIDE <2>2
    <3> QED BY <3>1 DEF RuleMatches
  <2>5. NumericAnyOf(r.op, given, t) = Decide(one = "yes", one # "unclear")
    BY <2>1 DEF NumericAnyOf, one
  <2>6. (m = "yes" => one = "yes") /\ (m = "no" => one = "no")
    <3> HIDE DEF m
    <3> QED BY <2>3, <2>4, <2>5 DEF Decide
  <2> QED BY <2>3, <2>6 DEF given
<1> QED BY <1>1, InductiveInvariant, PTL

\* The readers of the rules agree on a refusal: what the filter of the eligibility check
\* refuses, the candidate search excludes, for all rules and answers but the two kinds named.
THEOREM RefusedAreExcluded == Spec => []RefusedIsExcluded
<1>1. ASSUME IInv PROVE RefusedIsExcluded
  <2> SUFFICES ASSUME pc = "candidate_save", NEW p \in DOMAIN run.kept,
                      \A r \in rules[p] : ~r.review,
                      ConditionValue(run.cond, "age") = {} => \A r \in rules[p] : r.field # "age",
                      Filter(run.cond, rules[p]).failed # {}
               PROVE  run.kept[p].status = "EXCLUDED"
    BY DEF RefusedIsExcluded
  <2>1. /\ p \in Policies
        /\ run.kept[p] = Candidate(p, run.cond, rules[p], run.rows[p])
    BY <1>1 DEF IInv, CandidateInv, AfterFilter, AfterSearch
  <2>2. IsFiniteSet(rules[p]) /\ rules[p] \subseteq RuleRow
    BY <1>1, <2>1, RuleAssumption DEF IInv, InputInv
  <2>3. \/ \E r \in Flat(rules[p]) : FlatVerdict(r, ConditionValue(run.cond, r.field)) = "fail"
        \/ \E g \in OrGroups(rules[p]) : GroupVerdict(run.cond, g) = "fail"
    BY <2>2, FilterRefuses
  <2>4. Candidate(p, run.cond, rules[p], run.rows[p]).status = "EXCLUDED" BY <2>3, RefusedCandidate
  <2> QED BY <2>1, <2>4
<1> QED BY <1>1, InductiveInvariant, PTL
=============================================================================
