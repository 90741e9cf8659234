----------------------------- MODULE RuleProofs -----------------------------
(***************************************************************************)
(* Facts about numbers and ranks in an order, and about the operators that *)
(* evaluate a policy's rules: the numbers an answer may stand for, and     *)
(* what a list read as one refuses.                                        *)
(***************************************************************************)
EXTENDS PolicyRules, FiniteSetTheorems, TLAPS

(***************************************************************************)
(* Numbers and ranks.                                                      *)
(***************************************************************************)
\* A set of numbers that is not empty has a least one: the sets 0..(x - 1) are finite,
\* and of finitely many numbers none is below the least.
LEMMA LeastNumber ==
  ASSUME NEW S \in SUBSET Nat, S # {}
  PROVE  \E n \in S : \A m \in S : n <= m
<1> DEFINE T == {0..(x - 1) : x \in S}
<1>1. T \subseteq FiniteSubsetsOf(Nat)
  <2> SUFFICES ASSUME NEW x \in S PROVE 0..(x - 1) \in FiniteSubsetsOf(Nat)
    OBVIOUS
  <2>1. IsFiniteSet(0..(x - 1)) BY FS_Interval
  <2>2. 0..(x - 1) \subseteq Nat OBVIOUS
  <2> QED BY <2>1, <2>2 DEF FiniteSubsetsOf
<1>2. \E U \in T : \A V \in T : <<V, U>> \notin StrictSubsetOrdering(Nat)
  <2>1. IsWellFoundedOn(StrictSubsetOrdering(Nat), FiniteSubsetsOf(Nat))
    BY FS_StrictSubsetOrderingWellFounded
  <2>2. T # {} OBVIOUS
  <2> HIDE DEF T
  <2> QED BY <1>1, <2>1, <2>2, WFMin
<1>3. PICK x \in S : \A V \in T : <<V, 0..(x - 1)>> \notin StrictSubsetOrdering(Nat)
  BY <1>2
<1>4. ASSUME NEW y \in S, y < x PROVE FALSE
  <2>1. 0..(y - 1) \subseteq 0..(x - 1) BY <1>4
  <2>2. y \in 0..(x - 1) /\ y \notin 0..(y - 1) BY <1>4
  <2>3. 0..(y - 1) \in SUBSET Nat /\ 0..(x - 1) \in SUBSET Nat OBVIOUS
  <2>4. <<0..(y - 1), 0..(x - 1)>> \in StrictSubsetOrdering(Nat)
    BY <2>1, <2>2, <2>3 DEF StrictSubsetOrdering
  <2> QED BY <1>3, <2>4
<1> QED BY <1>4

\* Induction over the numbers, for a property given as a set.
LEMMA NatSetInduction ==
  ASSUME NEW S, 0 \in S, \A n \in Nat : n \in S => n + 1 \in S
  PROVE  \A n \in Nat : n \in S
<1> SUFFICES ASSUME NEW k \in Nat, k \notin S PROVE FALSE
  OBVIOUS
<1> DEFINE T == Nat \ S
<1>1. T \in SUBSET Nat /\ T # {} OBVIOUS
<1>2. PICK n \in T : \A m \in T : n <= m BY <1>1, LeastNumber
<1>3. n # 0 /\ n - 1 \in Nat OBVIOUS
<1>4. n - 1 \in S BY <1>2, <1>3
<1>5. n - 1 + 1 \in S BY <1>3, <1>4
<1> QED BY <1>2, <1>5

\* In a finite order an element is found by the number of those below it: B gives the
\* elements below each.  No two have the same number, so that all numbers are taken.
LEMMA Ranking ==
  ASSUME NEW S, IsFiniteSet(S), NEW B \in [S -> SUBSET S],
         \A p \in S : p \notin B[p],
         \A p \in S : \A q \in B[p] : B[q] \subseteq B[p],
         \A p, q \in S : p = q \/ q \in B[p] \/ p \in B[q]
  PROVE  /\ \A p \in S : Cardinality(B[p]) \in 0..(Cardinality(S) - 1)
         /\ \A p \in S : \A q \in B[p] : Cardinality(B[q]) < Cardinality(B[p])
         /\ \A p, q \in S : Cardinality(B[p]) = Cardinality(B[q]) => p = q
         /\ \A n \in 0..(Cardinality(S) - 1) : \E p \in S : Cardinality(B[p]) = n
<1> DEFINE N == Cardinality(S)
<1>0. N \in Nat BY FS_CardinalityType
<1>1. ASSUME NEW p \in S PROVE IsFiniteSet(B[p]) /\ Cardinality(B[p]) \in 0..(N - 1)
  <2>1. B[p] \in SUBSET S /\ B[p] # S OBVIOUS
  <2>2. IsFiniteSet(B[p]) /\ Cardinality(B[p]) <= N /\ Cardinality(B[p]) # N
    BY <2>1, FS_Subset
  <2>3. Cardinality(B[p]) \in Nat BY <2>2, FS_CardinalityType
  <2> QED BY <1>0, <2>2, <2>3
<1>2. ASSUME NEW p \in S, NEW q \in B[p] PROVE Cardinality(B[q]) < Cardinality(B[p])
  <2>1. q \in S OBVIOUS
  <2>2. B[q] \in SUBSET B[p] /\ B[q] # B[p] BY <2>1
  <2>3. IsFiniteSet(B[p]) BY <1>1
  <2>4. Cardinality(B[q]) <= Cardinality(B[p]) /\ Cardinality(B[q]) # Cardinality(B[p])
    BY <2>2, <2>3, FS_Subset
  <2>5. Cardinality(B[p]) \in Nat /\ Cardinality(B[q]) \in Nat BY <1>0, <1>1, <2>1
  <2> QED BY <2>4, <2>5
<1>3. ASSUME NEW p \in S, NEW q \in S, Cardinality(B[p]) = Cardinality(B[q]) PROVE p = q
  <2>1. q \notin B[p] /\ p \notin B[q] BY <1>0, <1>1, <1>2, <1>3
  <2> QED BY <2>1
<1>4. \A n \in 0..(N - 1) : \E p \in S : Cardinality(B[p]) = n
  <2> DEFINE T == 0..(N - 1)
             f == [p \in S |-> Cardinality(B[p])]
  <2>1. f \in [S -> T] BY <1>1
  <2>2. f \in Injection(S, T) BY <2>1, <1>3 DEF Injection, IsInjective
  <2>3. IsFiniteSet(T) /\ Cardinality(T) = N BY <1>0, FS_Interval
  <2>4. f \in Surjection(S, T)
    <3> HIDE DEF f, T
    <3> QED BY <2>2, <2>3, FS_Injection
  <2> QED BY <2>4 DEF Surjection
<1> QED BY <1>1, <1>2, <1>3, <1>4

(***************************************************************************)
(* Numbers and the answers that stand for them.                            *)
(***************************************************************************)
\* A text denotes at most one number, smaller than the one that stands for no limit.
LEMMA NumberOfText ==
  ASSUME NEW v, NEW t \in ToNumber(v)
  PROVE  t \in 0..(Infinity - 1) /\ ToNumber(v) = {t}
<1>1. CASE v \in DOMAIN IncomePercent
  <2>1. v \in {"low", "mid1", "mid2", "high"} BY <1>1 DEF IncomePercent
  <2>2. ToNumber(v) = {IncomePercent[v]} BY <1>1 DEF ToNumber
  <2>3. IncomePercent[v] \in 0..999 BY <2>1 DEF IncomePercent
  <2> QED BY <2>2, <2>3 DEF Infinity
<1>2. CASE v \notin DOMAIN IncomePercent
  <2>1. v \in DOMAIN Numeral /\ ToNumber(v) = {Numeral[v]} BY <1>2 DEF ToNumber
  <2> QED BY <2>1, NumeralAssumption
<1> QED BY <1>1, <1>2

\* An income level is above its lower bound.
LEMMA IncomeBucketIsSound ==
  ASSUME NEW op \in {"LTE", "LT", "GTE", "GT"}, NEW low \in Int, NEW up \in Int, NEW t \in Int,
         NEW n \in (low + 1)..up
  PROVE  /\ IncomeBucketMatch(op, low, up, t) = "yes" => Compares(op, n, t)
         /\ IncomeBucketMatch(op, low, up, t) = "no" => ~Compares(op, n, t)
<1>1. CASE op = "LTE" BY <1>1 DEF IncomeBucketMatch, Compares, Decide
<1>2. CASE op = "LT" BY <1>2 DEF IncomeBucketMatch, Compares, Decide
<1>3. CASE op = "GTE" BY <1>3 DEF IncomeBucketMatch, Compares, Decide
<1>4. CASE op = "GT" BY <1>4 DEF IncomeBucketMatch, Compares, Decide
<1> QED BY <1>1, <1>2, <1>3, <1>4

\* An age bucket includes both its bounds.
LEMMA ChildAgeBucketIsSound ==
  ASSUME NEW op \in {"LTE", "LT", "GTE", "GT"}, NEW low \in Int, NEW up \in Int, NEW t \in Int,
         NEW n \in low..up
  PROVE  /\ ChildAgeBucketMatch(op, low, up, t) = "yes" => Compares(op, n, t)
         /\ ChildAgeBucketMatch(op, low, up, t) = "no" => ~Compares(op, n, t)
<1>1. CASE op = "LTE" BY <1>1 DEF ChildAgeBucketMatch, Compares, Decide
<1>2. CASE op = "LT" BY <1>2 DEF ChildAgeBucketMatch, Compares, Decide
<1>3. CASE op = "GTE" BY <1>3 DEF ChildAgeBucketMatch, Compares, Decide
<1>4. CASE op = "GT" BY <1>4 DEF ChildAgeBucketMatch, Compares, Decide
<1> QED BY <1>1, <1>2, <1>3, <1>4

\* The bounds of the income levels and of the age buckets are numbers.
LEMMA BoundsAreNumbers ==
  /\ \A v \in DOMAIN IncomeRange : IncomeRange[v][1] \in Int /\ IncomeRange[v][2] \in Int
  /\ \A v \in DOMAIN ChildAgeRange : ChildAgeRange[v][1] \in Int /\ ChildAgeRange[v][2] \in Int
<1>1. ASSUME NEW v \in DOMAIN IncomeRange
      PROVE  IncomeRange[v][1] \in Int /\ IncomeRange[v][2] \in Int
  <2>1. v \in {"low", "mid1", "mid2", "high"} BY DEF IncomeRange
  <2> QED BY <2>1 DEF IncomeRange, Infinity
<1>2. ASSUME NEW v \in DOMAIN ChildAgeRange
      PROVE  ChildAgeRange[v][1] \in Int /\ ChildAgeRange[v][2] \in Int
  <2>1. v \in {"0", "1", "2-5", "6-12", "13+"} BY DEF ChildAgeRange
  <2> QED BY <2>1 DEF ChildAgeRange, Infinity
<1> QED BY <1>1, <1>2

(***************************************************************************)
(* Lists.                                                                  *)
(***************************************************************************)
\* A list has finitely many members.
LEMMA ValuesAreFinite ==
  ASSUME NEW T, NEW s \in Seq(T)
  PROVE  IsFiniteSet(ValuesOf(s)) /\ ValuesOf(s) \subseteq T
<1> DEFINE f == [i \in 1..Len(s) |-> s[i]]
<1>1. Len(s) \in Nat /\ DOMAIN s = 1..Len(s) /\ \A i \in DOMAIN s : s[i] \in T OBVIOUS
<1>2. f \in Surjection(1..Len(s), ValuesOf(s)) BY <1>1 DEF Surjection, ValuesOf
<1>3. IsFiniteSet(1..Len(s)) BY <1>1, FS_Interval
<1> HIDE DEF f
<1>4. IsFiniteSet(ValuesOf(s)) BY <1>2, <1>3, FS_Surjection
<1> QED BY <1>1, <1>4 DEF ValuesOf

\* Every finite set is the set of members of some list without repetitions.
LEMMA ListOfSet ==
  ASSUME NEW S, IsFiniteSet(S)
  PROVE  \E q \in [1..Cardinality(S) -> S] : ValuesOf(q) = S
<1>1. ExistsBijection(1..Cardinality(S), S) BY FS_CardinalityType
<1>2. PICK f \in Bijection(1..Cardinality(S), S) : TRUE BY <1>1 DEF ExistsBijection
<1>3. f \in [1..Cardinality(S) -> S] /\ \A x \in S : \E i \in 1..Cardinality(S) : f[i] = x
  BY <1>2 DEF Bijection, Injection, Surjection
<1>4. ValuesOf(f) = S BY <1>3 DEF ValuesOf
<1> QED BY <1>3, <1>4

(***************************************************************************)
(* The two readings of a refusal.                                          *)
(***************************************************************************)
\* Who is on no list is on no shorter one.
LEMMA ShorterListRefuses ==
  ASSUME NEW given, NEW T, NEW U, U \subseteq T, Listed(given, T) = "no"
  PROVE  Listed(given, U) = "no"
<1>1. given \cap T = {} /\ ~(T \cap Specific # {} /\ Basic \in given)
  BY DEF Listed, Decide
<1>2. given \cap U = {} /\ ~(U \cap Specific # {} /\ Basic \in given) BY <1>1
<1> QED BY <1>2 DEF Listed, Decide

\* An age bucket that is outside of the ages allowed is outside of fewer ages.
LEMMA FewerAgesRefuse ==
  ASSUME NEW a \in DOMAIN ChildAgeRange, NEW T, NEW U, U \subseteq T,
         ChildAgeInSet(ChildAgeRange[a][1], ChildAgeRange[a][2], T) = "no"
  PROVE  ChildAgeInSet(ChildAgeRange[a][1], ChildAgeRange[a][2], U) = "no"
<1> DEFINE low == ChildAgeRange[a][1]
           up == ChildAgeRange[a][2]
<1>1. low \in Int /\ up \in Int /\ low \in low..up
  <2>1. a \in {"0", "1", "2-5", "6-12", "13+"} BY DEF ChildAgeRange
  <2> QED BY <2>1 DEF ChildAgeRange, Infinity
<1> HIDE DEF low, up
<1>2. CASE up = Infinity
  <2>1. \A n \in T : n < low BY <1>2 DEF ChildAgeInSet, Decide, low, up
  <2>2. \A n \in U : n < low BY <2>1
  <2> QED BY <1>2, <2>2 DEF ChildAgeInSet, Decide, low, up
<1>3. CASE up # Infinity
  <2>1. (low..up) \cap T = {} BY <1>3 DEF ChildAgeInSet, Decide, low, up
  <2>2. (low..up) \cap U = {} /\ ~((low..up) \subseteq U) BY <1>1, <2>1
  <2> QED BY <1>3, <2>2 DEF ChildAgeInSet, Decide, low, up
<1> QED BY <1>2, <1>3

\* What a rule of op IN asks: the age bucket where all values are numbers, else the list.
LEMMA InMatches ==
  ASSUME NEW given, NEW l
  PROVE  /\ \A a \in DOMAIN ChildAgeRange :
              given = {a} /\ l # <<>> /\ (\A v \in ValuesOf(l) : ToNumber(v) # {}) =>
                RuleMatches("IN", given, l) =
                  ChildAgeInSet(ChildAgeRange[a][1], ChildAgeRange[a][2],
                                UNION {ToNumber(v) : v \in ValuesOf(l)})
         /\ (\A a \in DOMAIN ChildAgeRange : given # {a}) \/ l = <<>>
              \/ (\E v \in ValuesOf(l) : ToNumber(v) = {}) =>
                RuleMatches("IN", given, l) = Listed(given, ValuesOf(l))
<1> DEFINE ages == {a \in DOMAIN ChildAgeRange : given = {a}}
           aged == ages # {} /\ l # <<>> /\ \A v \in ValuesOf(l) : ToNumber(v) # {}
<1>1. RuleMatches("IN", given, l) =
        IF aged
        THEN LET a == CHOOSE x \in ages : TRUE IN
             ChildAgeInSet(ChildAgeRange[a][1], ChildAgeRange[a][2],
                           UNION {ToNumber(v) : v \in ValuesOf(l)})
        ELSE Listed(given, ValuesOf(l))
  BY DEF RuleMatches
<1>2. ASSUME NEW a \in DOMAIN ChildAgeRange, given = {a}
      PROVE  ages # {} /\ (CHOOSE x \in ages : TRUE) = a
  BY <1>2
<1>3. ASSUME NEW a \in DOMAIN ChildAgeRange,
             given = {a} /\ l # <<>> /\ \A v \in ValuesOf(l) : ToNumber(v) # {}
      PROVE  RuleMatches("IN", given, l) =
               ChildAgeInSet(ChildAgeRange[a][1], ChildAgeRange[a][2],
                             UNION {ToNumber(v) : v \in ValuesOf(l)})
  <2>1. aged /\ (CHOOSE x \in ages : TRUE) = a BY <1>2, <1>3
  <2> HIDE DEF ages, aged
  <2> QED BY <1>1, <2>1
<1>4. ASSUME (\A a \in DOMAIN ChildAgeRange : given # {a}) \/ l = <<>>
               \/ \E v \in ValuesOf(l) : ToNumber(v) = {}
      PROVE  RuleMatches("IN", given, l) = Listed(given, ValuesOf(l))
  <2>1. ~aged BY <1>4
  <2> HIDE DEF ages, aged
  <2> QED BY <1>1, <2>1
<1> QED BY <1>3, <1>4

\* A list, of whatever members.
IsList(l) == \E T : l \in Seq(T)

\* Lists that refuse together, read as one list, have one that refuses alone.
LEMMA MergedListRefuses ==
  ASSUME NEW given, NEW L, L # {}, \A l \in L : IsList(l), NEW q,
         q = <<>> <=> ValuesOf(q) = {},
         ValuesOf(q) = UNION {ValuesOf(l) : l \in L},
         RuleMatches("IN", given, q) = "no"
  PROVE  \E l \in L : RuleMatches("IN", given, l) = "no"
<1>0. \A l \in L : ValuesOf(l) \subseteq ValuesOf(q) OBVIOUS
<1>1. \A l \in L : l = <<>> <=> ValuesOf(l) = {}
  <2> SUFFICES ASSUME NEW l \in L PROVE l = <<>> <=> ValuesOf(l) = {}
    OBVIOUS
  <2>1. \E T : l \in Seq(T) BY DEF IsList
  <2>2. l # <<>> => 1 \in DOMAIN l BY <2>1
  <2>3. l = <<>> => DOMAIN l = {} OBVIOUS
  <2> QED BY <2>2, <2>3 DEF ValuesOf
<1>2. Listed(given, {}) = "no" BY DEF Listed, Decide
<1>3. CASE \E a \in DOMAIN ChildAgeRange : given = {a} /\ q # <<>> /\ \A v \in ValuesOf(q) : ToNumber(v) # {}
  <2>1. PICK a \in DOMAIN ChildAgeRange :
          given = {a} /\ q # <<>> /\ \A v \in ValuesOf(q) : ToNumber(v) # {}
    BY <1>3
  <2>2. ChildAgeInSet(ChildAgeRange[a][1], ChildAgeRange[a][2],
                      UNION {ToNumber(v) : v \in ValuesOf(q)}) = "no"
    BY <2>1, InMatches
  <2>3. PICK l \in L : TRUE OBVIOUS
  <2>4. CASE l = <<>>
    <3>1. RuleMatches("IN", given, l) = Listed(given, ValuesOf(l)) BY <2>4, InMatches
    <3> QED BY <1>1, <1>2, <2>4, <3>1
  <2>5. CASE l # <<>>
    <3>1. UNION {ToNumber(v) : v \in ValuesOf(l)} \subseteq UNION {ToNumber(v) : v \in ValuesOf(q)}
      BY <1>0
    <3>2. ChildAgeInSet(ChildAgeRange[a][1], ChildAgeRange[a][2],
                        UNION {ToNumber(v) : v \in ValuesOf(l)}) = "no"
      BY <2>2, <3>1, FewerAgesRefuse
    <3>3. \A v \in ValuesOf(l) : ToNumber(v) # {} BY <1>0, <2>1
    <3> QED BY <2>1, <2>5, <3>2, <3>3, InMatches
  <2> QED BY <2>4, <2>5
<1>4. CASE ~\E a \in DOMAIN ChildAgeRange : given = {a} /\ q # <<>> /\ \A v \in ValuesOf(q) : ToNumber(v) # {}
  <2>1. Listed(given, ValuesOf(q)) = "no" BY <1>4, InMatches
  <2>2. \A l \in L : Listed(given, ValuesOf(l)) = "no" BY <1>0, <2>1, ShorterListRefuses
  <2>3. PICK l \in L : \/ \A a \in DOMAIN ChildAgeRange : given # {a}
                       \/ l = <<>>
                       \/ \E v \in ValuesOf(l) : ToNumber(v) = {}
    BY <1>0, <1>1, <1>4
  <2>4. RuleMatches("IN", given, l) = Listed(given, ValuesOf(l)) BY <2>3, InMatches
  <2> QED BY <2>2, <2>4
<1> QED BY <1>3, <1>4

\* A comparison has one of three results.
LEMMA InHasThreeResults ==
  ASSUME NEW given, NEW q
  PROVE  RuleMatches("IN", given, q) \in {"yes", "no", "unclear"}
<1>1. ASSUME NEW a, NEW b PROVE Decide(a, b) \in {"yes", "no", "unclear"} BY DEF Decide
<1>2. \A T : Listed(given, T) \in {"yes", "no", "unclear"} BY <1>1 DEF Listed
<1>3. \A a, b, T : ChildAgeInSet(a, b, T) \in {"yes", "no", "unclear"} BY <1>1 DEF ChildAgeInSet
<1> HIDE DEF ChildAgeInSet
<1> QED BY <1>2, <1>3 DEF RuleMatches

\* A hard rule that may be refused: the answer is a known mismatch, or does not match.
LEMMA FlatFails ==
  ASSUME NEW r, NEW given, r.op = "IN", r.manual = FALSE
  PROVE  FlatVerdict(r, given) = "fail" <=>
           \/ DeniedIncomeMismatch(r, given)
           \/ given # {} /\ r.hard /\ RuleMatches("IN", given, r.values) = "no"
<1> DEFINE m == RuleMatches("IN", given, r.values)
<1>1. m \in {"yes", "no", "unclear"} BY InHasThreeResults
<1>2. FlatVerdict(r, given) =
        IF DeniedIncomeMismatch(r, given) THEN "fail"
        ELSE IF given = {} THEN (IF r.hard THEN "missing" ELSE "skip")
        ELSE IF m = "yes" THEN "match" ELSE IF m = "unclear" THEN "manual"
        ELSE IF r.hard THEN "fail" ELSE "skip"
  BY DEF FlatVerdict
<1> HIDE DEF m
<1>3. CASE DeniedIncomeMismatch(r, given) BY <1>2, <1>3
<1>4. CASE ~DeniedIncomeMismatch(r, given) /\ given = {} BY <1>2, <1>4
<1>5. CASE ~DeniedIncomeMismatch(r, given) /\ given # {}
  <2>1. CASE m = "no" BY <1>2, <1>5, <2>1 DEF m
  <2>2. CASE m = "yes" BY <1>2, <1>5, <2>2 DEF m
  <2>3. CASE m = "unclear" BY <1>2, <1>5, <2>3 DEF m
  <2> QED BY <1>1, <2>1, <2>2, <2>3
<1> QED BY <1>3, <1>4, <1>5

\* A rule, whatever else the row has.
IsRule(s) ==
  /\ {"field", "op", "values", "hard", "manual"} \subseteq DOMAIN s
  /\ IsList(s.values) /\ s.manual \in BOOLEAN
LEMMA RowsAreRules == \A r \in RuleRow : IsRule(r)
<1> SUFFICES ASSUME NEW r \in RuleRow PROVE IsRule(r)
  OBVIOUS
<1> QED BY DEF RuleRow, IsRule, IsList

\* The values of finitely many rules are finitely many.
LEMMA UnionOfValuesIsFinite ==
  ASSUME NEW S, IsFiniteSet(S), \A s \in S : IsRule(s)
  PROVE  IsFiniteSet(UNION {ValuesOf(s.values) : s \in S})
<1> DEFINE W == {ValuesOf(s.values) : s \in S}
           f == [s \in S |-> ValuesOf(s.values)]
<1>1. f \in Surjection(S, W) BY DEF Surjection
<1>2. IsFiniteSet(W)
  <2> HIDE DEF f, W
  <2> QED BY <1>1, FS_Surjection
<1>3. ASSUME NEW T \in W PROVE IsFiniteSet(T)
  <2>1. PICK s \in S : T = ValuesOf(s.values) OBVIOUS
  <2>2. PICK U : s.values \in Seq(U) BY DEF IsRule, IsList
  <2> QED BY <2>1, <2>2, ValuesAreFinite
<1> HIDE DEF W
<1> QED BY <1>2, <1>3, FS_UNION DEF W

\* The values of some rules are those of their lists.
LEMMA ValuesOfLists ==
  ASSUME NEW S
  PROVE  UNION {ValuesOf(s.values) : s \in S} = UNION {ValuesOf(l) : l \in {s.values : s \in S}}
<1> HIDE DEF ValuesOf
<1>1. {ValuesOf(s.values) : s \in S} = {ValuesOf(l) : l \in {s.values : s \in S}} OBVIOUS
<1> QED BY <1>1

\* A rule merged of several lists that refuses has among them one that refuses alone.
LEMMA MergedRefuses ==
  ASSUME NEW R, IsFiniteSet(R), \A s \in R : IsRule(s), NEW r \in Merged(R), NEW given,
         FlatVerdict(r, given) = "fail"
  PROVE  \E s \in R : s.field = r.field /\ FlatVerdict(s, given) = "fail"
<1> DEFINE lists == {x \in R : x.op = "IN" /\ ~x.manual}
           like(x) == {s \in R : s.op = "IN" /\ ~s.manual /\ s.field = x.field /\ s.hard = x.hard}
           all(S) == UNION {ValuesOf(s.values) : s \in S}
           values(S) == CHOOSE q \in [1..Cardinality(all(S)) -> all(S)] : ValuesOf(q) = all(S)
           merged(x) == [(CHOOSE s \in like(x) : TRUE) EXCEPT !.values = values(like(x))]
<1>1. r \in R \ lists \/ \E x \in lists : r = merged(x)
  <2>1. Merged(R) = (R \ lists) \cup {merged(x) : x \in lists} BY DEF Merged
  <2> HIDE DEF lists, merged
  <2> QED BY <2>1
<1>2. CASE r \in R \ lists BY <1>2
<1>3. CASE \E x \in lists : r = merged(x)
  <2>1. PICK x \in lists : r = merged(x) BY <1>3
  <2>2. x \in like(x) OBVIOUS
  <2> DEFINE y == CHOOSE s \in like(x) : TRUE
             U == all(like(x))
             q == values(like(x))
             L == {s.values : s \in like(x)}
  <2>3. y \in like(x) BY <2>2
  <2>4. IsFiniteSet(U)
    <3>1. like(x) \in SUBSET R OBVIOUS
    <3>2. IsFiniteSet(like(x)) /\ \A s \in like(x) : IsRule(s) BY <3>1, FS_Subset
    <3> QED BY <3>2, UnionOfValuesIsFinite
  <2>5. q \in [1..Cardinality(U) -> U] /\ ValuesOf(q) = U BY <2>4, ListOfSet
  <2>6. q = <<>> <=> ValuesOf(q) = {}
    <3>1. Cardinality(U) \in Nat BY <2>4, FS_CardinalityType
    <3>2. Cardinality(U) = 0 <=> U = {} BY <2>4, FS_EmptySet
    <3> HIDE DEF q, U
    <3>3. q \in Seq(U) /\ Len(q) = Cardinality(U) BY <2>5, <3>1
    <3> QED BY <2>5, <3>1, <3>2, <3>3
  <2>7. /\ r.field = x.field /\ r.op = "IN" /\ r.manual = FALSE
        /\ r.hard = x.hard /\ r.values = q
    <3>1. IsRule(y) /\ r = [y EXCEPT !.values = q] BY <2>1, <2>3
    <3>2. y.field = x.field /\ y.op = "IN" /\ y.manual = FALSE /\ y.hard = x.hard
      BY <2>3, <3>1 DEF IsRule
    <3> HIDE DEF y, q
    <3> QED BY <3>1, <3>2 DEF IsRule
  <2>8. \A s \in like(x) : /\ s \in R /\ s.op = "IN" /\ s.manual = FALSE /\ s.field = x.field
                           /\ s.hard = x.hard /\ ValuesOf(s.values) \subseteq U
                           /\ IsList(s.values)
    BY DEF IsRule
  <2>9. ValuesOf(q) = UNION {ValuesOf(l) : l \in L}
    <3>1. U = UNION {ValuesOf(l) : l \in L} BY ValuesOfLists
    <3> HIDE DEF q, U, L
    <3> QED BY <2>5, <3>1
  <2>10. L # {} /\ \A l \in L : IsList(l) BY <2>2, <2>8
  <2>11. \A l \in L : \E s \in like(x) : s.values = l OBVIOUS
  <2> HIDE DEF like, q, U, L, y, merged, lists
  <2>12. CASE DeniedIncomeMismatch(r, given)
    <3>1. DeniedIncomeMismatch(x, given)
      BY <2>2, <2>5, <2>7, <2>8, <2>12 DEF DeniedIncomeMismatch
    <3> QED BY <2>2, <2>7, <2>8, <3>1, FlatFails
  <2>13. CASE given # {} /\ r.hard /\ RuleMatches("IN", given, q) = "no"
    <3>1. PICK l \in L : RuleMatches("IN", given, l) = "no"
      BY <2>6, <2>9, <2>10, <2>13, MergedListRefuses
    <3>2. PICK s \in like(x) : s.values = l BY <2>11
    <3> QED BY <2>7, <2>8, <2>13, <3>1, <3>2, FlatFails
  <2> QED BY <2>7, <2>12, <2>13, FlatFails
<1> QED BY <1>1, <1>2, <1>3

\* What the filter refuses, a rule or a group of alternatives refuses when read on its own.
LEMMA FilterFails ==
  ASSUME NEW c, NEW R, IsFiniteSet(Trusted(R)), \A s \in Trusted(R) : IsRule(s),
         Filter(c, R).failed # {}
  PROVE  \/ \E r \in Flat(Trusted(R)) : FlatVerdict(r, FilterValue(c, r.field)) = "fail"
         \/ \E g \in OrGroups(Trusted(R)) :
              GroupOutcome({MemberVerdict(c, r, FilterValue(c, r.field)) : r \in g}) = "fail"
<1> DEFINE fails == {r \in Merged(Flat(Trusted(R))) : FlatVerdict(r, FilterValue(c, r.field)) = "fail"}
           refusing == {g \in OrGroups(Trusted(R)) :
                          GroupOutcome({MemberVerdict(c, r, FilterValue(c, r.field)) : r \in g}) = "fail"}
<1>1. Filter(c, R).failed = {{f} : f \in {r.field : r \in fails}} \cup {{r.field : r \in g} : g \in refusing}
  BY DEF Filter, Result
<1>2. fails # {} \/ refusing # {} BY <1>1
<1>3. CASE fails # {}
  <2>1. PICK r \in Merged(Flat(Trusted(R))) : FlatVerdict(r, FilterValue(c, r.field)) = "fail" BY <1>3
  <2>2. Flat(Trusted(R)) \in SUBSET Trusted(R) BY DEF Flat
  <2>3. IsFiniteSet(Flat(Trusted(R))) /\ \A s \in Flat(Trusted(R)) : IsRule(s) BY <2>2, FS_Subset
  <2>4. PICK s \in Flat(Trusted(R)) : s.field = r.field /\ FlatVerdict(s, FilterValue(c, r.field)) = "fail"
    BY <2>1, <2>3, MergedRefuses
  <2> QED BY <2>4
<1>4. CASE refusing # {} BY <1>4
<1> QED BY <1>2, <1>3, <1>4
=============================================================================
