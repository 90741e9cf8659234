--------------------------- MODULE ReadingProofs ---------------------------
(***************************************************************************)
(* What is refused by the rules of a profile, for any extraction and any   *)
(* answers: a rule that refuses comes from a condition that denies the     *)
(* user, unless the condition is of a kind that is known to be misread, and*)
(* a part of the sentence that cannot hold is part of no reading of it.    *)
(***************************************************************************)
EXTENDS ConditionReading, RuleProofs

(***************************************************************************)
(* Values.                                                                 *)
(***************************************************************************)
\* The texts of values: the provers do not know that the implied ones are strings.
ValueTexts == STRING \cup {"34", Basic, "near_poverty_class"}
HoldsValues(n) ==
  /\ DOMAIN n.value = {"shape", "items"} /\ n.value.items \in Seq(ValueTexts)
  /\ n.value.shape \in {"one", "percent"} => Len(n.value.items) = 1
  /\ n.text.percent \in {None} \cup DOMAIN Numeral

LEMMA SequenceDomain ==
  ASSUME NEW T, NEW s \in Seq(T)
  PROVE  /\ Len(s) \in Nat /\ DOMAIN s = 1..Len(s) /\ \A i \in DOMAIN s : s[i] \in T
         /\ s = <<>> <=> ValuesOf(s) = {}
         /\ s # <<>> => 1 \in DOMAIN s /\ s[1] \in ValuesOf(s)
<1>1. Len(s) \in Nat /\ DOMAIN s = 1..Len(s) /\ \A i \in DOMAIN s : s[i] \in T OBVIOUS
<1>2. s # <<>> => 1 \in DOMAIN s OBVIOUS
<1>3. s = <<>> => DOMAIN s = {} OBVIOUS
<1> QED BY <1>1, <1>2, <1>3 DEF ValuesOf

LEMMA SequenceOfMore ==
  ASSUME NEW S, NEW T, S \subseteq T, NEW s \in Seq(S)
  PROVE  s \in Seq(T)
<1>1. Len(s) \in Nat /\ s \in [1..Len(s) -> S] OBVIOUS
<1>2. s \in [1..Len(s) -> T] BY <1>1
<1> QED BY <1>1, <1>2

\* What is selected of a list are its members in the set, in some order.
LEMMA SelectIs ==
  ASSUME NEW T, NEW value, value.items \in Seq(T), NEW S
  PROVE  /\ Select(value, S) \in Seq(T)
         /\ ValuesOf(Select(value, S)) = ValuesOf(value.items) \cap S
<1> DEFINE items == value.items
           places == {i \in DOMAIN items : items[i] \in S}
           B == [i \in places |-> {j \in places : j < i}]
           place(n) == CHOOSE i \in places : Cardinality({j \in places : j < i}) = n - 1
           sel == [n \in 1..Cardinality(places) |-> items[place(n)]]
<1>1. Select(value, S) = sel BY DEF Select
<1>2. Len(items) \in Nat /\ DOMAIN items = 1..Len(items) /\ \A i \in DOMAIN items : items[i] \in T
  OBVIOUS
<1>3. IsFiniteSet(places)
  <2>1. IsFiniteSet(1..Len(items)) BY <1>2, FS_Interval
  <2>2. places \in SUBSET (1..Len(items)) BY <1>2
  <2> QED BY <2>1, <2>2, FS_Subset
<1>4. Cardinality(places) \in Nat BY <1>3, FS_CardinalityType
<1>5. places \subseteq Nat BY <1>2
<1>6. /\ \A i \in places : Cardinality(B[i]) \in 0..(Cardinality(places) - 1)
      /\ \A i, k \in places : Cardinality(B[i]) = Cardinality(B[k]) => i = k
      /\ \A n \in 0..(Cardinality(places) - 1) : \E i \in places : Cardinality(B[i]) = n
  <2>1. B \in [places -> SUBSET places] OBVIOUS
  <2>2. \A i \in places : i \notin B[i] BY <1>5
  <2>3. \A i \in places : \A j \in B[i] : B[j] \subseteq B[i] BY <1>5
  <2>4. \A i, j \in places : i = j \/ j \in B[i] \/ i \in B[j] BY <1>5
  <2> HIDE DEF places, B
  <2> QED BY <1>3, <2>1, <2>2, <2>3, <2>4, Ranking
<1>7. \A i \in places : /\ Cardinality(B[i]) \in Nat
                         /\ Cardinality(B[i]) + 1 \in 1..Cardinality(places)
  <2> HIDE DEF places, B
  <2> QED BY <1>4, <1>6
<1>7a. \A i \in places : B[i] = {j \in places : j < i} OBVIOUS
<1>8. ASSUME NEW n \in 1..Cardinality(places) PROVE place(n) \in places
  <2>1. n - 1 \in 0..(Cardinality(places) - 1) BY <1>4
  <2>2. PICK i \in places : Cardinality(B[i]) = n - 1 BY <1>6, <2>1
  <2>3. Cardinality({j \in places : j < i}) = n - 1 BY <1>7a, <2>2
  <2> HIDE DEF places
  <2> QED BY <2>3
<1>9. \A n \in 1..Cardinality(places) : items[place(n)] \in T \cap S
  <2> SUFFICES ASSUME NEW n \in 1..Cardinality(places) PROVE items[place(n)] \in T \cap S
    OBVIOUS
  <2> DEFINE k == place(n)
  <2>1. k \in places BY <1>8
  <2> HIDE DEF k
  <2>2. k \in DOMAIN items /\ items[k] \in S BY <2>1
  <2>3. items[k] \in T BY <1>2, <2>2
  <2> QED BY <2>2, <2>3 DEF k
<1>10. sel \in Seq(T)
  <2> HIDE DEF places, place
  <2> QED BY <1>4, <1>9
<1>11. ASSUME NEW i \in places PROVE \E n \in DOMAIN sel : sel[n] = items[i]
  <2> DEFINE n == Cardinality(B[i]) + 1
  <2>1. n \in 1..Cardinality(places) BY <1>7
  <2> DEFINE k == place(n)
  <2>2. k \in places /\ Cardinality(B[k]) = n - 1
    <3>1. Cardinality({j \in places : j < i}) = n - 1
      <4>1. Cardinality(B[i]) \in Nat BY <1>7
      <4>2. Cardinality(B[i]) = n - 1 BY <4>1
      <4> HIDE DEF n, places
      <4> QED BY <1>7a, <4>2
    <3> HIDE DEF n, places
    <3>2. k \in places /\ Cardinality({j \in places : j < k}) = n - 1 BY <3>1
    <3> QED BY <1>7a, <3>2
  <2>3. Cardinality(B[k]) = Cardinality(B[i])
    <3>1. Cardinality(B[i]) \in Nat BY <1>7
    <3> QED BY <2>2, <3>1
  <2>4. k = i BY <1>6, <2>2, <2>3
  <2>5. n \in DOMAIN sel /\ sel[n] = items[k] BY <2>1
  <2> HIDE DEF n, k, sel
  <2> QED BY <2>4, <2>5
<1>12. ValuesOf(sel) = ValuesOf(items) \cap S
  <2>1. \A n \in DOMAIN sel : sel[n] \in ValuesOf(items) \cap S
    <3> SUFFICES ASSUME NEW n \in 1..Cardinality(places) PROVE sel[n] \in ValuesOf(items) \cap S
      OBVIOUS
    <3> DEFINE k == place(n)
    <3>1. k \in places BY <1>8
    <3>2. sel[n] = items[k] OBVIOUS
    <3> HIDE DEF k, sel
    <3> QED BY <3>1, <3>2 DEF ValuesOf
  <2>2. \A v \in ValuesOf(items) \cap S : \E i \in places : v = items[i] BY DEF ValuesOf
  <2> HIDE DEF sel, items, places
  <2> QED BY <1>11, <2>1, <2>2 DEF ValuesOf
<1> HIDE DEF sel, items
<1> QED BY <1>1, <1>10, <1>12 DEF items

\* A word has at most one number in it, which no income level is named by.
LEMMA ToIntIs ==
  ASSUME NEW v
  PROVE  /\ ToInt(v) \subseteq DOMAIN Numeral
         /\ \A t, u \in ToInt(v) : t = u
<1>1. CASE v \in DOMAIN Worded BY <1>1, NumberAssumption DEF ToInt
<1>2. CASE v \notin DOMAIN Worded BY <1>2 DEF ToInt
<1> QED BY <1>1, <1>2

LEMMA NumeralIsNumber ==
  ASSUME NEW t \in DOMAIN Numeral
  PROVE  ToNumber(t) = {Numeral[t]} /\ Numeral[t] \in Int
<1>1. t \notin DOMAIN IncomePercent BY NumberAssumption
<1>2. Numeral[t] \in Int
  <2>1. Infinity \in Int BY DEF Infinity
  <2> QED BY <2>1, NumeralAssumption
<1> QED BY <1>1, <1>2, NumberAssumption DEF ToNumber

\* The numbers of a list are all that it has.
LEMMA IntItemsAre ==
  ASSUME NEW value, value.items \in Seq(ValueTexts)
  PROVE  /\ IntItems(value) \in Seq(DOMAIN Numeral)
         /\ ValuesOf(IntItems(value)) = UNION {ToInt(v) : v \in ValuesOf(value.items)}
<1> DEFINE numbers == Select(value, Ints(value))
           l == [i \in DOMAIN numbers |-> CHOOSE t \in ToInt(numbers[i]) : TRUE]
<1>1. IntItems(value) = l BY DEF IntItems
<1>2. numbers \in Seq(ValueTexts) /\ ValuesOf(numbers) = ValuesOf(value.items) \cap Ints(value)
  BY SelectIs
<1>3. Ints(value) = {v \in ValuesOf(value.items) : ToInt(v) # {}} BY DEF Ints
<1>4. ValuesOf(numbers) = {v \in ValuesOf(value.items) : ToInt(v) # {}} BY <1>2, <1>3
<1> HIDE DEF numbers
<1>5. ASSUME NEW i \in DOMAIN numbers PROVE l[i] \in DOMAIN Numeral /\ ToInt(numbers[i]) = {l[i]}
  <2>1. numbers[i] \in ValuesOf(numbers) BY DEF ValuesOf
  <2>2. ToInt(numbers[i]) # {} BY <1>4, <2>1
  <2>3. l[i] \in ToInt(numbers[i]) BY <2>2
  <2> HIDE DEF l
  <2> QED BY <2>3, ToIntIs
<1>6. DOMAIN l = DOMAIN numbers OBVIOUS
<1>7. l \in Seq(DOMAIN Numeral)
  <2>1. Len(numbers) \in Nat /\ DOMAIN numbers = 1..Len(numbers) BY <1>2, SequenceDomain
  <2>2. l \in [1..Len(numbers) -> DOMAIN Numeral] BY <1>5, <2>1
  <2> HIDE DEF l
  <2> QED BY <2>1, <2>2
<1> HIDE DEF l
<1>8. ValuesOf(l) = UNION {ToInt(v) : v \in ValuesOf(value.items)}
  <2>1. ASSUME NEW t \in ValuesOf(l) PROVE t \in UNION {ToInt(v) : v \in ValuesOf(value.items)}
    <3>1. PICK i \in DOMAIN numbers : t = l[i] BY <1>6 DEF ValuesOf
    <3>2. numbers[i] \in ValuesOf(numbers) BY DEF ValuesOf
    <3>3. numbers[i] \in ValuesOf(value.items) BY <1>4, <3>2
    <3> QED BY <1>5, <3>1, <3>3
  <2>2. ASSUME NEW v \in ValuesOf(value.items), NEW t \in ToInt(v) PROVE t \in ValuesOf(l)
    <3>1. v \in ValuesOf(numbers) BY <1>4
    <3>2. PICK i \in DOMAIN numbers : v = numbers[i] BY <3>1 DEF ValuesOf
    <3>3. t = l[i] BY <1>5, <3>2
    <3> QED BY <1>6, <3>3 DEF ValuesOf
  <2> QED BY <2>1, <2>2
<1> QED BY <1>1, <1>7, <1>8

\* The numbers that the rule compares with are those of the condition.
LEMMA NumbersAre ==
  ASSUME NEW n, n.value.items \in Seq(ValueTexts)
  PROVE  UNION {ToNumber(v) : v \in ValuesOf(IntItems(n.value))} = NumberOf(n)
<1> DEFINE U == UNION {ToInt(v) : v \in ValuesOf(n.value.items)}
<1>1. ValuesOf(IntItems(n.value)) = U BY IntItemsAre
<1>2. \A t \in U : ToNumber(t) = {Numeral[t]}
  <2> SUFFICES ASSUME NEW t \in U PROVE ToNumber(t) = {Numeral[t]}
    OBVIOUS
  <2>1. t \in DOMAIN Numeral BY ToIntIs
  <2> QED BY <2>1, NumeralIsNumber
<1>3. NumberOf(n) = {Numeral[t] : t \in U} BY DEF NumberOf
<1> HIDE DEF U
<1>4. UNION {ToNumber(t) : t \in U} = {Numeral[t] : t \in U} BY <1>2
<1> QED BY <1>1, <1>3, <1>4

\* A single value is all that a list with it has, and the number in it is the percentage.
LEMMA SingleValue ==
  ASSUME NEW n, HoldsValues(n), n.value.shape \in {"one", "percent"}
  PROVE  \E v : /\ ValuesOf(n.value.items) = {v}
                /\ Ints(n.value) # {} <=> ToInt(v) # {}
                /\ ToInt(v) # {} => IntItems(n.value)[1] \in ToInt(v)
<1>1. n.value.items \in Seq(ValueTexts) /\ Len(n.value.items) = 1 BY DEF HoldsValues
<1> DEFINE v == n.value.items[1]
<1>2. DOMAIN n.value.items = {1} BY <1>1
<1>3. ValuesOf(n.value.items) = {v} BY <1>2 DEF ValuesOf
<1>4. Ints(n.value) # {} <=> ToInt(v) # {} BY <1>3 DEF Ints
<1> DEFINE l == IntItems(n.value)
<1>5. l \in Seq(DOMAIN Numeral) /\ ValuesOf(l) = UNION {ToInt(w) : w \in ValuesOf(n.value.items)}
  BY <1>1, IntItemsAre
<1>6. ValuesOf(l) = ToInt(v) BY <1>3, <1>5
<1>7. ToInt(v) # {} => l[1] \in ToInt(v)
  <2> HIDE DEF l
  <2>1. l # <<>> => l[1] \in ValuesOf(l) BY <1>5, SequenceDomain
  <2>2. l = <<>> <=> ValuesOf(l) = {} BY <1>5, SequenceDomain
  <2> QED BY <1>6, <2>1, <2>2
<1> HIDE DEF v, l
<1> QED BY <1>3, <1>4, <1>7 DEF l

\* A percentage is a number or none.
LEMMA PercentIs ==
  ASSUME NEW n, HoldsValues(n)
  PROVE  ExtractPercent(n) \in {None} \cup DOMAIN Numeral
<1>1. CASE n.value.shape \in {"one", "percent"} /\ Ints(n.value) # {}
  <2>1. PICK v : /\ Ints(n.value) # {} <=> ToInt(v) # {}
                 /\ ToInt(v) # {} => IntItems(n.value)[1] \in ToInt(v)
    BY <1>1, SingleValue
  <2>2. IntItems(n.value)[1] \in DOMAIN Numeral BY <1>1, <2>1, ToIntIs
  <2> QED BY <1>1, <2>2 DEF ExtractPercent
<1>2. CASE ~(n.value.shape \in {"one", "percent"} /\ Ints(n.value) # {})
  BY <1>2 DEF ExtractPercent, HoldsValues
<1> QED BY <1>1, <1>2

\* Of finitely many, not more than one: a member is the only one.
LEMMA OnlyOne ==
  ASSUME NEW S, IsFiniteSet(S), ~(Cardinality(S) > 1), NEW x \in S
  PROVE  S = {x}
<1>1. {x} \in SUBSET S OBVIOUS
<1>2. Cardinality({x}) = 1 /\ Cardinality(S) \in Nat
  BY FS_Singleton, FS_CardinalityType
<1>3. Cardinality({x}) <= Cardinality(S) BY <1>1, FS_Subset
<1>4. Cardinality({x}) = Cardinality(S) BY <1>2, <1>3
<1> QED BY <1>1, <1>4, FS_Subset

(***************************************************************************)
(* A rule that refuses, and the condition it was made of.                  *)
(***************************************************************************)
\* A rule of this field, operator and list of values refuses an answer, on its own or
\* among alternatives.
RowRefuses(c, f, op, items) ==
  LET given == FilterValue(c, f) IN
  \/ given # {} /\ RuleMatches(op, given, items) \notin {"yes", "unclear"}
  \/ given = {} /\ IsExhaustiveEmpty(c, f)

\* The words of the filters, one for each word of the model.
LEMMA MappedWords ==
  ASSUME NEW T, NEW s \in Seq(T)
  PROVE  LET w == [i \in DOMAIN s |-> MapWord(s[i])] IN
         /\ w \in Seq(ValuesOf(w)) /\ Len(w) = Len(s)
         /\ ValuesOf(w) = {MapWord(v) : v \in ValuesOf(s)}
<1> DEFINE w == [i \in DOMAIN s |-> MapWord(s[i])]
<1>1. Len(s) \in Nat /\ DOMAIN s = 1..Len(s) BY SequenceDomain
<1>2. DOMAIN w = DOMAIN s /\ \A i \in DOMAIN s : w[i] = MapWord(s[i]) OBVIOUS
<1>3. w \in [1..Len(s) -> ValuesOf(w)] BY <1>1, <1>2 DEF ValuesOf
<1> HIDE DEF w
<1>4. w \in Seq(ValuesOf(w)) /\ Len(w) = Len(s) BY <1>1, <1>3
<1>5. ValuesOf(w) = {MapWord(v) : v \in ValuesOf(s)}
  <2>1. \A x : x \in ValuesOf(w) => x \in {MapWord(v) : v \in ValuesOf(s)} BY <1>2 DEF ValuesOf
  <2>2. \A v \in ValuesOf(s) : MapWord(v) \in ValuesOf(w) BY <1>2 DEF ValuesOf
  <2> QED BY <2>1, <2>2
<1> QED BY <1>4, <1>5 DEF w

\* A list of words refuses who is none of them.
LEMMA ListRefuses ==
  ASSUME NEW given, NEW T, NEW w \in Seq(T), NEW op \in {"EQ", "IN"},
         op = "EQ" => Len(w) <= 1, given \cap DOMAIN ChildAgeRange = {},
         RuleMatches(op, given, w) \notin {"yes", "unclear"}
  PROVE  given \cap ValuesOf(w) = {} /\ (op = "EQ" => w # <<>>)
<1>1. CASE op = "IN"
  <2>1. \A a \in DOMAIN ChildAgeRange : given # {a} OBVIOUS
  <2>2. RuleMatches("IN", given, w) = Listed(given, ValuesOf(w)) BY <2>1, InMatches
  <2>3. Listed(given, ValuesOf(w)) \notin {"yes", "unclear"} BY <1>1, <2>2
  <2> QED BY <1>1, <2>3 DEF Listed, Decide
<1>2. CASE op = "EQ"
  <2>1. RuleMatches("EQ", given, w) = IF w = <<>> THEN "unclear" ELSE Listed(given, {w[1]})
    BY DEF RuleMatches
  <2>2. w # <<>> /\ Listed(given, {w[1]}) \notin {"yes", "unclear"} BY <1>2, <2>1
  <2>3. given \cap {w[1]} = {} BY <2>2 DEF Listed, Decide
  <2>4. DOMAIN w = {1}
    <3>1. Len(w) \in Nat /\ DOMAIN w = 1..Len(w) BY SequenceDomain
    <3>2. 1 \in DOMAIN w BY <2>2, SequenceDomain
    <3>3. Len(w) = 1 BY <1>2, <3>1, <3>2
    <3> QED BY <3>1, <3>3
  <2>5. ValuesOf(w) = {w[1]} BY <2>4 DEF ValuesOf
  <2> QED BY <2>2, <2>3, <2>5
<1> QED BY <1>1, <1>2

\* A comparison refuses who is refused with each of his answers.
LEMMA ComparisonRefuses ==
  ASSUME NEW given, NEW l, NEW op \in {"LTE", "LT", "GTE", "GT"},
         RuleMatches(op, given, l) \notin {"yes", "unclear"}
  PROVE  /\ l # <<>> /\ ToNumber(l[1]) # {}
         /\ \A t \in ToNumber(l[1]) : \A v \in given : NumericCompare(op, v, t) \notin {"yes", "unclear"}
<1>1. RuleMatches(op, given, l) =
        IF l = <<>> \/ ToNumber(l[1]) = {} THEN "unclear"
        ELSE NumericAnyOf(op, given, CHOOSE t \in ToNumber(l[1]) : TRUE)
  BY DEF RuleMatches
<1>2. l # <<>> /\ ToNumber(l[1]) # {} BY <1>1
<1> DEFINE t == CHOOSE u \in ToNumber(l[1]) : TRUE
           results == {NumericCompare(op, v, t) : v \in given}
<1>3. NumericAnyOf(op, given, t) \notin {"yes", "unclear"} BY <1>1, <1>2
<1>4. "yes" \notin results /\ "unclear" \notin results
  <2>1. NumericAnyOf(op, given, t) = Decide("yes" \in results, "unclear" \notin results)
    BY DEF NumericAnyOf
  <2> HIDE DEF results, t
  <2> QED BY <1>3, <2>1 DEF Decide
<1>5. \A v \in given : NumericCompare(op, v, t) \notin {"yes", "unclear"} BY <1>4
<1>6. t \in ToNumber(l[1]) BY <1>2
<1> HIDE DEF t
<1>7. ToNumber(l[1]) = {t} BY <1>6, NumberOfText
<1> QED BY <1>2, <1>5, <1>7

\* What is no number and no bucket is not compared.
LEMMA WordIsUnclear ==
  ASSUME NEW v, v \notin Quantities, NEW op, NEW t
  PROVE  NumericCompare(op, v, t) = "unclear"
<1>1. v \notin DOMAIN IncomeRange /\ v \notin DOMAIN ChildAgeRange /\ v \notin DOMAIN Numeral
  BY DEF Quantities
<1>2. DOMAIN IncomePercent = DOMAIN IncomeRange BY DEF IncomePercent, IncomeRange
<1>3. ToNumber(v) = {} BY <1>1, <1>2 DEF ToNumber
<1> QED BY <1>1, <1>3 DEF NumericCompare

\* What an operator does with an answer of words.
LEMMA WordsRefuse ==
  ASSUME NEW given, given # {}, given \cap Quantities = {}, NEW l, NEW op,
         RuleMatches(op, given, l) \notin {"yes", "unclear"}
  PROVE  op \in {"EQ", "IN"}
<1>1. CASE op \in {"LTE", "LT", "GTE", "GT"}
  <2>1. PICK t \in ToNumber(l[1]) : TRUE BY <1>1, ComparisonRefuses
  <2>2. PICK v \in given : TRUE OBVIOUS
  <2>3. NumericCompare(op, v, t) \notin {"yes", "unclear"} BY <1>1, ComparisonRefuses
  <2>4. v \notin Quantities OBVIOUS
  <2> QED BY <2>3, <2>4, WordIsUnclear
<1>2. CASE op = "EXISTS"
  <2>1. RuleMatches(op, given, l) = Decide(given # {}, TRUE) BY <1>2 DEF RuleMatches
  <2> QED BY <2>1 DEF Decide
<1>3. CASE op \notin {"EQ", "IN", "LTE", "LT", "GTE", "GT", "EXISTS"}
  <2>1. RuleMatches(op, given, l) = "unclear" BY <1>3 DEF RuleMatches
  <2> QED BY <2>1
<1> QED BY <1>1, <1>2, <1>3

\* The verdicts on a condition.
LEMMA VerdictsAre ==
  /\ \A n : Kept(n).leaf = {n} /\ Kept(n).unsupported = {}
  /\ Gone.leaf = {} /\ Gone.removed = TRUE
  /\ \A f, n : Unsupported(f, n).leaf = {} /\ Unsupported(f, n).unsupported # {}
  /\ \A f, n : Unknown(f, n).leaf = {} /\ Unknown(f, n).unknown # {}
<1>1. \A n : Kept(n).leaf = {n} /\ Kept(n).unsupported = {} BY DEF Kept
<1>2. /\ Gone.leaf = {} /\ Gone.removed = TRUE
      /\ DOMAIN Gone = {"leaf", "unsupported", "unknown", "removed"}
  BY DEF Gone
<1>3. \A f, n : Unsupported(f, n).leaf = {} /\ Unsupported(f, n).unsupported # {}
  BY <1>2 DEF Unsupported
<1>4. \A f, n : Unknown(f, n).leaf = {} /\ Unknown(f, n).unknown # {} BY <1>2 DEF Unknown
<1> QED BY <1>1, <1>2, <1>3, <1>4

\* What becomes of the conditions of a stage of life.
LEMMA StageVerdict ==
  ASSUME NEW n, NEW m \in ValidateStage(n).leaf
  PROVE  LET valid == Select(n.value, Tokens(n.value) \cap StageAllowed) IN
         /\ valid # <<>>
         /\ m = [n EXCEPT !.value = OneOrList(valid),
                          !.op = IF Len(valid) > 1 \/ n.op = "IN" THEN "IN" ELSE "EQ"]
<1> DEFINE valid == Select(n.value, Tokens(n.value) \cap StageAllowed)
           born == Tokens(n.value) \cap BirthEvents # {}
           out == [n EXCEPT !.value = OneOrList(valid),
                            !.op = IF Len(valid) > 1 \/ n.op = "IN" THEN "IN" ELSE "EQ"]
<1>1. ValidateStage(n) =
        IF valid = <<>>
        THEN IF born THEN Unsupported("birth_event", n)
             ELSE IF Holds(n.value) THEN Unknown("stage", n) ELSE Gone
        ELSE IF born THEN [Unsupported("birth_event", n) EXCEPT !.leaf = {out}] ELSE Kept(out)
  BY DEF ValidateStage
<1> HIDE DEF valid, born, out
<1>2. CASE valid = <<>>
  <2>1. ValidateStage(n).leaf = {} BY <1>1, <1>2, VerdictsAre
  <2> QED BY <2>1
<1>3. CASE valid # <<>>
  <2>1. ValidateStage(n).leaf = {out} BY <1>1, <1>3, VerdictsAre
  <2> QED BY <1>3, <2>1 DEF out, valid
<1> QED BY <1>2, <1>3

\* The conditions of an age, of a level of income, of a circumstance and of a region.
LEMMA ChildAgeVerdict ==
  ASSUME NEW n, NEW m \in ValidateChildAge(n).leaf
  PROVE  Ints(n.value) # {} /\ m = [n EXCEPT !.value.items = IntItems(n.value)]
<1>1. Ints(n.value) # {} /\ m \in Kept([n EXCEPT !.value.items = IntItems(n.value)]).leaf
  BY VerdictsAre DEF ValidateChildAge
<1> QED BY <1>1, VerdictsAre

LEMMA MedianIncomeVerdict ==
  ASSUME NEW n, NEW m \in ValidateMedianIncome(n).leaf
  PROVE  ExtractPercent(n) # None /\ m = AsPercent(n, n.op)
<1>1. ExtractPercent(n) # None /\ m \in Kept(AsPercent(n, n.op)).leaf
  BY VerdictsAre DEF ValidateMedianIncome
<1> QED BY <1>1, VerdictsAre

LEMMA IncomeStatusVerdict ==
  ASSUME NEW n, NEW m \in ValidateIncomeStatus(n).leaf
  PROVE  m = n \/ (StatesPercent(n) /\ ExtractPercent(n) # None /\ m = AsPercent(n, None))
<1>1. \/ m \in Kept(n).leaf
      \/ StatesPercent(n) /\ ExtractPercent(n) # None /\ m \in Kept(AsPercent(n, None)).leaf
  BY VerdictsAre DEF ValidateIncomeStatus, StatesPercent
<1> QED BY <1>1, VerdictsAre

LEMMA SpecialVerdict ==
  ASSUME NEW n, NEW m \in ValidateSpecial(n).leaf
  PROVE  LET valid == Select(n.value, Tokens(n.value) \cap SpecialAllowed) IN
         /\ m = [n EXCEPT !.value = OneOrList(valid), !.op = IF Len(valid) > 1 THEN "IN" ELSE @]
         /\ Tokens(n.value) # {}
         /\ ValidateSpecial(n).unsupported = {} => Tokens(n.value) \subseteq SpecialAllowed
<1> DEFINE valid == Select(n.value, Tokens(n.value) \cap SpecialAllowed)
           out == [n EXCEPT !.value = OneOrList(valid), !.op = IF Len(valid) > 1 THEN "IN" ELSE @]
           left == IF valid = <<>> THEN {} ELSE {out}
           half == [Unsupported("special_condition", n) EXCEPT !.leaf = left]
<1>1. ValidateSpecial(n) =
        IF "mismatch" \in n.text.marks THEN Unsupported("special_condition", n)
        ELSE IF Tokens(n.value) = {} THEN [Gone EXCEPT !.removed = FALSE]
        ELSE IF Tokens(n.value) \subseteq SpecialAllowed THEN Kept(out) ELSE half
  BY DEF ValidateSpecial
<1> HIDE DEF valid, out
<1>2. half.leaf \subseteq {out} /\ half.unsupported # {} BY VerdictsAre
<1>3. [Gone EXCEPT !.removed = FALSE].leaf = {} BY VerdictsAre
<1>4. Unsupported("special_condition", n).leaf = {} /\ Kept(out).leaf = {out} BY VerdictsAre
<1> HIDE DEF half
<1>5. "mismatch" \notin n.text.marks /\ Tokens(n.value) # {} BY <1>1, <1>3, <1>4
<1>6. m = out BY <1>1, <1>2, <1>4, <1>5
<1>7. ValidateSpecial(n).unsupported = {} => Tokens(n.value) \subseteq SpecialAllowed
  BY <1>1, <1>2, <1>5
<1> QED BY <1>5, <1>6, <1>7 DEF out, valid

LEMMA RegionVerdict ==
  ASSUME NEW n, NEW m \in ValidateRegion(n).leaf
  PROVE  Holds(n.value) /\ m = n
<1>1. Holds(n.value) /\ m \in Kept(n).leaf BY VerdictsAre DEF ValidateRegion
<1> QED BY <1>1, VerdictsAre

\* A condition, and what validation leaves alone of it.
IsLeaf(n) == DOMAIN n = {"up", "op", "field", "value", "text", "sure"} /\ HoldsValues(n)
Keeps(n, m) ==
  /\ DOMAIN m = DOMAIN n /\ m.up = n.up /\ m.text = n.text /\ m.sure = n.sure
  /\ IsList(m.value.items)

LEMMA LeafKeepsItself == ASSUME NEW n, IsLeaf(n) PROVE Keeps(n, n)
BY DEF IsLeaf, HoldsValues, Keeps, IsList

LEMMA StageKeeps ==
  ASSUME NEW n, IsLeaf(n), NEW m \in ValidateStage(n).leaf
  PROVE  LET valid == Select(n.value, Tokens(n.value) \cap StageAllowed) IN
         /\ Keeps(n, m) /\ m.field = n.field /\ m.value.items = valid /\ valid # <<>>
         /\ m.op = IF Len(valid) > 1 \/ n.op = "IN" THEN "IN" ELSE "EQ"
         /\ valid \in Seq(ValueTexts) /\ ValuesOf(valid) = Tokens(n.value) \cap StageAllowed
<1> DEFINE valid == Select(n.value, Tokens(n.value) \cap StageAllowed)
           op == IF Len(valid) > 1 \/ n.op = "IN" THEN "IN" ELSE "EQ"
<1>1. valid # <<>> /\ m = [n EXCEPT !.value = OneOrList(valid), !.op = op] BY StageVerdict
<1>2. n.value.items \in Seq(ValueTexts) BY DEF IsLeaf, HoldsValues
<1>3. /\ valid \in Seq(ValueTexts)
      /\ ValuesOf(valid) = ValuesOf(n.value.items) \cap (Tokens(n.value) \cap StageAllowed)
  BY <1>2, SelectIs
<1>4. Tokens(n.value) \subseteq ValuesOf(n.value.items) BY DEF Tokens
<1>5. ValuesOf(valid) = Tokens(n.value) \cap StageAllowed BY <1>3, <1>4
<1> HIDE DEF valid, op
<1>6. OneOrList(valid).items = valid BY DEF OneOrList
<1>7. /\ m.value.items = valid /\ m.op = op /\ m.field = n.field
      /\ DOMAIN m = DOMAIN n /\ m.up = n.up /\ m.text = n.text /\ m.sure = n.sure
  BY <1>1, <1>6 DEF IsLeaf
<1>8. IsList(m.value.items) BY <1>3, <1>7 DEF IsList
<1> QED BY <1>1, <1>3, <1>5, <1>7, <1>8 DEF Keeps, op, valid

LEMMA SpecialKeeps ==
  ASSUME NEW n, IsLeaf(n), NEW m \in ValidateSpecial(n).leaf
  PROVE  /\ Keeps(n, m) /\ m.field = n.field
         /\ Tokens(n.value) # {} /\ m.value.items \in Seq(ValueTexts)
         /\ ValidateSpecial(n).unsupported = {} =>
              Tokens(n.value) \subseteq SpecialAllowed /\ ValuesOf(m.value.items) = Tokens(n.value)
<1> DEFINE valid == Select(n.value, Tokens(n.value) \cap SpecialAllowed)
           op == IF Len(valid) > 1 THEN "IN" ELSE n.op
<1>1. /\ m = [n EXCEPT !.value = OneOrList(valid), !.op = op]
      /\ Tokens(n.value) # {}
      /\ ValidateSpecial(n).unsupported = {} => Tokens(n.value) \subseteq SpecialAllowed
  BY SpecialVerdict
<1>2. n.value.items \in Seq(ValueTexts) BY DEF IsLeaf, HoldsValues
<1>3. /\ valid \in Seq(ValueTexts)
      /\ ValuesOf(valid) = ValuesOf(n.value.items) \cap (Tokens(n.value) \cap SpecialAllowed)
  BY <1>2, SelectIs
<1>4. Tokens(n.value) \subseteq ValuesOf(n.value.items) BY DEF Tokens
<1>5. Tokens(n.value) \subseteq SpecialAllowed => ValuesOf(valid) = Tokens(n.value) BY <1>3, <1>4
<1> HIDE DEF valid, op
<1>6. OneOrList(valid).items = valid BY DEF OneOrList
<1>7. /\ m.value.items = valid /\ m.field = n.field
      /\ DOMAIN m = DOMAIN n /\ m.up = n.up /\ m.text = n.text /\ m.sure = n.sure
  BY <1>1, <1>6 DEF IsLeaf
<1>8. IsList(m.value.items) BY <1>3, <1>7 DEF IsList
<1> QED BY <1>1, <1>3, <1>5, <1>7, <1>8 DEF Keeps

LEMMA ChildAgeKeeps ==
  ASSUME NEW n, IsLeaf(n), NEW m \in ValidateChildAge(n).leaf
  PROVE  /\ Keeps(n, m) /\ m.field = n.field /\ m.op = n.op
         /\ m.value.items = IntItems(n.value) /\ Ints(n.value) # {}
<1> DEFINE l == IntItems(n.value)
<1>1. Ints(n.value) # {} /\ m = [n EXCEPT !.value.items = l] BY ChildAgeVerdict
<1>2. l \in Seq(DOMAIN Numeral) BY IntItemsAre DEF IsLeaf, HoldsValues
<1> HIDE DEF l
<1>3. /\ m.field = n.field /\ m.op = n.op /\ m.value = [n.value EXCEPT !.items = l]
      /\ DOMAIN m = DOMAIN n /\ m.up = n.up /\ m.text = n.text /\ m.sure = n.sure
  BY <1>1 DEF IsLeaf
<1>4. m.value.items = l BY <1>3 DEF IsLeaf, HoldsValues
<1>5. IsList(m.value.items) BY <1>2, <1>4 DEF IsList
<1> QED BY <1>1, <1>3, <1>4, <1>5 DEF Keeps, l

LEMMA PercentKeeps ==
  ASSUME NEW n, IsLeaf(n), NEW d, ExtractPercent(n) # None
  PROVE  LET m == AsPercent(n, d) IN
         /\ Keeps(n, m) /\ m.field = "median_income_percent" /\ m.op = PercentOperator(n, d)
         /\ m.value.items = <<ExtractPercent(n)>> /\ ExtractPercent(n) \in DOMAIN Numeral
         /\ m.op \in {"LTE", "LT", "GTE", "GT"}
<1> DEFINE m == AsPercent(n, d)
           p == ExtractPercent(n)
           op == PercentOperator(n, d)
           value == [shape |-> "percent", items |-> <<p>>]
<1>1. m = [n EXCEPT !.field = "median_income_percent", !.op = op, !.value = value] BY DEF AsPercent
<1>2. p \in DOMAIN Numeral BY PercentIs DEF IsLeaf
<1>3. op \in {"LTE", "LT", "GTE", "GT"} BY DEF PercentOperator
<1> HIDE DEF p, op, m
<1>4. value.items = <<p>> OBVIOUS
<1> HIDE DEF value
<1>5. /\ m.field = "median_income_percent" /\ m.op = op /\ m.value = value
      /\ DOMAIN m = DOMAIN n /\ m.up = n.up /\ m.text = n.text /\ m.sure = n.sure
  BY <1>1 DEF IsLeaf
<1>6. m.value.items = <<p>> BY <1>4, <1>5
<1>7. IsList(m.value.items) BY <1>2, <1>6 DEF IsList
<1>8. Keeps(n, m) BY <1>5, <1>7 DEF Keeps
<1> QED BY <1>2, <1>3, <1>5, <1>6, <1>8 DEF m, op, p

\* What a rule asks for, and what may be answered for it.
LEMMA RefusalIs ==
  ASSUME NEW c, NEW f, f # "age", NEW op, NEW l, RowRefuses(c, f, op, l)
  PROVE  LET given == ConditionValue(c, f) IN
         \/ given # {} /\ RuleMatches(op, given, l) \notin {"yes", "unclear"}
         \/ f = "special" /\ "special" \in DOMAIN c /\ c["special"] = {}
<1>1. FilterValue(c, f) = ConditionValue(c, f) BY DEF FilterValue
<1> QED BY <1>1 DEF RowRefuses, IsExhaustiveEmpty

\* A stage of life that is refused is none of those listed.
LEMMA StageRefuses ==
  ASSUME NEW c \in Answers, NEW n, IsLeaf(n), n.field = "stage", ~Misread(n),
         n.sure, n.text.quoted, NEW m \in ValidateStage(n).leaf,
         RowRefuses(c, "stage", m.op, [i \in DOMAIN m.value.items |-> MapWord(m.value.items[i])])
  PROVE  Refuted(n, c)
<1> DEFINE valid == m.value.items
           w == [i \in DOMAIN valid |-> MapWord(valid[i])]
           given == ConditionValue(c, "stage")
<1>1. /\ valid \in Seq(ValueTexts) /\ valid # <<>> /\ ValuesOf(valid) = Tokens(n.value) \cap StageAllowed
      /\ m.op = IF Len(valid) > 1 \/ n.op = "IN" THEN "IN" ELSE "EQ"
  BY StageKeeps
<1>2. ValuesOf(valid) # {}
  <2> HIDE DEF valid, w, given
  <2>1. valid \in Seq(ValueTexts) /\ valid # <<>> BY <1>1
  <2> QED BY ONLY <2>1, SequenceDomain
<1>3. n.op \in {"EQ", "IN", "EXISTS"} BY DEF Misread, OperatorLost
<1>4. ~PartlyRead(n) BY DEF Misread
<1>5. Tokens(n.value) # {} /\ Tokens(n.value) \subseteq StageAllowed BY <1>1, <1>2, <1>4 DEF PartlyRead
<1>6. ValuesOf(valid) = Tokens(n.value) BY <1>1, <1>5
<1>7. /\ w \in Seq(ValuesOf(w)) /\ Len(w) = Len(valid)
      /\ ValuesOf(w) = {MapWord(v) : v \in Tokens(n.value)}
  <2> HIDE DEF valid
  <2> QED BY <1>1, <1>6, MappedWords
<1>8. given # {} /\ RuleMatches(m.op, given, w) \notin {"yes", "unclear"} BY RefusalIs
<1>9. given \cap DOMAIN ChildAgeRange = {} BY AnswerAssumption DEF Quantities
<1> HIDE DEF w, given, valid
<1>10. m.op \in {"EQ", "IN"} /\ (m.op = "EQ" => Len(w) <= 1)
  <2>1. Len(valid) \in Nat BY <1>1, SequenceDomain
  <2> QED BY <1>1, <1>7, <2>1
<1>11. given \cap ValuesOf(w) = {} BY <1>7, <1>8, <1>9, <1>10, ListRefuses
<1>12. KnownWordsDenied(n, StageAllowed, given) BY <1>3, <1>5, <1>7, <1>11 DEF KnownWordsDenied
<1> QED BY <1>8, <1>12 DEF Refuted, given

\* A circumstance that is refused is none of the user's.
LEMMA SpecialRefuses ==
  ASSUME NEW c \in Answers, NEW n, IsLeaf(n), n.field = "special_condition", ~Misread(n),
         n.sure, n.text.quoted, NEW m \in ValidateSpecial(n).leaf,
         ValidateSpecial(n).unsupported = {},
         RowRefuses(c, "special", "IN", [i \in DOMAIN m.value.items |-> MapWord(m.value.items[i])])
  PROVE  Refuted(n, c)
<1> DEFINE valid == m.value.items
           w == [i \in DOMAIN valid |-> MapWord(valid[i])]
           given == ConditionValue(c, "special")
<1>1. /\ valid \in Seq(ValueTexts) /\ ValuesOf(valid) = Tokens(n.value)
      /\ Tokens(n.value) # {} /\ Tokens(n.value) \subseteq SpecialAllowed
  BY SpecialKeeps
<1>2. n.op \in {"EQ", "IN", "EXISTS"} BY DEF Misread, OperatorLost
<1>3. w \in Seq(ValuesOf(w)) /\ ValuesOf(w) = {MapWord(v) : v \in Tokens(n.value)}
  <2> HIDE DEF valid
  <2> QED BY <1>1, MappedWords
<1>4. \/ given # {} /\ RuleMatches("IN", given, w) \notin {"yes", "unclear"}
      \/ "special" \in DOMAIN c /\ c["special"] = {}
  BY RefusalIs
<1>5. given \cap DOMAIN ChildAgeRange = {} BY AnswerAssumption DEF Quantities
<1>6. ConditionKey("special") = "special" BY DEF ConditionKey
<1>7. given # {} => "special" \in DOMAIN c /\ c["special"] = given BY <1>6 DEF ConditionValue
<1> HIDE DEF w, given, valid
<1>8. "special" \in DOMAIN c /\ c["special"] \cap ValuesOf(w) = {}
  <2>1. CASE given # {} /\ RuleMatches("IN", given, w) \notin {"yes", "unclear"}
    <3>1. given \cap ValuesOf(w) = {} BY <1>3, <1>5, <2>1, ListRefuses
    <3> QED BY <1>7, <2>1, <3>1
  <2>2. CASE "special" \in DOMAIN c /\ c["special"] = {} BY <2>2
  <2> QED BY <1>4, <2>1, <2>2
<1>9. KnownWordsDenied(n, SpecialAllowed, c["special"]) BY <1>1, <1>2, <1>3, <1>8 DEF KnownWordsDenied
<1> QED BY <1>8, <1>9 DEF Refuted

\* The ages of a bucket, and of an answer that is none.
LEMMA AgesAre ==
  /\ \A a \in DOMAIN ChildAgeRange : Ages({a}) = ChildAgeRange[a][1]..ChildAgeRange[a][2]
  /\ Ages({"preborn"}) = {}
<1>1. ASSUME NEW a \in DOMAIN ChildAgeRange
      PROVE  Ages({a}) = ChildAgeRange[a][1]..ChildAgeRange[a][2]
  <2>1. {a} \cap DOMAIN ChildAgeRange = {a} OBVIOUS
  <2> QED BY <2>1 DEF Ages
<1>2. "preborn" \notin DOMAIN ChildAgeRange BY DEF ChildAgeRange
<1>3. {"preborn"} \cap DOMAIN ChildAgeRange = {} BY <1>2
<1> QED BY <1>1, <1>3 DEF Ages

\* An age bucket that a list or a bound refuses has none of the ages asked for.
LEMMA ListedAgesRefuse ==
  ASSUME NEW a \in DOMAIN ChildAgeRange, NEW allowed \in SUBSET Int,
         ChildAgeInSet(ChildAgeRange[a][1], ChildAgeRange[a][2], allowed) \notin {"yes", "unclear"}
  PROVE  Ages({a}) \cap allowed = {}
<1> DEFINE low == ChildAgeRange[a][1]
           up == ChildAgeRange[a][2]
<1>1. low \in Int /\ up \in Int BY BoundsAreNumbers
<1>2. Ages({a}) = low..up BY AgesAre
<1> HIDE DEF low, up
<1>3. CASE up = Infinity
  <2>1. \A n \in allowed : n < low BY <1>3 DEF ChildAgeInSet, Decide, low, up
  <2> QED BY <1>1, <1>2, <2>1
<1>4. CASE up # Infinity
  <2>1. (low..up) \cap allowed = {} BY <1>4 DEF ChildAgeInSet, Decide, low, up
  <2> QED BY <1>2, <2>1
<1> QED BY <1>3, <1>4

LEMMA BoundedAgesRefuse ==
  ASSUME NEW a \in DOMAIN ChildAgeRange, NEW op \in {"LTE", "LT", "GTE", "GT"}, NEW t \in Int,
         NumericCompare(op, a, t) \notin {"yes", "unclear"}
  PROVE  ~Reaches(op, Ages({a}), t)
<1> DEFINE low == ChildAgeRange[a][1]
           up == ChildAgeRange[a][2]
<1>1. low \in Int /\ up \in Int BY BoundsAreNumbers
<1>2. Ages({a}) = low..up BY AgesAre
<1>3. a \notin DOMAIN IncomeRange BY DEF ChildAgeRange, IncomeRange
<1>4. NumericCompare(op, a, t) = ChildAgeBucketMatch(op, low, up, t) BY <1>3 DEF NumericCompare
<1> HIDE DEF low, up
<1>5. ChildAgeBucketMatch(op, low, up, t) \in {"yes", "no", "unclear"}
  <2>1. \A x, y : Decide(x, y) \in {"yes", "no", "unclear"} BY DEF Decide
  <2> QED BY <2>1 DEF ChildAgeBucketMatch
<1>6. ChildAgeBucketMatch(op, low, up, t) = "no" BY <1>4, <1>5
<1>7. \A k \in low..up : ~Compares(op, k, t) BY <1>1, <1>6, ChildAgeBucketIsSound
<1> QED BY <1>2, <1>7 DEF Reaches

\* An age that is refused is none of those asked for.
LEMMA ChildAgeRefuses ==
  ASSUME NEW c \in Answers, NEW n, IsLeaf(n), n.field = "child_age", ~Misread(n),
         n.sure, n.text.quoted, NEW m \in ValidateChildAge(n).leaf,
         RowRefuses(c, "child_age", m.op, m.value.items)
  PROVE  Refuted(n, c)
<1> DEFINE items == n.value.items
           l == IntItems(n.value)
           given == ConditionValue(c, "child_age")
           numbers == NumberOf(n)
<1>1. m.op = n.op /\ m.value.items = l /\ Ints(n.value) # {} BY ChildAgeKeeps
<1>2. items \in Seq(ValueTexts) BY DEF IsLeaf, HoldsValues
<1>3. l \in Seq(DOMAIN Numeral) /\ ValuesOf(l) = UNION {ToInt(v) : v \in ValuesOf(items)}
  BY <1>2, IntItemsAre
<1>4. UNION {ToNumber(v) : v \in ValuesOf(l)} = numbers BY <1>2, NumbersAre
<1>5. n.op # "EQ" /\ n.value.shape # "range" /\ Ints(n.value) = ValuesOf(items)
  BY <1>1 DEF Misread, AgeByEquality, RangeAsBound, PartlyRead
<1>6. n.op # "IN" => ~(Cardinality(ValuesOf(items)) > 1) BY DEF Misread, FirstOnly
<1>7. given # {} /\ RuleMatches(n.op, given, l) \notin {"yes", "unclear"} BY <1>1, RefusalIs
<1>8. PICK a \in DOMAIN ChildAgeRange \cup {"preborn"} : given = {a}
  <2>1. given = ConditionValue(c, "childAge") BY DEF ConditionValue, ConditionKey
  <2>2. PICK a \in DOMAIN ChildAgeRange \cup {"preborn"} : ConditionValue(c, "childAge") \subseteq {a}
    BY AnswerAssumption
  <2> QED BY <1>7, <2>1, <2>2
<1>9. ValuesOf(l) # {} /\ l # <<>>
  <2>1. PICK v \in ValuesOf(items) : ToInt(v) # {} BY <1>1 DEF Ints
  <2>2. ValuesOf(l) # {} BY <1>3, <2>1
  <2> QED BY <1>3, <2>2, SequenceDomain
<1>10. \A t \in ValuesOf(l) : ToNumber(t) # {} /\ ToNumber(t) \subseteq Int
  <2> SUFFICES ASSUME NEW t \in ValuesOf(l) PROVE ToNumber(t) # {} /\ ToNumber(t) \subseteq Int
    OBVIOUS
  <2>1. t \in DOMAIN Numeral BY <1>3, ValuesAreFinite
  <2> QED BY <2>1, NumeralIsNumber
<1> HIDE DEF l, given, numbers, items
<1>11. numbers # {} /\ numbers \subseteq Int
  <2>1. PICK t \in ValuesOf(l) : TRUE BY <1>9
  <2>2. ToNumber(t) # {} /\ ToNumber(t) \subseteq numbers BY <1>4, <1>10, <2>1
  <2>3. numbers \subseteq Int BY <1>4, <1>10
  <2> QED BY <2>2, <2>3
<1>12. CASE n.op = "IN"
  <2>1. Ages(given) \cap numbers = {}
    <3>1. CASE a = "preborn" BY <1>8, <3>1, AgesAre
    <3>2. CASE a \in DOMAIN ChildAgeRange
      <4>1. RuleMatches("IN", given, l) = ChildAgeInSet(ChildAgeRange[a][1], ChildAgeRange[a][2], numbers)
        BY <1>4, <1>8, <1>9, <1>10, <3>2, InMatches
      <4>2. ChildAgeInSet(ChildAgeRange[a][1], ChildAgeRange[a][2], numbers) \notin {"yes", "unclear"}
        BY <1>7, <1>12, <4>1
      <4> QED BY <1>8, <1>11, <3>2, <4>2, ListedAgesRefuse
    <3> QED BY <3>1, <3>2
  <2>2. AgeDenied(n, given) BY <1>5, <1>7, <1>11, <1>12, <2>1 DEF AgeDenied, numbers, items
  <2> QED BY <2>2 DEF Refuted, given
<1>13. CASE n.op \in {"LTE", "LT", "GTE", "GT"}
  <2>1. /\ ToNumber(l[1]) # {}
        /\ \A t \in ToNumber(l[1]) : \A v \in given : NumericCompare(n.op, v, t) \notin {"yes", "unclear"}
    BY <1>7, <1>13, ComparisonRefuses
  <2>2. PICK t \in ToNumber(l[1]) : TRUE BY <2>1
  <2>3. l[1] \in ValuesOf(l) BY <1>3, <1>9, SequenceDomain
  <2>4. t \in numbers /\ t \in Int BY <1>4, <1>10, <2>2, <2>3
  <2>5. numbers = {t}
    <3>1. PICK v \in ValuesOf(items) : ToInt(v) # {} BY <1>3, <1>9
    <3>2. IsFiniteSet(ValuesOf(items)) BY <1>2, ValuesAreFinite
    <3>3. ~(Cardinality(ValuesOf(items)) > 1) BY <1>6, <1>13
    <3>4. ValuesOf(items) = {v} BY <3>1, <3>2, <3>3, OnlyOne
    <3>5. ValuesOf(l) = ToInt(v) BY <1>3, <3>4
    <3>6. ValuesOf(l) = {l[1]} BY <2>3, <3>5, ToIntIs
    <3>7. ToNumber(l[1]) = {t} BY <2>2, NumberOfText
    <3> QED BY <1>4, <3>6, <3>7
  <2>6. ~Reaches(n.op, Ages(given), t)
    <3>1. CASE a = "preborn" BY <1>8, <3>1, AgesAre DEF Reaches
    <3>2. CASE a \in DOMAIN ChildAgeRange
      <4>1. NumericCompare(n.op, a, t) \notin {"yes", "unclear"} BY <1>8, <2>1, <2>2
      <4> QED BY <1>8, <1>13, <2>4, <3>2, <4>1, BoundedAgesRefuse
    <3> QED BY <3>1, <3>2
  <2>7. AgeDenied(n, given) BY <1>5, <1>7, <1>11, <1>13, <2>5, <2>6 DEF AgeDenied, numbers, items
  <2> QED BY <2>7 DEF Refuted, given
<1>14. CASE n.op \notin {"EQ", "IN", "LTE", "LT", "GTE", "GT"}
  <2>1. RuleMatches(n.op, given, l) \in {Decide(given # {}, TRUE), "unclear"} BY <1>14 DEF RuleMatches
  <2>2. Decide(given # {}, TRUE) = "yes" BY <1>7 DEF Decide
  <2> QED BY <1>7, <2>1, <2>2
<1> QED BY <1>5, <1>12, <1>13, <1>14

\* The percentages of a level of income.
LEMMA PercentsRefuse ==
  ASSUME NEW c \in Answers, NEW op \in {"LTE", "LT", "GTE", "GT"}, NEW p \in DOMAIN Numeral,
         RowRefuses(c, "income", op, <<p>>)
  PROVE  LET given == ConditionValue(c, "income") IN
         Percents(given) # {} /\ ~Reaches(op, Percents(given), Numeral[p])
<1> DEFINE given == ConditionValue(c, "income")
           l == <<p>>
           t == Numeral[p]
<1>1. given # {} /\ RuleMatches(op, given, l) \notin {"yes", "unclear"} BY RefusalIs
<1>2. given \subseteq DOMAIN IncomeRange \cup {"unknown"} BY AnswerAssumption
<1>3. l[1] = p OBVIOUS
<1>4. ToNumber(p) = {t} /\ t \in Int BY NumeralIsNumber
<1> HIDE DEF given, l, t
<1>5. \A v \in given : NumericCompare(op, v, t) \notin {"yes", "unclear"}
  BY <1>1, <1>3, <1>4, ComparisonRefuses
<1>6. "unknown" \notin given
  <2>1. "unknown" \notin DOMAIN Numeral BY NumberAssumption
  <2>2. "unknown" \notin DOMAIN IncomeRange /\ "unknown" \notin DOMAIN ChildAgeRange
    BY DEF IncomeRange, ChildAgeRange
  <2>3. "unknown" \notin Quantities BY <2>1, <2>2 DEF Quantities
  <2>4. NumericCompare(op, "unknown", t) = "unclear" BY <2>3, WordIsUnclear
  <2> QED BY <1>5, <2>4
<1>7. given \cap DOMAIN IncomeRange = given BY <1>2, <1>6
<1>8. Percents(given) = UNION {(IncomeRange[b][1] + 1)..IncomeRange[b][2] : b \in given}
  BY <1>7 DEF Percents
<1>9. ASSUME NEW v \in given PROVE \A k \in (IncomeRange[v][1] + 1)..IncomeRange[v][2] : ~Compares(op, k, t)
  <2> DEFINE low == IncomeRange[v][1]
             up == IncomeRange[v][2]
  <2>1. v \in DOMAIN IncomeRange BY <1>7
  <2>2. low \in Int /\ up \in Int BY <2>1, BoundsAreNumbers
  <2>3. NumericCompare(op, v, t) = IncomeBucketMatch(op, low, up, t) BY <2>1 DEF NumericCompare
  <2> HIDE DEF low, up
  <2>4. IncomeBucketMatch(op, low, up, t) \in {"yes", "no", "unclear"}
    <3>1. \A x, y : Decide(x, y) \in {"yes", "no", "unclear"} BY DEF Decide
    <3> QED BY <3>1 DEF IncomeBucketMatch
  <2>5. IncomeBucketMatch(op, low, up, t) = "no" BY <1>5, <2>3, <2>4
  <2>6. \A k \in (low + 1)..up : ~Compares(op, k, t) BY <1>4, <2>2, <2>5, IncomeBucketIsSound
  <2> QED BY <2>6 DEF low, up
<1>10. ~Reaches(op, Percents(given), t) BY <1>8, <1>9 DEF Reaches
<1>11. Percents(given) # {}
  <2>1. PICK v \in given : TRUE BY <1>1
  <2>2. v \in {"low", "mid1", "mid2", "high"} BY <1>7 DEF IncomeRange
  <2>3. IncomeRange[v][2] \in (IncomeRange[v][1] + 1)..IncomeRange[v][2]
    BY <2>2 DEF IncomeRange, Infinity
  <2> QED BY <1>8, <2>3
<1> QED BY <1>10, <1>11 DEF given, t

\* An income that is refused is none of those asked for, by either name.
LEMMA IncomeRefuses ==
  ASSUME NEW c \in Answers, NEW n, IsLeaf(n), n.sure, n.text.quoted,
         NEW d, ExtractPercent(n) # None,
         \/ n.field = "median_income_percent" /\ d = n.op
         \/ n.field = "income_status" /\ d = None /\ StatesPercent(n),
         RowRefuses(c, "income", AsPercent(n, d).op, AsPercent(n, d).value.items)
  PROVE  Refuted(n, c)
<1> DEFINE op == PercentOperator(n, d)
           p == ExtractPercent(n)
           given == ConditionValue(c, "income")
<1>1. /\ AsPercent(n, d).op = op /\ AsPercent(n, d).value.items = <<p>>
      /\ p \in DOMAIN Numeral /\ op \in {"LTE", "LT", "GTE", "GT"}
  BY PercentKeeps
<1>2. Percents(given) # {} /\ ~Reaches(op, Percents(given), Numeral[p]) BY <1>1, PercentsRefuse
<1>3. PercentDenied(n, op, given) BY <1>2 DEF PercentDenied
<1>4. ConditionValue(c, "median_income_percent") = given BY DEF ConditionValue, ConditionKey
<1> HIDE DEF op, given
<1> QED BY <1>3, <1>4 DEF Refuted, op, given

\* A word that is refused is none of those listed.
LEMMA WordRefuses ==
  ASSUME NEW c \in Answers, NEW n, IsLeaf(n), n.field \in WordFields, ~Misread(n),
         n.sure, n.text.quoted, RowRefuses(c, n.field, n.op, n.value.items)
  PROVE  Refuted(n, c)
<1> DEFINE items == n.value.items
           given == ConditionValue(c, n.field)
<1>1. n.field # "age" /\ n.field # "special" BY DEF WordFields, SoftFields
<1>2. given # {} /\ RuleMatches(n.op, given, items) \notin {"yes", "unclear"} BY <1>1, RefusalIs
<1>3. given \cap Quantities = {} BY AnswerAssumption
<1>4. items \in Seq(ValueTexts) BY DEF IsLeaf, HoldsValues
<1>5. n.op = "EQ" => ~(Cardinality(ValuesOf(items)) > 1) BY DEF Misread, FirstOnly
<1>6. n.op = "IN" => items # <<>> BY DEF Misread, NoList, Holds
<1> HIDE DEF items, given
<1>7. n.op \in {"EQ", "IN"} BY <1>2, <1>3, WordsRefuse
<1>8. given \cap DOMAIN ChildAgeRange = {} BY <1>3 DEF Quantities
<1>9. items # <<>> /\ given \cap ValuesOf(items) = {}
  <2>1. CASE n.op = "IN"
    <3>1. \A a \in DOMAIN ChildAgeRange : given # {a} BY <1>8
    <3>2. RuleMatches("IN", given, items) = Listed(given, ValuesOf(items)) BY <3>1, InMatches
    <3>3. Listed(given, ValuesOf(items)) \notin {"yes", "unclear"} BY <1>2, <2>1, <3>2
    <3>4. given \cap ValuesOf(items) = {} BY <3>3 DEF Listed, Decide
    <3> QED BY <1>6, <2>1, <3>4
  <2>2. CASE n.op = "EQ"
    <3>1. RuleMatches("EQ", given, items) =
            IF items = <<>> THEN "unclear" ELSE Listed(given, {items[1]})
      BY DEF RuleMatches
    <3>2. items # <<>> /\ Listed(given, {items[1]}) \notin {"yes", "unclear"} BY <1>2, <2>2, <3>1
    <3>3. given \cap {items[1]} = {} BY <3>2 DEF Listed, Decide
    <3>4. items[1] \in ValuesOf(items) BY <1>4, <3>2, SequenceDomain
    <3>5. IsFiniteSet(ValuesOf(items)) BY <1>4, ValuesAreFinite
    <3>6. ValuesOf(items) = {items[1]} BY <1>5, <2>2, <3>4, <3>5, OnlyOne
    <3> QED BY <3>2, <3>3, <3>6
  <2> QED BY <1>7, <2>1, <2>2
<1>10. WordsDenied(n, given) BY <1>2, <1>7, <1>9 DEF WordsDenied, Holds, items
<1> QED BY <1>10 DEF Refuted, given

\* What validation does with each field.
LEMMA ValidateLeafIs ==
  ASSUME NEW n
  PROVE  /\ n.field = "stage" => ValidateLeaf(n) = ValidateStage(n)
         /\ n.field = "child_age" => ValidateLeaf(n) = ValidateChildAge(n)
         /\ n.field = "income_status" => ValidateLeaf(n) = ValidateIncomeStatus(n)
         /\ n.field = "median_income_percent" => ValidateLeaf(n) = ValidateMedianIncome(n)
         /\ n.field = "special_condition" => ValidateLeaf(n) = ValidateSpecial(n)
         /\ n.field = "region" => ValidateLeaf(n) = ValidateRegion(n)
         /\ n.field \notin {"stage", "child_age", "income_status", "median_income_percent",
                            "special_condition", "region"} => ValidateLeaf(n) = Kept(n)
BY DEF ValidateLeaf

\* The fields of rules, by the fields of conditions.
LEMMA MapFieldIs ==
  ASSUME NEW f, NEW op, NEW l
  PROVE  /\ f = "stage" => MapField(f, op, l) = <<"stage", op, [i \in DOMAIN l |-> MapWord(l[i])]>>
         /\ f = "special_condition" =>
              MapField(f, op, l) = <<"special", "IN", [i \in DOMAIN l |-> MapWord(l[i])]>>
         /\ f = "median_income_percent" => MapField(f, op, l) = <<"income", op, l>>
         /\ f \notin {"stage", "special_condition", "median_income_percent"} =>
              MapField(f, op, l) = <<f, op, l>>
BY DEF MapField

LEMMA StrengthIs ==
  /\ \A f \in HardFields : MatchingStrength(f) = "hard"
  /\ \A f : f \notin HardFields /\ MatchingStrength(f) \notin {"follow_up", None} => f \in SoftFields
<1>1. ASSUME NEW f \in HardFields PROVE MatchingStrength(f) = "hard"
  <2>1. f \notin SoftFields /\ f \notin FollowUpFields BY DEF HardFields, SoftFields, FollowUpFields
  <2> QED BY <2>1 DEF MatchingStrength
<1>2. ASSUME NEW f, f \notin HardFields, MatchingStrength(f) \notin {"follow_up", None}
      PROVE  f \in SoftFields
  BY <1>2 DEF MatchingStrength
<1> QED BY <1>1, <1>2

\* What is kept of a condition, and the list of its rule.
LEMMA LeafKeeps ==
  ASSUME NEW n, IsLeaf(n), NEW m \in ValidateLeaf(n).leaf
  PROVE  Keeps(n, m) /\ IsList(MapField(m.field, m.op, m.value.items)[3])
<1>1. Keeps(n, m)
  <2>1. CASE n.field = "stage" BY <2>1, ValidateLeafIs, StageKeeps
  <2>2. CASE n.field = "child_age" BY <2>2, ValidateLeafIs, ChildAgeKeeps
  <2>3. CASE n.field = "income_status"
    <3>1. m \in ValidateIncomeStatus(n).leaf BY <2>3, ValidateLeafIs
    <3>2. m = n \/ (ExtractPercent(n) # None /\ m = AsPercent(n, None)) BY <3>1, IncomeStatusVerdict
    <3> QED BY <3>2, LeafKeepsItself, PercentKeeps
  <2>4. CASE n.field = "median_income_percent"
    <3>1. m \in ValidateMedianIncome(n).leaf BY <2>4, ValidateLeafIs
    <3>2. ExtractPercent(n) # None /\ m = AsPercent(n, n.op) BY <3>1, MedianIncomeVerdict
    <3> QED BY <3>2, PercentKeeps
  <2>5. CASE n.field = "special_condition" BY <2>5, ValidateLeafIs, SpecialKeeps
  <2>6. CASE n.field = "region" BY <2>6, ValidateLeafIs, RegionVerdict, LeafKeepsItself
  <2>7. CASE n.field \notin {"stage", "child_age", "income_status", "median_income_percent",
                             "special_condition", "region"}
    <3>1. m = n BY <2>7, ValidateLeafIs, VerdictsAre
    <3> QED BY <3>1, LeafKeepsItself
  <2> QED BY <2>1, <2>2, <2>3, <2>4, <2>5, <2>6, <2>7
<1> DEFINE l == m.value.items
           words == [i \in DOMAIN l |-> MapWord(l[i])]
<1>2. IsList(l) BY <1>1 DEF Keeps
<1>3. IsList(words)
  <2>1. PICK T : l \in Seq(T) BY <1>2 DEF IsList
  <2> HIDE DEF l
  <2>2. words \in Seq(ValuesOf(words)) BY <2>1, MappedWords
  <2> HIDE DEF words
  <2> QED BY <2>2 DEF IsList
<1>4. MapField(m.field, m.op, l)[3] \in {l, words}
  <2>1. \/ MapField(m.field, m.op, l) = <<m.field, m.op, l>>
        \/ MapField(m.field, m.op, l) = <<"income", m.op, l>>
        \/ MapField(m.field, m.op, l) = <<"stage", m.op, words>>
        \/ MapField(m.field, m.op, l) = <<"special", "IN", words>>
    BY MapFieldIs
  <2> HIDE DEF l, words
  <2> QED BY <2>1
<1> QED BY <1>1, <1>2, <1>3, <1>4

\* A condition that goes without a review being called for names no circumstance.
LEMMA LeafGoes ==
  ASSUME NEW n, ValidateLeaf(n).leaf = {}, ValidateLeaf(n).unsupported = {},
         ValidateLeaf(n).unknown = {}, ~ValidateLeaf(n).removed
  PROVE  n.field = "special_condition" /\ Tokens(n.value) = {}
<1> DEFINE v == ValidateLeaf(n)
<1>1. ASSUME NEW k PROVE v # Kept(k)
  <2>1. Kept(k).leaf = {k} BY VerdictsAre
  <2>2. k \notin v.leaf OBVIOUS
  <2> QED BY <2>1, <2>2
<1>2. v # Gone BY VerdictsAre
<1>3. ASSUME NEW f PROVE v # Unsupported(f, n) /\ v # Unknown(f, n) BY VerdictsAre
<1> HIDE DEF v
<1>4. n.field # "stage"
  <2> SUFFICES ASSUME n.field = "stage" PROVE FALSE
    OBVIOUS
  <2> DEFINE valid == Select(n.value, Tokens(n.value) \cap StageAllowed)
             out == [n EXCEPT !.value = OneOrList(valid),
                              !.op = IF Len(valid) > 1 \/ n.op = "IN" THEN "IN" ELSE "EQ"]
             half == [Unsupported("birth_event", n) EXCEPT !.leaf = {out}]
  <2>1. v \in {Unsupported("birth_event", n), Unknown("stage", n), Gone, half, Kept(out)}
    BY ValidateLeafIs DEF ValidateStage, v
  <2> HIDE DEF out
  <2>2. half.unsupported # {} BY VerdictsAre
  <2> HIDE DEF half
  <2>3. v # half BY <2>2 DEF v
  <2> QED BY <1>1, <1>2, <1>3, <2>1, <2>3
<1>5. n.field # "child_age"
  <2> SUFFICES ASSUME n.field = "child_age" PROVE FALSE
    OBVIOUS
  <2> DEFINE out == [n EXCEPT !.value.items = IntItems(n.value)]
  <2>1. v \in {Unsupported("clinical_measure", n), Gone, Unsupported("child_age", n), Kept(out)}
    BY ValidateLeafIs DEF ValidateChildAge, v
  <2> HIDE DEF out
  <2> QED BY <1>1, <1>2, <1>3, <2>1
<1>6. n.field # "income_status"
  <2> SUFFICES ASSUME n.field = "income_status" PROVE FALSE
    OBVIOUS
  <2>1. v \in {Unknown("median_income_percent", n), Kept(AsPercent(n, None)), Unknown("income_status", n), Kept(n)}
    BY ValidateLeafIs DEF ValidateIncomeStatus, v
  <2> QED BY <1>1, <1>3, <2>1
<1>7. n.field # "median_income_percent"
  <2> SUFFICES ASSUME n.field = "median_income_percent" PROVE FALSE
    OBVIOUS
  <2>1. v \in {Unknown("median_income_percent", n), Kept(AsPercent(n, n.op))}
    BY ValidateLeafIs DEF ValidateMedianIncome, v
  <2> QED BY <1>1, <1>3, <2>1
<1>8. n.field # "region"
  <2> SUFFICES ASSUME n.field = "region" PROVE FALSE
    OBVIOUS
  <2>1. v \in {Unsupported("asset", n), Gone, Kept(n)} BY ValidateLeafIs DEF ValidateRegion, v
  <2> QED BY <1>1, <1>2, <1>3, <2>1
<1>9. n.field = "special_condition" BY <1>1, <1>4, <1>5, <1>6, <1>7, <1>8, ValidateLeafIs DEF v
<1>10. Tokens(n.value) = {}
  <2> DEFINE valid == Select(n.value, Tokens(n.value) \cap SpecialAllowed)
             out == [n EXCEPT !.value = OneOrList(valid), !.op = IF Len(valid) > 1 THEN "IN" ELSE @]
             left == IF valid = <<>> THEN {} ELSE {out}
             half == [Unsupported("special_condition", n) EXCEPT !.leaf = left]
  <2>1. Tokens(n.value) # {} => v \in {Unsupported("special_condition", n), Kept(out), half}
    BY <1>9, ValidateLeafIs DEF ValidateSpecial, v
  <2> HIDE DEF left, out
  <2>2. half.unsupported # {} BY VerdictsAre
  <2> HIDE DEF half
  <2>3. v # half BY <2>2 DEF v
  <2> QED BY <1>1, <1>3, <2>1, <2>3
<1> QED BY <1>9, <1>10

\* A rule that is trusted and refuses comes from a condition that denies the user.
LEMMA LeafRefuses ==
  ASSUME NEW c \in Answers, NEW n, IsLeaf(n), ~Misread(n), MatchingStrength(n.field) # None,
         ValidateLeaf(n).unsupported = {}, NEW m \in ValidateLeaf(n).leaf,
         m.sure, m.text.quoted, MatchingStrength(m.field) # "follow_up",
         MatchingStrength(m.field) = "hard" =>
           MapField(m.field, m.op, m.value.items)[1] \in FilterResolvable,
         RowRefuses(c, MapField(m.field, m.op, m.value.items)[1], MapField(m.field, m.op, m.value.items)[2],
                 MapField(m.field, m.op, m.value.items)[3])
  PROVE  Refuted(n, c)
<1> DEFINE l == m.value.items
           mapped == MapField(m.field, m.op, l)
<1>1. Keeps(n, m) BY LeafKeeps
<1>2. n.sure /\ n.text.quoted BY <1>1 DEF Keeps
<1>3. RowRefuses(c, mapped[1], mapped[2], mapped[3]) OBVIOUS
<1>4. MatchingStrength(m.field) = "hard" => mapped[1] \in FilterResolvable OBVIOUS
<1> DEFINE words == [i \in DOMAIN l |-> MapWord(l[i])]
<1>4a. /\ m.field = "stage" => mapped = <<"stage", m.op, words>>
       /\ m.field = "special_condition" => mapped = <<"special", "IN", words>>
       /\ m.field = "median_income_percent" => mapped = <<"income", m.op, l>>
       /\ m.field \notin {"stage", "special_condition", "median_income_percent"} =>
            mapped = <<m.field, m.op, l>>
  BY MapFieldIs
<1> HIDE DEF mapped
<1>5. CASE n.field = "stage"
  <2>1. m \in ValidateStage(n).leaf BY <1>5, ValidateLeafIs
  <2>2. m.field = "stage" BY <1>5, <2>1, StageKeeps
  <2>3. mapped[1] = "stage" /\ mapped[2] = m.op /\ mapped[3] = [i \in DOMAIN l |-> MapWord(l[i])]
    BY <2>2, <1>4a
  <2>4. RowRefuses(c, "stage", m.op, [i \in DOMAIN l |-> MapWord(l[i])]) BY <1>3, <2>3
  <2> QED BY <1>2, <1>5, <2>1, <2>4, StageRefuses
<1>6. CASE n.field = "special_condition"
  <2>1. m \in ValidateSpecial(n).leaf /\ ValidateSpecial(n).unsupported = {} BY <1>6, ValidateLeafIs
  <2>2. m.field = "special_condition" BY <1>6, <2>1, SpecialKeeps
  <2>3. mapped[1] = "special" /\ mapped[2] = "IN" /\ mapped[3] = [i \in DOMAIN l |-> MapWord(l[i])]
    BY <2>2, <1>4a
  <2>4. RowRefuses(c, "special", "IN", [i \in DOMAIN l |-> MapWord(l[i])]) BY <1>3, <2>3
  <2> QED BY <1>2, <1>6, <2>1, <2>4, SpecialRefuses
<1>7. CASE n.field = "child_age"
  <2>1. m \in ValidateChildAge(n).leaf BY <1>7, ValidateLeafIs
  <2>2. m.field = "child_age" BY <1>7, <2>1, ChildAgeKeeps
  <2>3. mapped[1] = "child_age" /\ mapped[2] = m.op /\ mapped[3] = l BY <2>2, <1>4a
  <2>4. RowRefuses(c, "child_age", m.op, l) BY <1>3, <2>3
  <2> QED BY <1>2, <1>7, <2>1, <2>4, ChildAgeRefuses
<1>8. ASSUME NEW d, ExtractPercent(n) # None, m = AsPercent(n, d)
      PROVE  RowRefuses(c, "income", AsPercent(n, d).op, AsPercent(n, d).value.items)
  <2>1. m.field = "median_income_percent" BY <1>8, PercentKeeps
  <2>2. mapped[1] = "income" /\ mapped[2] = m.op /\ mapped[3] = l BY <2>1, <1>4a
  <2>3. RowRefuses(c, "income", m.op, m.value.items) BY <1>3, <2>2
  <2> QED BY <1>8, <2>3
<1>9. CASE n.field = "median_income_percent"
  <2>1. m \in ValidateMedianIncome(n).leaf BY <1>9, ValidateLeafIs
  <2>2. ExtractPercent(n) # None /\ m = AsPercent(n, n.op) BY <2>1, MedianIncomeVerdict
  <2>3. RowRefuses(c, "income", AsPercent(n, n.op).op, AsPercent(n, n.op).value.items) BY <1>8, <2>2
  <2> QED BY <1>2, <1>9, <2>2, <2>3, IncomeRefuses
<1>10. ASSUME m = n, n.field \notin {"stage", "special_condition", "median_income_percent"}
       PROVE  mapped[1] = n.field /\ mapped[2] = n.op /\ mapped[3] = n.value.items
  BY <1>10, <1>4a
<1>11. CASE n.field = "income_status"
  <2>1. m \in ValidateIncomeStatus(n).leaf BY <1>11, ValidateLeafIs
  <2>2. m # n
    <3> SUFFICES ASSUME m = n PROVE FALSE
      OBVIOUS
    <3>1. mapped[1] = "income_status" BY <1>10, <1>11
    <3>2. m.field = "income_status" BY <1>11
    <3>3. m.field \in HardFields BY <3>2 DEF HardFields
    <3>4. MatchingStrength(m.field) = "hard" BY <3>3, StrengthIs
    <3> QED BY <1>4, <3>1, <3>4 DEF FilterResolvable
  <2>3. StatesPercent(n) /\ ExtractPercent(n) # None /\ m = AsPercent(n, None)
    BY <2>1, <2>2, IncomeStatusVerdict
  <2>4. RowRefuses(c, "income", AsPercent(n, None).op, AsPercent(n, None).value.items) BY <1>8, <2>3
  <2> QED BY <1>2, <1>11, <2>3, <2>4, IncomeRefuses
<1>12. CASE n.field \notin {"stage", "child_age", "income_status", "median_income_percent", "special_condition"}
  <2>1. m = n
    <3>1. CASE n.field = "region" BY <3>1, ValidateLeafIs, RegionVerdict
    <3>2. CASE n.field # "region" BY <1>12, <3>2, ValidateLeafIs, VerdictsAre
    <3> QED BY <3>1, <3>2
  <2>2. mapped[1] = n.field /\ mapped[2] = n.op /\ mapped[3] = n.value.items BY <1>10, <1>12, <2>1
  <2>3. n.field \in WordFields
    <3>1. CASE n.field \in HardFields
      <4>1. MatchingStrength(m.field) = "hard" BY <2>1, <3>1, StrengthIs
      <4>2. n.field \in FilterResolvable BY <1>4, <2>2, <4>1
      <4> QED BY <1>12, <3>1, <4>2 DEF HardFields, FilterResolvable, WordFields
    <3>2. CASE n.field \notin HardFields
      <4>1. n.field \in SoftFields
        BY <2>1, <3>2, StrengthIs
      <4> QED BY <4>1 DEF WordFields
    <3> QED BY <3>1, <3>2
  <2>4. RowRefuses(c, n.field, n.op, n.value.items) BY <1>3, <2>2
  <2> QED BY <1>2, <2>3, <2>4, WordRefuses
<1> QED BY <1>5, <1>6, <1>7, <1>9, <1>11, <1>12

\* Conditions that say the same, of the same text and as surely, deny the same users.
LEMMA SameDeny ==
  ASSUME NEW n, NEW k, IsLeaf(n), IsLeaf(k), SaysTheSame(n, k), n.text = k.text, n.sure = k.sure,
         NEW c, Refuted(k, c)
  PROVE  Refuted(n, c)
<1> DEFINE same == ValuesOf(n.value.items)
<1>1. /\ n.field = k.field /\ n.op = k.op /\ n.value.shape = k.value.shape
      /\ ValuesOf(n.value.items) = same /\ ValuesOf(k.value.items) = same
  <2>1. \A s : ValuesOf(s) = DOMAIN Occurrences(s) BY DEF Occurrences
  <2> HIDE DEF same
  <2>2. ValuesOf(n.value.items) = ValuesOf(k.value.items) BY <2>1 DEF SaysTheSame
  <2> QED BY <2>2 DEF SaysTheSame, same
<1>2. Tokens(n.value) = Tokens(k.value) BY <1>1 DEF Tokens, IsObject
<1>3. Ints(n.value) = Ints(k.value) BY <1>1 DEF Ints
<1>4. NumberOf(n) = NumberOf(k) BY <1>1 DEF NumberOf
<1>5. ExtractPercent(n) = ExtractPercent(k)
  <2>1. CASE n.value.shape \in {"one", "percent"} /\ Ints(n.value) # {}
    <3>1. HoldsValues(n) /\ HoldsValues(k) BY DEF IsLeaf
    <3>2. PICK v : /\ ValuesOf(n.value.items) = {v}
                   /\ Ints(n.value) # {} <=> ToInt(v) # {}
                   /\ ToInt(v) # {} => IntItems(n.value)[1] \in ToInt(v)
      BY <2>1, <3>1, SingleValue
    <3>3. PICK w : /\ ValuesOf(k.value.items) = {w}
                   /\ Ints(k.value) # {} <=> ToInt(w) # {}
                   /\ ToInt(w) # {} => IntItems(k.value)[1] \in ToInt(w)
      BY <1>1, <2>1, <3>1, SingleValue
    <3>4. v = w BY <1>1, <3>2, <3>3
    <3>5. IntItems(n.value)[1] = IntItems(k.value)[1] BY <1>3, <2>1, <3>2, <3>3, <3>4, ToIntIs
    <3> QED BY <1>1, <1>3, <2>1, <3>5 DEF ExtractPercent
  <2>2. CASE ~(n.value.shape \in {"one", "percent"} /\ Ints(n.value) # {})
    BY <1>1, <1>3, <2>2 DEF ExtractPercent
  <2> QED BY <2>1, <2>2
<1>6. Holds(n.value) <=> Holds(k.value)
  <2>1. n.value.items \in Seq(ValueTexts) /\ k.value.items \in Seq(ValueTexts) BY DEF IsLeaf, HoldsValues
  <2> QED BY <1>1, <2>1, SequenceDomain DEF Holds
<1> DEFINE given == ConditionValue(c, n.field)
<1>7. given = ConditionValue(c, k.field) BY <1>1
<1>8. \A f \in {StageAllowed, SpecialAllowed} : \A g :
        KnownWordsDenied(n, f, g) <=> KnownWordsDenied(k, f, g)
  BY <1>1, <1>2 DEF KnownWordsDenied
<1>9. AgeDenied(n, given) <=> AgeDenied(k, given) BY <1>1, <1>3, <1>4 DEF AgeDenied
<1>10. \A op, g : PercentDenied(n, op, g) <=> PercentDenied(k, op, g) BY <1>5 DEF PercentDenied
<1>11. \A d : PercentOperator(n, d) = PercentOperator(k, d) BY DEF PercentOperator
<1>12. StatesPercent(n) <=> StatesPercent(k) BY <1>1, <1>5 DEF StatesPercent
<1>13. WordsDenied(n, given) <=> WordsDenied(k, given) BY <1>1, <1>6 DEF WordsDenied
<1> HIDE DEF given
<1> QED BY <1>1, <1>7, <1>8, <1>9, <1>10, <1>11, <1>12, <1>13 DEF Refuted, given

(***************************************************************************)
(* Trees.                                                                  *)
(***************************************************************************)
\* No node of a tree has lost its parent.
IsRooted(tree) ==
  \A i \in DOMAIN tree : tree[i].up # 0 => tree[i].up \in DOMAIN tree /\ IsGroup(tree[tree[i].up])

\* What is pruned keeps the conditions asked for, and no other, where they were.
LEMMA PrunedIs ==
  ASSUME NEW tree, IsRooted(tree), NEW kept \in SUBSET Leaves(tree)
  PROVE  /\ DOMAIN Pruned(tree, kept) \subseteq DOMAIN tree
         /\ \A i \in DOMAIN Pruned(tree, kept) : Pruned(tree, kept)[i] = tree[i]
         /\ Leaves(Pruned(tree, kept)) = kept
         /\ IsRooted(Pruned(tree, kept))
<1> DEFINE parts == {S \in SUBSET DOMAIN tree : kept \subseteq S /\ HasParents(tree, S)}
           D == {j \in DOMAIN tree : \A S \in parts : j \in S}
           P == Pruned(tree, kept)
           groups == {i \in DOMAIN tree : IsGroup(tree[i])}
<1>1. P = [i \in D |-> tree[i]] BY DEF Pruned
<1>2. DOMAIN P = D /\ D \subseteq DOMAIN tree /\ \A i \in D : P[i] = tree[i] BY <1>1
<1>3. kept \subseteq D BY DEF Leaves
<1>4. kept \cup groups \in parts
  <2>1. kept \cup groups \subseteq DOMAIN tree BY DEF Leaves
  <2>2. \A i \in kept \cup groups : tree[i].up # 0 => tree[i].up \in groups BY <2>1 DEF IsRooted
  <2>3. HasParents(tree, kept \cup groups) BY <2>2 DEF HasParents
  <2> QED BY <2>1, <2>3
<1>5. \A i \in D : ~IsGroup(tree[i]) => i \in kept BY <1>4
<1>6. \A i \in kept : ~IsGroup(tree[i]) BY DEF Leaves
<1>7. \A i \in D : tree[i].up # 0 => tree[i].up \in D
  <2> SUFFICES ASSUME NEW i \in D, tree[i].up # 0 PROVE tree[i].up \in D
    OBVIOUS
  <2>1. tree[i].up \in DOMAIN tree BY DEF IsRooted
  <2>2. \A S \in parts : tree[i].up \in S BY DEF HasParents
  <2> QED BY <2>1, <2>2
<1> HIDE DEF P, D, parts
<1>8. Leaves(P) = kept BY <1>2, <1>3, <1>5, <1>6 DEF Leaves
<1>9. IsRooted(P) BY <1>2, <1>7 DEF IsRooted
<1> QED BY <1>2, <1>8, <1>9 DEF P

\* A condition in the words of the service.
LEMMA NormalizedLeafIs ==
  ASSUME NEW n, DOMAIN n = {"up", "op", "field", "value", "text", "sure"}, IsValue(n)
  PROVE  LET k == NormalizeLeaf(n) IN
         /\ IsLeaf(k) /\ ~IsGroup(k) /\ k.up = n.up /\ k.text = n.text /\ k.sure = n.sure
         /\ k.field = FieldNormalization(n.field)
         /\ k.field = "special_condition" /\ Tokens(k.value) = {} =>
              n.field = "special_condition" /\ Tokens(n.value) = {}
<1> DEFINE k == NormalizeLeaf(n)
           op == NormalizeOperator(IF n.field = "under_34" THEN "LTE" ELSE n.op)
           value == IF Holds(n.value) THEN n.value ELSE ImpliedValue(n.field)
<1>1. k = [n EXCEPT !.field = FieldNormalization(n.field), !.op = op, !.value = value]
  BY DEF NormalizeLeaf
<1>2. /\ DOMAIN value = {"shape", "items"} /\ value.items \in Seq(ValueTexts)
      /\ value.shape \in {"one", "percent"} => Len(value.items) = 1
  <2>1. CASE Holds(n.value)
    <3>1. value = n.value BY <2>1
    <3>2. n.value.items \in Seq(STRING) /\ STRING \subseteq ValueTexts BY DEF IsValue, ValueTexts
    <3>3. n.value.items \in Seq(ValueTexts) BY <3>2, SequenceOfMore
    <3> QED BY <3>1, <3>3 DEF IsValue
  <2>2. CASE ~Holds(n.value)
    <3>1. value = ImpliedValue(n.field) BY <2>2
    <3>2. ImpliedValue(n.field) \in {NoValue} \cup {One(v) : v \in ValueTexts} BY DEF ImpliedValue, ValueTexts
    <3>3. NoValue.items = <<>> /\ NoValue.shape = "none" /\ DOMAIN NoValue = {"shape", "items"}
      BY DEF NoValue
    <3>4. \A v \in ValueTexts : /\ One(v).items \in Seq(ValueTexts) /\ Len(One(v).items) = 1
                           /\ DOMAIN One(v) = {"shape", "items"}
      BY DEF One
    <3> HIDE DEF value
    <3>5. <<>> \in Seq(ValueTexts) OBVIOUS
    <3> QED BY <3>1, <3>2, <3>3, <3>4, <3>5
  <2> QED BY <2>1, <2>2
<1>3. n.field = "special_condition" => Tokens(value) = Tokens(n.value)
  <2> SUFFICES ASSUME n.field = "special_condition" PROVE Tokens(value) = Tokens(n.value)
    OBVIOUS
  <2>1. CASE Holds(n.value) BY <2>1
  <2>2. CASE ~Holds(n.value)
    <3>1. value = NoValue BY <2>2 DEF ImpliedValue
    <3>2. NoValue.items = <<>> /\ n.value.items = <<>> BY <2>2 DEF NoValue, Holds
    <3>3. ValuesOf(<<>>) = {} BY DEF ValuesOf
    <3> QED BY <3>1, <3>2, <3>3 DEF Tokens
  <2> QED BY <2>1, <2>2
<1>4. FieldNormalization(n.field) = "special_condition" => n.field = "special_condition"
  BY DEF FieldNormalization
<1> HIDE DEF k, op, value
<1>5. /\ DOMAIN k = DOMAIN n /\ k.up = n.up /\ k.text = n.text /\ k.sure = n.sure
      /\ k.field = FieldNormalization(n.field) /\ k.value = value
  BY <1>1
<1>6. HoldsValues(k) BY <1>2, <1>5 DEF HoldsValues, IsValue
<1>7. IsLeaf(k) /\ ~IsGroup(k) BY <1>5, <1>6 DEF IsLeaf, IsGroup
<1> QED BY <1>3, <1>4, <1>5, <1>7 DEF k

\* The tree of a profile: groups with their operators and conditions in the words of the
\* service, each of the conditions collected or one of the same group that says the same.
LEMMA NormalizedTreeIs ==
  ASSUME NEW tree, IsTree(tree)
  PROVE  LET N == NormalizeTree(tree) IN
         /\ DOMAIN N \subseteq DOMAIN tree /\ IsRooted(N) /\ Leaves(N) \subseteq Collected(tree)
         /\ \A i \in Leaves(N) : N[i] = NormalizeLeaf(tree[i])
         /\ \A i \in DOMAIN N : N[i].up = tree[i].up /\ (IsGroup(N[i]) => N[i].op = GroupOperator(tree[i].op))
         /\ \A i \in Collected(tree) : \E j \in Leaves(N) :
              tree[j].up = tree[i].up /\ SaysTheSame(NormalizeLeaf(tree[i]), NormalizeLeaf(tree[j]))
<1> DEFINE K == Collected(tree)
           P == Pruned(tree, K)
           M == [i \in DOMAIN P |-> IF IsGroup(tree[i]) THEN [tree[i] EXCEPT !.op = GroupOperator(@)]
                                    ELSE NormalizeLeaf(tree[i])]
           said(i, j) == M[i].up = M[j].up /\ SaysTheSame(M[i], M[j])
           first == {i \in Leaves(M) : \A j \in Leaves(M) : j < i => ~said(i, j)}
           N == NormalizeTree(tree)
<1>1. N = Pruned(M, first) BY DEF NormalizeTree, Dedupe
<1>2. IsRooted(tree) BY DEF IsTree, IsRooted
<1>3. K \in SUBSET Leaves(tree) BY DEF Collected
<1>4. /\ DOMAIN P \subseteq DOMAIN tree /\ \A i \in DOMAIN P : P[i] = tree[i]
      /\ Leaves(P) = K /\ IsRooted(P)
  BY <1>2, <1>3, PrunedIs
<1>5. \A i \in DOMAIN P : i \in K <=> ~IsGroup(tree[i]) BY <1>4 DEF Leaves
<1>6. ASSUME NEW i \in K
      PROVE  /\ i \in DOMAIN M /\ M[i] = NormalizeLeaf(tree[i]) /\ ~IsGroup(M[i])
             /\ M[i].up = tree[i].up
  <2>1. i \in DOMAIN P BY <1>4 DEF Leaves
  <2>2. ~IsGroup(tree[i]) /\ i \in DOMAIN tree BY <1>4, <1>5, <2>1
  <2>3. DOMAIN tree[i] = {"up", "op", "field", "value", "text", "sure"} /\ IsValue(tree[i])
    BY <2>2 DEF IsTree
  <2>4. ~IsGroup(NormalizeLeaf(tree[i])) /\ NormalizeLeaf(tree[i]).up = tree[i].up
    BY <2>3, NormalizedLeafIs
  <2>5. M[i] = NormalizeLeaf(tree[i]) BY <2>1, <2>2
  <2> QED BY <2>1, <2>4, <2>5
<1>7. ASSUME NEW i \in DOMAIN P, i \notin K
      PROVE  /\ IsGroup(M[i]) /\ M[i].up = tree[i].up /\ M[i].op = GroupOperator(tree[i].op)
             /\ i \in DOMAIN M
  <2>1. IsGroup(tree[i]) /\ i \in DOMAIN tree BY <1>4, <1>5, <1>7
  <2>2. DOMAIN tree[i] = {"up", "op", "key"} BY <2>1 DEF IsTree
  <2>3. M[i] = [tree[i] EXCEPT !.op = GroupOperator(@)] BY <2>1
  <2>4. DOMAIN M[i] = DOMAIN tree[i] /\ M[i].up = tree[i].up /\ M[i].op = GroupOperator(tree[i].op)
    <3> HIDE DEF M
    <3> QED BY <2>2, <2>3
  <2> QED BY <2>2, <2>4 DEF IsGroup
<1>8. DOMAIN M = DOMAIN P OBVIOUS
<1> HIDE DEF M, P, K
<1>9. Leaves(M) = K BY <1>4, <1>6, <1>7, <1>8 DEF Leaves
<1>10. IsRooted(M)
  <2> SUFFICES ASSUME NEW i \in DOMAIN M, M[i].up # 0
               PROVE  M[i].up \in DOMAIN M /\ IsGroup(M[M[i].up])
    BY DEF IsRooted
  <2>1. M[i].up = tree[i].up /\ P[i] = tree[i] BY <1>4, <1>6, <1>7, <1>8
  <2>2. tree[i].up \in DOMAIN P /\ IsGroup(P[tree[i].up]) BY <1>4, <1>8, <2>1 DEF IsRooted
  <2>3. tree[i].up \notin K BY <1>4, <2>2 DEF Leaves
  <2> QED BY <1>7, <1>8, <2>1, <2>2, <2>3
<1>11. first \in SUBSET Leaves(M) OBVIOUS
<1>12. /\ DOMAIN N \subseteq DOMAIN M /\ \A i \in DOMAIN N : N[i] = M[i]
       /\ Leaves(N) = first /\ IsRooted(N)
  <2> HIDE DEF first, N
  <2> QED BY <1>1, <1>10, <1>11, PrunedIs
<1> HIDE DEF N
<1>13. DOMAIN N \subseteq DOMAIN tree /\ Leaves(N) \subseteq K BY <1>4, <1>8, <1>9, <1>12
<1>14. \A i \in Leaves(N) : N[i] = NormalizeLeaf(tree[i]) BY <1>6, <1>12, <1>13 DEF Leaves
<1>15. \A i \in DOMAIN N : N[i].up = tree[i].up /\ (IsGroup(N[i]) => N[i].op = GroupOperator(tree[i].op))
  BY <1>6, <1>7, <1>8, <1>12
<1>16. ASSUME NEW i \in K
       PROVE  \E j \in Leaves(N) :
                tree[j].up = tree[i].up /\ SaysTheSame(NormalizeLeaf(tree[i]), NormalizeLeaf(tree[j]))
  <2> DEFINE S == {j \in K : said(i, j)}
  <2>1. S \in SUBSET Nat
    <3>1. K \subseteq DOMAIN tree BY <1>3 DEF Leaves
    <3> QED BY <3>1 DEF IsTree
  <2>2. i \in S BY DEF SaysTheSame
  <2>3. PICK j \in S : \A k \in S : j <= k BY <2>1, <2>2, LeastNumber
  <2>4. said(i, j) OBVIOUS
  <2>5. ASSUME NEW k \in Leaves(M), k < j, said(j, k) PROVE FALSE
    <3>1. said(i, k) BY <2>4, <2>5 DEF SaysTheSame
    <3>2. k \in S BY <1>9, <3>1
    <3>3. k \in Nat /\ j \in Nat BY <2>1, <3>2
    <3>4. j <= k BY <2>3, <3>2
    <3> QED BY <2>5, <3>3, <3>4
  <2>6. j \in first BY <1>9, <2>5
  <2>7. j \in Leaves(N) BY <1>12, <2>6
  <2> QED BY <1>6, <2>4, <2>7
<1> QED BY <1>12, <1>13, <1>14, <1>15, <1>16 DEF N, K

\* What a review being called for tells of the conditions that are not kept.
LEMMA NormalizedIs ==
  ASSUME NEW e
  PROVE  LET norm == NormalizeExtraction(e) IN
         /\ norm.tree = NormalizeTree(e.tree)
         /\ DOMAIN norm = {"tree", "unsupported", "unknowns", "exclusions", "ignored", "review"}
         /\ norm.unsupported = {} => OutOfScope(e.tree) = {}
         /\ norm.unknowns = {} => Unreadable(e.tree) = {}
<1> DEFINE norm == NormalizeExtraction(e)
<1>1. /\ norm.tree = NormalizeTree(e.tree)
      /\ DOMAIN norm = {"tree", "unsupported", "unknowns", "exclusions", "ignored", "review"}
      /\ norm.unsupported = e.unsupported \cup Entries(e.tree, OutOfScope(e.tree))
      /\ norm.unknowns = e.unknowns \cup Entries(e.tree, Unreadable(e.tree))
  BY DEF NormalizeExtraction
<1>2. \A S : Entries(e.tree, S) = {} => S = {} BY DEF Entries
<1> HIDE DEF norm
<1>3. norm.unsupported = {} => OutOfScope(e.tree) = {} BY <1>1, <1>2
<1>4. norm.unknowns = {} => Unreadable(e.tree) = {} BY <1>1, <1>2
<1> QED BY <1>1, <1>3, <1>4 DEF norm

LEMMA ValidatedIs ==
  ASSUME NEW norm,
         DOMAIN norm = {"tree", "unsupported", "unknowns", "exclusions", "ignored", "review"}
  PROVE  LET verdict == [i \in Leaves(norm.tree) |-> ValidateLeaf(norm.tree[i])]
             left == Pruned(norm.tree, {i \in DOMAIN verdict : verdict[i].leaf # {}})
             json == ValidateConditions(norm)
         IN /\ json.tree = [i \in DOMAIN left |->
                              IF IsGroup(left[i]) THEN left[i] ELSE CHOOSE n \in verdict[i].leaf : TRUE]
            /\ json.exclusions = norm.exclusions
            /\ ~json.review =>
                 /\ norm.unsupported = {} /\ norm.unknowns = {}
                 /\ \A i \in DOMAIN verdict : /\ verdict[i].unsupported = {} /\ verdict[i].unknown = {}
                                              /\ ~verdict[i].removed
<1> DEFINE verdict == [i \in Leaves(norm.tree) |-> ValidateLeaf(norm.tree[i])]
           left == Pruned(norm.tree, {i \in DOMAIN verdict : verdict[i].leaf # {}})
           tree == [i \in DOMAIN left |->
                      IF IsGroup(left[i]) THEN left[i] ELSE CHOOSE n \in verdict[i].leaf : TRUE]
           unsupported == norm.unsupported \cup UNION {verdict[i].unsupported : i \in DOMAIN verdict}
           unknowns == norm.unknowns \cup UNION {verdict[i].unknown : i \in DOMAIN verdict}
           removed == \E i \in DOMAIN verdict : verdict[i].removed
           review == NeedsReview(norm.review, removed, unsupported, unknowns, tree)
           json == ValidateConditions(norm)
<1>1. json = [norm EXCEPT !.tree = tree, !.unsupported = unsupported, !.unknowns = unknowns,
                          !.review = review]
  BY DEF ValidateConditions
<1>2. ~review => unsupported = {} /\ unknowns = {} /\ ~removed BY DEF NeedsReview
<1>3. unsupported = {} => norm.unsupported = {} /\ \A i \in DOMAIN verdict : verdict[i].unsupported = {}
  <2> HIDE DEF verdict
  <2> QED OBVIOUS
<1>4. unknowns = {} => norm.unknowns = {} /\ \A i \in DOMAIN verdict : verdict[i].unknown = {}
  <2> HIDE DEF verdict
  <2> QED OBVIOUS
<1>5. ~removed => \A i \in DOMAIN verdict : ~verdict[i].removed
  <2> HIDE DEF verdict
  <2> QED OBVIOUS
<1> HIDE DEF json, tree, unsupported, unknowns, removed, review
<1>6. json.tree = tree /\ json.exclusions = norm.exclusions /\ json.review = review BY <1>1
<1> HIDE DEF verdict
<1> QED BY <1>2, <1>3, <1>4, <1>5, <1>6 DEF json, tree, verdict

\* The tree of what is stored of an extraction.
LEMMA StoredTreeIs ==
  ASSUME NEW x \in DOMAIN Extractions
  PROVE  LET tree == Extractions[x].tree
             stored == Json[x].tree
             verdict(i) == ValidateLeaf(NormalizeLeaf(tree[i]))
         IN /\ \A i \in Leaves(stored) : i \in Collected(tree) /\ stored[i] \in verdict(i).leaf
            /\ \A i \in DOMAIN stored :
                 /\ i \in DOMAIN tree /\ stored[i].up = tree[i].up
                 /\ stored[i].up # 0 =>
                      /\ stored[i].up \in DOMAIN stored
                      /\ stored[stored[i].up].op = GroupOperator(tree[tree[i].up].op)
            /\ ~Json[x].review =>
                 /\ Collected(tree) = Leaves(tree) \ Excluding(tree)
                 /\ \A i \in Leaves(stored) : verdict(i).unsupported = {}
                 /\ \A i \in Collected(tree) : \E j \in Collected(tree) :
                      /\ tree[j].up = tree[i].up
                      /\ SaysTheSame(NormalizeLeaf(tree[i]), NormalizeLeaf(tree[j]))
                      /\ \/ j \in Leaves(stored)
                         \/ tree[j].field = "special_condition" /\ Tokens(tree[j].value) = {}
<1> DEFINE e == Extractions[x]
           tree == e.tree
           norm == NormalizeExtraction(e)
           N == norm.tree
           V == Json[x].tree
           v == [i \in Leaves(N) |-> ValidateLeaf(N[i])]
           kept == {i \in DOMAIN v : v[i].leaf # {}}
           left == Pruned(N, kept)
           verdict(i) == ValidateLeaf(NormalizeLeaf(tree[i]))
<1>1. IsTree(tree) BY TreeAssumption
<1>2. /\ N = NormalizeTree(tree)
      /\ DOMAIN norm = {"tree", "unsupported", "unknowns", "exclusions", "ignored", "review"}
      /\ norm.unsupported = {} => OutOfScope(tree) = {}
      /\ norm.unknowns = {} => Unreadable(tree) = {}
  BY NormalizedIs
<1>3. Json[x] = ValidateConditions(norm) BY DEF Json, ConditionJson
<1> HIDE DEF norm, e
<1>4. /\ V = [i \in DOMAIN left |-> IF IsGroup(left[i]) THEN left[i] ELSE CHOOSE n \in v[i].leaf : TRUE]
      /\ ~Json[x].review =>
           /\ norm.unsupported = {} /\ norm.unknowns = {}
           /\ \A i \in DOMAIN v : v[i].unsupported = {} /\ v[i].unknown = {} /\ ~v[i].removed
  <2> DEFINE json == ValidateConditions(norm)
             read == [i \in DOMAIN left |->
                        IF IsGroup(left[i]) THEN left[i] ELSE CHOOSE n \in v[i].leaf : TRUE]
  <2>1. /\ json.tree = read
        /\ ~json.review =>
             /\ norm.unsupported = {} /\ norm.unknowns = {}
             /\ \A i \in DOMAIN v : v[i].unsupported = {} /\ v[i].unknown = {} /\ ~v[i].removed
    BY <1>2, ValidatedIs
  <2>2. Json[x] = json BY <1>3
  <2> HIDE DEF json, v, read
  <2>3. V = read BY <2>1, <2>2
  <2> QED BY <2>1, <2>2, <2>3 DEF read
<1>5. /\ DOMAIN N \subseteq DOMAIN tree /\ IsRooted(N) /\ Leaves(N) \subseteq Collected(tree)
      /\ \A i \in Leaves(N) : N[i] = NormalizeLeaf(tree[i])
      /\ \A i \in DOMAIN N : N[i].up = tree[i].up /\ (IsGroup(N[i]) => N[i].op = GroupOperator(tree[i].op))
      /\ \A i \in Collected(tree) : \E j \in Leaves(N) :
           tree[j].up = tree[i].up /\ SaysTheSame(NormalizeLeaf(tree[i]), NormalizeLeaf(tree[j]))
  BY <1>1, <1>2, NormalizedTreeIs
<1>6. DOMAIN v = Leaves(N) /\ \A i \in Leaves(N) : v[i] = verdict(i) BY <1>5
<1> HIDE DEF v, N, V
<1>7. kept \in SUBSET Leaves(N) BY <1>6
<1>8. /\ DOMAIN left \subseteq DOMAIN N /\ \A i \in DOMAIN left : left[i] = N[i]
      /\ Leaves(left) = kept /\ IsRooted(left)
  <2> HIDE DEF kept
  <2> QED BY <1>5, <1>7, PrunedIs
<1> HIDE DEF left
<1>9. DOMAIN V = DOMAIN left BY <1>4
<1>10. ASSUME NEW i \in kept
       PROVE  /\ i \in Leaves(V) /\ i \in Collected(tree) /\ V[i] \in verdict(i).leaf
              /\ i \in DOMAIN tree /\ V[i].up = tree[i].up
  <2>1. i \in DOMAIN left /\ ~IsGroup(left[i]) BY <1>8 DEF Leaves
  <2>2. V[i] \in v[i].leaf BY <1>4, <2>1
  <2>3. i \in Leaves(N) /\ i \in Collected(tree) BY <1>5, <1>7
  <2>4. V[i] \in verdict(i).leaf BY <1>6, <2>2, <2>3
  <2>5. i \in DOMAIN tree /\ ~IsGroup(tree[i]) BY <2>3 DEF Collected, Leaves
  <2>6. DOMAIN tree[i] = {"up", "op", "field", "value", "text", "sure"} /\ IsValue(tree[i])
    BY <1>1, <2>5 DEF IsTree
  <2>7. IsLeaf(NormalizeLeaf(tree[i])) /\ NormalizeLeaf(tree[i]).up = tree[i].up
    BY <2>6, NormalizedLeafIs
  <2>8. Keeps(NormalizeLeaf(tree[i]), V[i]) BY <2>4, <2>7, LeafKeeps
  <2>9. "field" \in DOMAIN V[i] /\ V[i].up = tree[i].up BY <2>7, <2>8 DEF Keeps, IsLeaf
  <2> QED BY <1>9, <2>1, <2>3, <2>4, <2>5, <2>9 DEF Leaves, IsGroup
<1>11. ASSUME NEW i \in DOMAIN V, i \notin kept
       PROVE  /\ IsGroup(V[i]) /\ i \in DOMAIN tree /\ V[i].up = tree[i].up
              /\ V[i].op = GroupOperator(tree[i].op)
  <2>1. i \in DOMAIN left /\ IsGroup(left[i]) BY <1>8, <1>9, <1>11 DEF Leaves
  <2>2. V[i] = left[i] BY <1>4, <2>1
  <2>3. V[i] = N[i] /\ i \in DOMAIN N BY <1>8, <2>1, <2>2
  <2> QED BY <1>5, <2>1, <2>2, <2>3
<1>12. Leaves(V) = kept BY <1>10, <1>11 DEF Leaves
<1>13. ASSUME NEW i \in DOMAIN V, V[i].up # 0
       PROVE  V[i].up \in DOMAIN V /\ V[V[i].up].op = GroupOperator(tree[tree[i].up].op)
  <2>1. V[i].up = tree[i].up BY <1>10, <1>11
  <2>2. left[i] = N[i] /\ i \in DOMAIN N BY <1>8, <1>9
  <2>3. left[i].up = tree[i].up BY <1>5, <2>2
  <2>4. tree[i].up \in DOMAIN left /\ IsGroup(left[tree[i].up]) BY <1>8, <1>9, <1>13, <2>1, <2>3 DEF IsRooted
  <2>5. tree[i].up \notin kept BY <1>8, <2>4 DEF Leaves
  <2> QED BY <1>9, <1>11, <2>1, <2>4, <2>5
<1>14. ASSUME ~Json[x].review
       PROVE  /\ Collected(tree) = Leaves(tree) \ Excluding(tree)
              /\ \A i \in Leaves(V) : verdict(i).unsupported = {}
  <2>1. OutOfScope(tree) = {} /\ Unreadable(tree) = {} BY <1>2, <1>4, <1>14
  <2>2. Collected(tree) = Leaves(tree) \ Excluding(tree) BY <2>1 DEF Unreadable, Collected
  <2> QED BY <1>4, <1>6, <1>7, <1>12, <1>14, <2>2
<1>15. ASSUME ~Json[x].review, NEW i \in Collected(tree)
       PROVE  \E j \in Collected(tree) :
                /\ tree[j].up = tree[i].up
                /\ SaysTheSame(NormalizeLeaf(tree[i]), NormalizeLeaf(tree[j]))
                /\ \/ j \in Leaves(V)
                   \/ tree[j].field = "special_condition" /\ Tokens(tree[j].value) = {}
  <2>1. PICK j \in Leaves(N) :
          tree[j].up = tree[i].up /\ SaysTheSame(NormalizeLeaf(tree[i]), NormalizeLeaf(tree[j]))
    BY <1>5
  <2>2. j \in Collected(tree) BY <1>5
  <2>3. CASE j \in kept BY <1>12, <2>1, <2>2, <2>3
  <2>4. CASE j \notin kept
    <3>1. v[j] = verdict(j) /\ v[j].leaf = {} BY <1>6, <2>4
    <3>2. v[j].unsupported = {} /\ v[j].unknown = {} /\ ~v[j].removed BY <1>4, <1>6, <1>15
    <3> DEFINE k == NormalizeLeaf(tree[j])
    <3>3. ValidateLeaf(k).leaf = {} /\ ValidateLeaf(k).unsupported = {} /\ ValidateLeaf(k).unknown = {}
          /\ ~ValidateLeaf(k).removed
      BY <3>1, <3>2
    <3> HIDE DEF k
    <3>4. k.field = "special_condition" /\ Tokens(k.value) = {} BY <3>3, LeafGoes
    <3>5. j \in DOMAIN tree /\ ~IsGroup(tree[j]) BY <2>2 DEF Collected, Leaves
    <3>6. DOMAIN tree[j] = {"up", "op", "field", "value", "text", "sure"} /\ IsValue(tree[j])
      BY <1>1, <3>5 DEF IsTree
    <3>7. tree[j].field = "special_condition" /\ Tokens(tree[j].value) = {}
      BY <3>4, <3>6, NormalizedLeafIs DEF k
    <3> QED BY <2>1, <2>2, <3>7
  <2> QED BY <2>3, <2>4
<1> HIDE DEF kept
<1>16. \A i \in Leaves(V) : i \in Collected(tree) /\ V[i] \in verdict(i).leaf BY <1>10, <1>12
<1>17. \A i \in DOMAIN V : i \in DOMAIN tree /\ V[i].up = tree[i].up BY <1>10, <1>11
<1> QED BY <1>13, <1>14, <1>15, <1>16, <1>17 DEF V, e

(***************************************************************************)
(* Rules that refuse.                                                      *)
(***************************************************************************)
RuleAt(x, i) == LeafRule(Json[x].tree, i, Json[x].review)
TrustedLeaves(x) == {i \in Leaves(Json[x].tree) : ~RuleAt(x, i).review}
RuleRefuses(c, r) == RowRefuses(c, r.field, r.op, r.values)

\* A rule that is not left to the user and has a verdict against him refuses.
LEMMA VerdictRefuses ==
  ASSUME NEW c, NEW r, r.manual = FALSE, r.field # "income_status"
  PROVE  /\ FlatVerdict(r, FilterValue(c, r.field)) = "fail" => RuleRefuses(c, r)
         /\ MemberVerdict(c, r, FilterValue(c, r.field)) \in
              {"match", "manual", "missing", "indeterminate", "fail", "skip"}
         /\ MemberVerdict(c, r, FilterValue(c, r.field)) \in {"fail", "skip"} => RuleRefuses(c, r)
<1> DEFINE given == FilterValue(c, r.field)
           m == RuleMatches(r.op, given, r.values)
           matches == IF m = "yes" THEN "match" ELSE IF m = "unclear" THEN "manual"
                      ELSE IF r.hard THEN "fail" ELSE "skip"
<1>1. RuleRefuses(c, r) <=> \/ given # {} /\ m \notin {"yes", "unclear"}
                            \/ given = {} /\ IsExhaustiveEmpty(c, r.field)
  BY DEF RuleRefuses, RowRefuses
<1>2. ~DeniedIncomeMismatch(r, given) BY DEF DeniedIncomeMismatch
<1>3. FlatVerdict(r, given) = IF given = {} THEN (IF r.hard THEN "missing" ELSE "skip") ELSE matches
  <2> HIDE DEF given
  <2> QED BY <1>2 DEF FlatVerdict
<1>4. MemberVerdict(c, r, given) =
        IF given = {} THEN IF IsExhaustiveEmpty(c, r.field) THEN (IF r.hard THEN "fail" ELSE "skip")
                           ELSE IF r.hard THEN "missing" ELSE "indeterminate"
        ELSE matches
  <2> HIDE DEF given, matches
  <2> QED BY <1>2, <1>3 DEF MemberVerdict
<1> HIDE DEF given, m
<1> QED BY <1>1, <1>3, <1>4 DEF given

\* A group of alternatives that fails has no other verdicts.
LEMMA GroupRefuses ==
  ASSUME NEW verdicts, GroupOutcome(verdicts) = "fail",
         verdicts \subseteq {"match", "manual", "missing", "indeterminate", "fail", "skip"}
  PROVE  verdicts \subseteq {"fail", "skip"}
<1>1. "match" \notin verdicts /\ "manual" \notin verdicts /\ "missing" \notin verdicts
  BY DEF GroupOutcome
<1>2. "indeterminate" \notin verdicts BY <1>1 DEF GroupOutcome
<1> QED BY <1>1, <1>2

\* What a rule asks for, and whether it is left to the user to judge.
Asked(n) == MapField(n.field, n.op, n.value.items)
LeftToUser(n) ==
  \/ MatchingStrength(n.field) = "follow_up" \/ ~n.sure \/ ~n.text.quoted
  \/ MatchingStrength(n.field) = "hard" /\ Asked(n)[1] \notin FilterResolvable

LEMMA RuleAtIs ==
  ASSUME NEW x, NEW i
  PROVE  LET n == Json[x].tree[i]
             r == RuleAt(x, i)
         IN /\ r.leaf = i /\ r.field = Asked(n)[1] /\ r.op = Asked(n)[2] /\ r.values = Asked(n)[3]
            /\ r.manual = LeftToUser(n) /\ r.review = (Json[x].review \/ LeftToUser(n))
            /\ r.alt = IsAlternative(Json[x].tree, i) /\ r.group = GroupKeys(Json[x].tree)[n.up]
            /\ DOMAIN r = {"leaf", "field", "op", "values", "hard", "manual", "review", "alt", "group"}
<1> DEFINE n == Json[x].tree[i]
           mapped == Asked(n)
           manual == LeftToUser(n)
           alt == IsAlternative(Json[x].tree, i)
           group == GroupKeys(Json[x].tree)[n.up]
           review == Json[x].review \/ manual
           hard == MatchingStrength(n.field) = "hard" /\ ~manual
<1>1. RuleAt(x, i) = RuleOf(i, mapped, hard, manual, review, alt, group)
  BY DEF RuleAt, LeafRule, Asked, LeftToUser
<1> HIDE DEF mapped, hard, manual, review, alt, group
<1>2. RuleAt(x, i) = [leaf |-> i, field |-> mapped[1], op |-> mapped[2], values |-> mapped[3],
                      hard |-> hard, manual |-> manual, review |-> review, alt |-> alt, group |-> group]
  BY <1>1 DEF RuleOf
<1>3. LET r == RuleAt(x, i) IN
      /\ r.leaf = i /\ r.field = mapped[1] /\ r.op = mapped[2] /\ r.values = mapped[3]
      /\ r.manual = manual /\ r.review = review /\ r.alt = alt /\ r.group = group
      /\ DOMAIN r = {"leaf", "field", "op", "values", "hard", "manual", "review", "alt", "group"}
  BY <1>2
<1> QED BY <1>3 DEF mapped, manual, review, alt, group

\* Only the rule of a condition is trusted, when no review is called for; nobody is to
\* judge it, and an answer can be compared with it.
LEMMA TrustedRulesAre ==
  ASSUME NEW x \in DOMAIN Extractions
  PROVE  /\ Trusted(Rows[x]) = {RuleAt(x, i) : i \in TrustedLeaves(x)}
         /\ IsFiniteSet(Trusted(Rows[x]))
         /\ \A i \in TrustedLeaves(x) :
              LET n == Json[x].tree[i] IN
              /\ ~Json[x].review /\ n.sure /\ n.text.quoted /\ MatchingStrength(n.field) # "follow_up"
              /\ MatchingStrength(n.field) = "hard" =>
                   MapField(n.field, n.op, n.value.items)[1] \in FilterResolvable
              /\ IsRule(RuleAt(x, i)) /\ RuleAt(x, i).manual = FALSE
              /\ RuleAt(x, i).field # "income_status"
<1> DEFINE json == Json[x]
           V == json.tree
<1>1. Rows[x] = {RuleAt(x, i) : i \in Leaves(V)} \cup {ExclusionRule(e) : e \in json.exclusions}
                  \cup {ManualRule(e, "UNKNOWN") : e \in json.unknowns}
                  \cup {ManualRule(e, "UNSUPPORTED") : e \in json.unsupported}
  <2>1. Rows[x] = BuildRules(json) BY DEF Rows, Json
  <2> HIDE DEF json
  <2>2. BuildRules(json) = Walk(V, json.review) \cup {ExclusionRule(e) : e \in json.exclusions}
                             \cup {ManualRule(e, "UNKNOWN") : e \in json.unknowns}
                             \cup {ManualRule(e, "UNSUPPORTED") : e \in json.unsupported}
    BY DEF BuildRules
  <2>3. Walk(V, json.review) = {RuleAt(x, i) : i \in Leaves(V)} BY DEF Walk, RuleAt, json
  <2> QED BY <2>1, <2>2, <2>3
<1>2. \A e : ExclusionRule(e).review = TRUE BY DEF ExclusionRule, RuleOf
<1>3. \A e, g : ManualRule(e, g).review = TRUE BY DEF ManualRule, RuleOf
<1>4. Trusted(Rows[x]) = {RuleAt(x, i) : i \in TrustedLeaves(x)}
  <2>1. TrustedLeaves(x) = {i \in Leaves(V) : ~RuleAt(x, i).review} BY DEF TrustedLeaves
  <2>2. Trusted(Rows[x]) = {r \in Rows[x] : ~r.review} BY DEF Trusted
  <2> HIDE DEF V, json
  <2> QED BY <1>1, <1>2, <1>3, <2>1, <2>2
<1>5. IsFiniteSet(TrustedLeaves(x))
  <2>1. TrustedLeaves(x) \subseteq DOMAIN Extractions[x].tree
    <3>1. Leaves(V) \subseteq DOMAIN V BY DEF Leaves
    <3>2. DOMAIN V \subseteq DOMAIN Extractions[x].tree BY StoredTreeIs
    <3> QED BY <3>1, <3>2 DEF TrustedLeaves
  <2>2. IsFiniteSet(DOMAIN Extractions[x].tree) BY TreeAssumption DEF IsTree
  <2> QED BY <2>1, <2>2, FS_Subset
<1>6. IsFiniteSet(Trusted(Rows[x]))
  <2> DEFINE f == [i \in TrustedLeaves(x) |-> RuleAt(x, i)]
  <2>1. f \in Surjection(TrustedLeaves(x), Trusted(Rows[x])) BY <1>4 DEF Surjection
  <2> HIDE DEF f
  <2> QED BY <1>5, <2>1, FS_Surjection
<1>7. ASSUME NEW i \in TrustedLeaves(x)
      PROVE  LET n == Json[x].tree[i] IN
             /\ ~Json[x].review /\ n.sure /\ n.text.quoted /\ MatchingStrength(n.field) # "follow_up"
             /\ MatchingStrength(n.field) = "hard" =>
                  MapField(n.field, n.op, n.value.items)[1] \in FilterResolvable
             /\ IsRule(RuleAt(x, i)) /\ RuleAt(x, i).manual = FALSE
             /\ RuleAt(x, i).field # "income_status"
  <2> DEFINE n == Json[x].tree[i]
             mapped == Asked(n)
             strength == MatchingStrength(n.field)
             manual == LeftToUser(n)
             r == RuleAt(x, i)
  <2>1. /\ r.field = mapped[1] /\ r.op = mapped[2] /\ r.values = mapped[3]
        /\ r.manual = manual /\ r.review = (Json[x].review \/ manual)
        /\ DOMAIN r = {"leaf", "field", "op", "values", "hard", "manual", "review", "alt", "group"}
    BY RuleAtIs
  <2>2. ~r.review /\ i \in Leaves(V) BY DEF TrustedLeaves
  <2>3. IsList(mapped[3])
    <3> DEFINE tree == Extractions[x].tree
               k == NormalizeLeaf(tree[i])
    <3>1. i \in Collected(tree) /\ n \in ValidateLeaf(k).leaf BY <2>2, StoredTreeIs
    <3>2. i \in DOMAIN tree /\ ~IsGroup(tree[i]) BY <3>1 DEF Collected, Leaves
    <3>3. DOMAIN tree[i] = {"up", "op", "field", "value", "text", "sure"} /\ IsValue(tree[i])
      BY <3>2, TreeAssumption DEF IsTree
    <3>4. IsLeaf(k) BY <3>3, NormalizedLeafIs
    <3> HIDE DEF k, n
    <3> QED BY <3>1, <3>4, LeafKeeps DEF Asked
  <2> HIDE DEF r, n, mapped
  <2>4. ~manual /\ ~Json[x].review BY <2>1, <2>2
  <2>5. r.manual = FALSE BY <2>1, <2>4
  <2> HIDE DEF manual
  <2>6. IsRule(r) BY <2>1, <2>3, <2>5 DEF IsRule
  <2>7. r.field # "income_status"
    <3> SUFFICES ASSUME mapped[1] = "income_status" PROVE FALSE
      BY <2>1
    <3>1. n.field = "income_status"
      <4>1. \/ mapped[1] \in {"stage", "special", "income"}
            \/ mapped[1] = n.field
        BY MapFieldIs DEF mapped, Asked
      <4> QED BY <4>1
    <3>2. strength = "hard"
      <4>1. "income_status" \in HardFields BY DEF HardFields
      <4> QED BY <3>1, <4>1, StrengthIs
    <3>3. mapped[1] \notin FilterResolvable BY DEF FilterResolvable
    <3> QED BY <2>4, <3>2, <3>3 DEF manual, mapped, LeftToUser
  <2> QED BY <2>4, <2>5, <2>6, <2>7 DEF manual, mapped, n, r, LeftToUser, Asked
<1> QED BY <1>4, <1>6, <1>7

\* What the filter refuses by the rules of a profile, a condition refuses, and, where it
\* is one of several alternatives, all of those that are trusted.
LEMMA RefusalByRules ==
  ASSUME NEW x \in DOMAIN Extractions, NEW c, Filter(c, Rows[x]).failed # {}
  PROVE  \E i \in TrustedLeaves(x) :
           /\ RuleRefuses(c, RuleAt(x, i))
           /\ RuleAt(x, i).alt =>
                \A j \in TrustedLeaves(x) :
                  RuleAt(x, j).alt /\ RuleAt(x, j).group = RuleAt(x, i).group => RuleRefuses(c, RuleAt(x, j))
<1> DEFINE R == Trusted(Rows[x])
           member(r) == MemberVerdict(c, r, FilterValue(c, r.field))
<1>1. /\ IsFiniteSet(R) /\ R = {RuleAt(x, i) : i \in TrustedLeaves(x)}
      /\ \A i \in TrustedLeaves(x) : /\ IsRule(RuleAt(x, i)) /\ RuleAt(x, i).manual = FALSE
                                     /\ RuleAt(x, i).field # "income_status"
  BY TrustedRulesAre
<1> HIDE DEF R
<1>2. \A r \in R : IsRule(r) /\ r.manual = FALSE /\ r.field # "income_status" BY <1>1
<1>3. \/ \E r \in Flat(R) : FlatVerdict(r, FilterValue(c, r.field)) = "fail"
      \/ \E g \in OrGroups(R) : GroupOutcome({member(r) : r \in g}) = "fail"
  BY <1>1, <1>2, FilterFails DEF R
<1>4. \E r \in R : RuleRefuses(c, r) /\
        (r.alt => \A s \in R : s.alt /\ s.group = r.group => RuleRefuses(c, s))
  <2>1. CASE \E r \in Flat(R) : FlatVerdict(r, FilterValue(c, r.field)) = "fail"
    <3>1. PICK r \in Flat(R) : FlatVerdict(r, FilterValue(c, r.field)) = "fail" BY <2>1
    <3>2. r \in R /\ Cardinality(Alternatives(R, r)) = 1 BY DEF Flat
    <3>3. RuleRefuses(c, r) BY <1>2, <3>1, <3>2, VerdictRefuses
    <3>4. ASSUME r.alt, NEW s \in R, s.alt, s.group = r.group PROVE s = r
      <4> DEFINE A == Alternatives(R, r)
      <4>1. A \in SUBSET R /\ r \in A /\ s \in A BY <3>2, <3>4 DEF Alternatives
      <4> HIDE DEF A
      <4>2. IsFiniteSet(A) BY <1>1, <4>1, FS_Subset
      <4>3. ~(Cardinality(A) > 1) BY <3>2 DEF A
      <4>4. A = {r} BY <4>1, <4>2, <4>3, OnlyOne
      <4> QED BY <4>1, <4>4
    <3> QED BY <3>2, <3>3, <3>4
  <2>2. CASE \E g \in OrGroups(R) : GroupOutcome({member(r) : r \in g}) = "fail"
    <3>1. PICK r \in R : /\ Cardinality(Alternatives(R, r)) > 1
                         /\ GroupOutcome({member(s) : s \in Alternatives(R, r)}) = "fail"
      BY <2>2 DEF OrGroups
    <3>2. r.alt
      <4> SUFFICES ASSUME ~r.alt PROVE FALSE
        OBVIOUS
      <4>1. Alternatives(R, r) = {r} BY DEF Alternatives
      <4>2. Cardinality({r}) = 1 BY FS_Singleton
      <4> QED BY <3>1, <4>1, <4>2
    <3> DEFINE A == {s \in R : s.alt /\ s.group = r.group}
    <3>3. Alternatives(R, r) = A BY <3>2 DEF Alternatives
    <3>4. \A s \in A : member(s) \in {"match", "manual", "missing", "indeterminate", "fail", "skip"}
      BY <1>2, VerdictRefuses
    <3>5. {member(s) : s \in A} \subseteq {"fail", "skip"}
      <4> DEFINE verdicts == {member(s) : s \in A}
      <4>1. verdicts \subseteq {"match", "manual", "missing", "indeterminate", "fail", "skip"} BY <3>4
      <4>2. GroupOutcome(verdicts) = "fail" BY <3>1, <3>3
      <4> HIDE DEF verdicts
      <4>3. verdicts \subseteq {"fail", "skip"} BY <4>1, <4>2, GroupRefuses
      <4> QED BY <4>3 DEF verdicts
    <3>6. \A s \in A : RuleRefuses(c, s)
      <4> SUFFICES ASSUME NEW s \in A PROVE RuleRefuses(c, s)
        OBVIOUS
      <4>1. member(s) \in {"fail", "skip"} BY <3>5
      <4> QED BY <1>2, <4>1, VerdictRefuses
    <3> QED BY <3>2, <3>6
  <2> QED BY <1>3, <2>1, <2>2
<1>5. PICK r \in R : RuleRefuses(c, r) /\
        (r.alt => \A s \in R : s.alt /\ s.group = r.group => RuleRefuses(c, s))
  BY <1>4
<1>6. PICK i \in TrustedLeaves(x) : r = RuleAt(x, i) BY <1>1
<1>7. \A j \in TrustedLeaves(x) : RuleAt(x, j) \in R BY <1>1
<1> QED BY <1>5, <1>6, <1>7

(***************************************************************************)
(* Sentences that refuse.                                                  *)
(***************************************************************************)
\* A trusted rule that refuses comes from a condition that denies the user.
LEMMA TrustedRuleDenies ==
  ASSUME NEW x \in DOMAIN Extractions, ~KnownCause(x), NEW c \in Answers,
         NEW i \in TrustedLeaves(x), RuleRefuses(c, RuleAt(x, i))
  PROVE  LET n == Extractions[x].tree[i] IN
         /\ i \in Collected(Extractions[x].tree)
         /\ Refuted(NormalizeLeaf(n), c) /\ Denies(n, c)
<1> DEFINE tree == Extractions[x].tree
           n == NormalizeLeaf(tree[i])
           m == Json[x].tree[i]
<1>1. i \in Leaves(Json[x].tree) BY DEF TrustedLeaves
<1>2. i \in Collected(tree) /\ m \in ValidateLeaf(n).leaf BY <1>1, StoredTreeIs
<1>3. /\ ~Json[x].review /\ m.sure /\ m.text.quoted /\ MatchingStrength(m.field) # "follow_up"
      /\ MatchingStrength(m.field) = "hard" => Asked(m)[1] \in FilterResolvable
  BY TrustedRulesAre DEF Asked
<1>4. ValidateLeaf(n).unsupported = {} BY <1>1, <1>3, StoredTreeIs
<1>5. /\ i \in DOMAIN tree /\ ~IsGroup(tree[i]) /\ tree[i].op # "EXCLUDES"
      /\ MatchingStrength(FieldNormalization(tree[i].field)) # None
  BY <1>2 DEF Collected, Excluding, Leaves
<1>6. DOMAIN tree[i] = {"up", "op", "field", "value", "text", "sure"} /\ IsValue(tree[i])
  BY <1>5, TreeAssumption DEF IsTree
<1>7. IsLeaf(n) /\ n.field = FieldNormalization(tree[i].field) BY <1>6, NormalizedLeafIs
<1>8. ~Misread(n) BY <1>5 DEF KnownCause, Leaves
<1>9. RowRefuses(c, Asked(m)[1], Asked(m)[2], Asked(m)[3]) BY RuleAtIs DEF RuleRefuses
<1> HIDE DEF n, m, tree
<1>10. MatchingStrength(n.field) # None BY <1>5, <1>7
<1>11. Refuted(n, c)
  BY <1>2, <1>3, <1>4, <1>7, <1>8, <1>9, <1>10, LeafRefuses DEF Asked
<1> QED BY <1>2, <1>5, <1>11 DEF n, tree, Denies

\* A sentence of which a part that is no alternative cannot hold admits nobody: the group
\* it is in cannot hold either, and is no alternative.
LEMMA PartOfAll ==
  ASSUME NEW x \in DOMAIN Extractions, ~SplitAlternative(x), NEW c,
         NEW S \in SUBSET DOMAIN Extractions[x].tree, MayHold(Extractions[x].tree, S, c),
         NEW i \in DOMAIN Extractions[x].tree \ S
  PROVE  IsAlternative(Extractions[x].tree, i)
<1> DEFINE tree == Extractions[x].tree
           out == {k \in DOMAIN tree \ S : ~IsAlternative(tree, k)}
<1> SUFFICES ASSUME ~IsAlternative(tree, i) PROVE FALSE
  OBVIOUS
<1>1. IsTree(tree) BY TreeAssumption
<1>2. out \in SUBSET Nat BY <1>1 DEF IsTree
<1>3. out # {} OBVIOUS
<1>4. PICK k \in out : \A j \in out : k <= j BY <1>2, <1>3, LeastNumber
<1>5. k \in DOMAIN tree /\ k \notin S /\ ~IsAlternative(tree, k) OBVIOUS
<1> DEFINE p == tree[k].up
<1>6. k \in Children(tree, p) BY <1>5 DEF Children
<1>7. p # 0
  <2>1. Children(tree, 0) \subseteq S BY DEF MayHold
  <2> QED BY <1>5, <1>6, <2>1
<1>8. p \in DOMAIN tree /\ p < k /\ IsGroup(tree[p]) BY <1>1, <1>5, <1>7 DEF IsTree
<1>9. tree[p].op # "OR" BY <1>5, <1>7 DEF IsAlternative
<1>10. p \notin S
  <2> SUFFICES ASSUME p \in S PROVE FALSE
    OBVIOUS
  <2>1. GroupOperator(tree[p].op) # "OR" BY <1>9 DEF GroupOperator
  <2>2. Children(tree, p) \subseteq S BY <1>8, <2>1 DEF MayHold
  <2> QED BY <1>5, <1>6, <2>2
<1>11. ~IsAlternative(tree, p)
  BY <1>8 DEF SplitAlternative, LostAlternative, IsAlternative
<1>12. p \in out BY <1>8, <1>10, <1>11
<1>13. k \in Nat /\ p \in Nat BY <1>2, <1>12
<1>14. k <= p BY <1>4, <1>12
<1> QED BY <1>8, <1>13, <1>14

\* The rules of a profile refuse nobody whom its sentence admits, but for the known causes.
THEOREM RefusedIsDenied ==
  ASSUME NEW x \in DOMAIN Extractions, ~KnownCause(x), NEW c \in Answers,
         Filter(c, Rows[x]).failed # {}
  PROVE  ~Admits(x, c)
<1> DEFINE tree == Extractions[x].tree
           V == Json[x].tree
<1> SUFFICES ASSUME NEW S \in SUBSET DOMAIN tree, MayHold(tree, S, c) PROVE FALSE
  BY DEF Admits
<1>1. ~SplitAlternative(x) BY DEF KnownCause
<1>2. \A k \in DOMAIN tree : IsAlternative(tree, k) => ~LostAlternative(x, k)
  BY <1>1 DEF SplitAlternative, IsAlternative
<1>3. PICK i \in TrustedLeaves(x) :
        /\ RuleRefuses(c, RuleAt(x, i))
        /\ RuleAt(x, i).alt =>
             \A j \in TrustedLeaves(x) :
               RuleAt(x, j).alt /\ RuleAt(x, j).group = RuleAt(x, i).group => RuleRefuses(c, RuleAt(x, j))
  BY RefusalByRules
<1>4. i \in Collected(tree) /\ Denies(tree[i], c) BY <1>3, TrustedRuleDenies
<1>5. \A k \in Collected(tree) : k \in DOMAIN tree /\ ~IsGroup(tree[k]) BY DEF Collected, Leaves
<1>6. \A k \in Collected(tree) : Denies(tree[k], c) => k \notin S BY <1>5 DEF MayHold
<1>7. ~Json[x].review BY TrustedRulesAre
<1>8. ASSUME NEW j \in Leaves(V)
      PROVE  /\ V[j].up = tree[j].up
             /\ tree[j].up # 0 => V[tree[j].up].op = GroupOperator(tree[tree[j].up].op)
             /\ RuleAt(x, j).alt <=> IsAlternative(tree, j)
  <2>1. j \in DOMAIN V BY DEF Leaves
  <2>2. /\ V[j].up = tree[j].up
        /\ V[j].up # 0 => V[V[j].up].op = GroupOperator(tree[tree[j].up].op)
    BY <2>1, StoredTreeIs
  <2>3. RuleAt(x, j).alt = IsAlternative(V, j) BY RuleAtIs
  <2>4. \A op : GroupOperator(op) = "OR" <=> op = "OR" BY DEF GroupOperator
  <2> HIDE DEF tree, V
  <2> QED BY <2>2, <2>3, <2>4 DEF IsAlternative
<1>9. IsAlternative(tree, i) BY <1>1, <1>4, <1>5, <1>6, PartOfAll
<1> DEFINE u == tree[i].up
<1>10. i \in Leaves(V) /\ V[i].up = u /\ RuleAt(x, i).alt BY <1>8, <1>9 DEF TrustedLeaves
<1>11. u # 0 /\ u \in DOMAIN tree /\ IsGroup(tree[u]) /\ tree[u].op = "OR"
  <2>1. u # 0 /\ tree[u].op = "OR" BY <1>9 DEF IsAlternative
  <2>2. IsTree(tree) /\ i \in DOMAIN tree BY <1>4, <1>5, TreeAssumption
  <2> QED BY <2>1, <2>2 DEF IsTree
<1>12. ASSUME NEW k \in Children(tree, u) PROVE k \notin S
  <2>1. k \in DOMAIN tree /\ tree[k].up = u BY DEF Children
  <2>2. ~LostAlternative(x, k) BY <1>2, <1>11, <2>1 DEF IsAlternative
  <2>3. ~IsGroup(tree[k]) /\ tree[k].op # "EXCLUDES" BY <2>2 DEF LostAlternative
  <2>4. k \in Collected(tree)
    <3>1. Collected(tree) = Leaves(tree) \ Excluding(tree) BY <1>7, StoredTreeIs
    <3> QED BY <2>1, <2>3, <3>1 DEF Leaves, Excluding
  <2>5. PICK j \in Collected(tree) :
          /\ tree[j].up = tree[k].up
          /\ SaysTheSame(NormalizeLeaf(tree[k]), NormalizeLeaf(tree[j]))
          /\ \/ j \in Leaves(V)
             \/ tree[j].field = "special_condition" /\ Tokens(tree[j].value) = {}
    BY <1>7, <2>4, StoredTreeIs
  <2>6. j \in DOMAIN tree /\ ~IsGroup(tree[j]) /\ tree[j].up = u BY <1>5, <2>1, <2>5
  <2>7. IsAlternative(tree, j) BY <1>11, <2>6 DEF IsAlternative
  <2>8. ~LostAlternative(x, j) BY <1>2, <2>6, <2>7
  <2>9. j \in Leaves(V) BY <2>5, <2>8 DEF LostAlternative
  <2>10. RuleAt(x, j) \in Rows[x] /\ RuleAt(x, j).leaf = j
    <3>1. RuleAt(x, j).leaf = j BY RuleAtIs
    <3>2. Rows[x] = BuildRules(Json[x]) BY DEF Rows, Json
    <3>3. RuleAt(x, j) \in Walk(V, Json[x].review) BY <2>9 DEF Walk, RuleAt
    <3> QED BY <3>1, <3>2, <3>3 DEF BuildRules
  <2>11. ~RuleAt(x, j).review BY <2>8, <2>10 DEF LostAlternative
  <2>12. j \in TrustedLeaves(x) BY <2>9, <2>11 DEF TrustedLeaves
  <2>13. RuleAt(x, j).alt /\ RuleAt(x, j).group = RuleAt(x, i).group
    <3>1. RuleAt(x, j).alt BY <1>8, <2>7, <2>9
    <3>2. V[j].up = V[i].up BY <1>8, <1>10, <2>6, <2>9
    <3>3. RuleAt(x, j).group = GroupKeys(V)[V[j].up] BY RuleAtIs
    <3>4. RuleAt(x, i).group = GroupKeys(V)[V[i].up] BY RuleAtIs
    <3> QED BY <3>1, <3>2, <3>3, <3>4
  <2>14. RuleRefuses(c, RuleAt(x, j)) BY <1>3, <1>10, <2>12, <2>13
  <2>15. Refuted(NormalizeLeaf(tree[j]), c) BY <2>12, <2>14, TrustedRuleDenies
  <2> DEFINE n == NormalizeLeaf(tree[k])
             m == NormalizeLeaf(tree[j])
  <2>16. tree[k].text = tree[j].text /\ tree[k].sure = tree[j].sure
    <3>1. j \in Children(tree, tree[k].up) \cap Leaves(tree) BY <2>1, <2>6 DEF Children, Leaves
    <3> QED BY <2>2, <2>5, <3>1 DEF LostAlternative
  <2>17. /\ IsLeaf(n) /\ n.text = tree[k].text /\ n.sure = tree[k].sure
         /\ IsLeaf(m) /\ m.text = tree[j].text /\ m.sure = tree[j].sure
    <3>1. IsTree(tree) BY TreeAssumption
    <3>2. \A l \in {k, j} : /\ DOMAIN tree[l] = {"up", "op", "field", "value", "text", "sure"}
                            /\ IsValue(tree[l])
      BY <2>1, <2>3, <2>6, <3>1 DEF IsTree
    <3> QED BY <3>2, NormalizedLeafIs
  <2>18. Refuted(n, c)
    <3> HIDE DEF n, m
    <3>1. SaysTheSame(n, m) /\ Refuted(m, c) BY <2>5, <2>15 DEF n, m
    <3> QED BY <2>16, <2>17, <3>1, SameDeny
  <2>19. Denies(tree[k], c) BY <2>3, <2>18 DEF Denies
  <2> QED BY <1>6, <2>4, <2>19
<1>13. u \notin S
  <2> SUFFICES ASSUME u \in S PROVE FALSE
    OBVIOUS
  <2>1. GroupOperator(tree[u].op) = "OR" BY <1>11 DEF GroupOperator
  <2>2. Children(tree, u) \cap S # {} BY <1>11, <2>1 DEF MayHold
  <2> QED BY <1>12, <2>2
<1>14. IsAlternative(tree, u) BY <1>1, <1>11, <1>13, PartOfAll
<1>15. LostAlternative(x, u) BY <1>11 DEF LostAlternative
<1> QED BY <1>2, <1>11, <1>14, <1>15

\* Nobody is refused without a cause, by the rules of whatever extraction.
LEMMA NobodyRefusedWrongly ==
  \A x \in DOMAIN Extractions : RefusedWrongly[x] = {}
<1> SUFFICES ASSUME NEW x \in DOMAIN Extractions PROVE RefusedWrongly[x] = {}
  OBVIOUS
<1>1. RefusedWrongly[x] = {c \in Answers : Filter(c, Rows[x]).failed # {} /\ Admits(x, c) /\ ~KnownCause(x)}
  BY DEF RefusedWrongly
<1> QED BY <1>1, RefusedIsDenied
=============================================================================
