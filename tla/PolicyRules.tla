---------------------------- MODULE PolicyRules ----------------------------
(***************************************************************************)
(* How a policy is judged against what a user has said of himself.  Pure   *)
(* operators, used by the candidate search, the eligibility filter and the *)
(* gate that asks for what is missing.                                     *)
(*                                                                         *)
(* A condition is a function from the fields the user has answered to sets *)
(* of values.  A comparison has three results, and "unclear" is the code's *)
(* None.                                                                   *)
(***************************************************************************)
EXTENDS Integers, Sequences, FiniteSets

CONSTANT Numeral   \* the texts that denote a number, and the number

Infinity == 1000

ASSUME NumeralAssumption == \A s \in DOMAIN Numeral : Numeral[s] \in 0..(Infinity - 1)

\* A row of policy_rule; "alt" says that its group_operator is OR.
RuleRow == [field : STRING, op : STRING, values : Seq(STRING), hard : BOOLEAN, manual : BOOLEAN,
            review : BOOLEAN, alt : BOOLEAN, group : STRING]

ValuesOf(seq) == {seq[i] : i \in DOMAIN seq}

\* An income level is above its lower bound; an age bucket includes both.
IncomeRange == [low |-> <<0, 50>>, mid1 |-> <<50, 100>>,
                mid2 |-> <<100, 150>>, high |-> <<150, Infinity>>]

IncomePercent == [low |-> 50, mid1 |-> 100, mid2 |-> 150, high |-> 200]

ChildAgeRange == [b \in {"0", "1", "2-5", "6-12", "13+"} |->
  CASE b = "0" -> <<0, 0>> [] b = "1" -> <<1, 1>> [] b = "2-5" -> <<2, 5>>
    [] b = "6-12" -> <<6, 12>> [] b = "13+" -> <<13, Infinity>>]

Basic == "basic_livelihood_recipient"
Specific == {"medical_benefit_recipient", "housing_benefit_recipient",
             "education_benefit_recipient", "livelihood_benefit_recipient"}

\* The number a text denotes, if it denotes one.
ToNumber(v) ==
  IF v \in DOMAIN IncomePercent THEN {IncomePercent[v]}
  ELSE IF v \in DOMAIN Numeral THEN {Numeral[v]} ELSE {}

Decide(yes, no) == IF yes THEN "yes" ELSE IF no THEN "no" ELSE "unclear"

(***************************************************************************)
(* Matching one rule.                                                      *)
(***************************************************************************)
\* Mutant: a bucket that does not pass as a whole has failed.
IncomeMatchHasty(op, low, up, t) ==
  CASE op = "LTE" -> Decide(up <= t, TRUE)    [] op = "LT" -> Decide(up < t, TRUE)
    [] op = "GTE" -> Decide(low >= t, up < t) [] op = "GT" -> Decide(low >= t, up <= t)

IncomeBucketMatch(op, low, up, t) ==
  CASE op = "LTE" -> Decide(up <= t, low >= t) [] op = "LT" -> Decide(up < t, low >= t)
    [] op = "GTE" -> Decide(low >= t, up < t)  [] op = "GT" -> Decide(low >= t, up <= t)

ChildAgeBucketMatch(op, low, up, t) ==
  CASE op = "LTE" -> Decide(up <= t, low > t)  [] op = "LT" -> Decide(up < t, low >= t)
    [] op = "GTE" -> Decide(low >= t, up < t)  [] op = "GT" -> Decide(low > t, up <= t)

Compares(op, n, t) ==
  CASE op = "LTE" -> n <= t [] op = "LT" -> n < t [] op = "GTE" -> n >= t [] op = "GT" -> n > t

NumericCompare(op, v, t) ==
  IF v \in DOMAIN IncomeRange THEN IncomeBucketMatch(op, IncomeRange[v][1], IncomeRange[v][2], t)
  ELSE IF v \in DOMAIN ChildAgeRange
  THEN ChildAgeBucketMatch(op, ChildAgeRange[v][1], ChildAgeRange[v][2], t)
  ELSE IF ToNumber(v) = {} THEN "unclear"
  ELSE Decide(\E n \in ToNumber(v) : Compares(op, n, t), TRUE)

\* Several ages of a household: one that passes is enough.
NumericAnyOf(op, given, t) ==
  LET results == {NumericCompare(op, v, t) : v \in given} IN
  Decide("yes" \in results, "unclear" \notin results)

ChildAgeInSet(low, up, allowed) ==
  IF up = Infinity THEN Decide(FALSE, \A n \in allowed : n < low)
  ELSE Decide((low..up) \subseteq allowed, (low..up) \cap allowed = {})

\* Who has only said that he gets basic livelihood support may get a specific benefit.
Listed(given, targets) ==
  Decide(given \cap targets # {}, ~(targets \cap Specific # {} /\ Basic \in given))

RuleMatches(op, given, values) ==
  CASE op = "EQ" -> IF values = <<>> THEN "unclear" ELSE Listed(given, {values[1]})
    [] op = "IN" ->
         LET ages == {a \in DOMAIN ChildAgeRange : given = {a}} IN
         IF ages # {} /\ values # <<>> /\ \A v \in ValuesOf(values) : ToNumber(v) # {}
         THEN LET a == CHOOSE x \in ages : TRUE IN
              ChildAgeInSet(ChildAgeRange[a][1], ChildAgeRange[a][2],
                            UNION {ToNumber(v) : v \in ValuesOf(values)})
         ELSE Listed(given, ValuesOf(values))
    [] op \in {"LTE", "LT", "GTE", "GT"} ->
         IF values = <<>> \/ ToNumber(values[1]) = {} THEN "unclear"
         ELSE NumericAnyOf(op, given, CHOOSE t \in ToNumber(values[1]) : TRUE)
    [] op = "EXISTS" -> Decide(given # {}, TRUE)
    [] OTHER -> "unclear"

\* What the user has answered for a field; nothing and an empty answer are the same.
ConditionKey(f) ==
  CASE f = "child_age" -> "childAge" [] f = "median_income_percent" -> "income" [] OTHER -> f
ConditionValue(c, f) == IF ConditionKey(f) \in DOMAIN c THEN c[ConditionKey(f)] ELSE {}

\* The form asks every special circumstance: an empty answer says "none of them".
IsExhaustiveEmpty(c, f) == f = "special" /\ f \in DOMAIN c /\ c[f] = {}

\* "none" says that the user gets no benefit: a rule that demands one has failed.
DeniedIncomeMismatch(r, given) ==
  r.field = "income_status" /\ "none" \in given /\ "none" \notin ValuesOf(r.values)

FlatVerdict(r, given) ==
  LET m == RuleMatches(r.op, given, r.values) IN
  IF DeniedIncomeMismatch(r, given) THEN "fail"
  ELSE IF r.manual THEN "manual"
  ELSE IF given = {} THEN (IF r.hard THEN "missing" ELSE "skip")
  ELSE IF m = "yes" THEN "match"
  ELSE IF m = "unclear" THEN "manual"
  ELSE IF r.hard THEN "fail" ELSE "skip"

\* Among alternatives, a soft rule without an answer is not the same as a soft mismatch.
MemberVerdict(c, r, given) ==
  IF given = {} /\ ~r.manual /\ ~DeniedIncomeMismatch(r, given)
  THEN IF IsExhaustiveEmpty(c, r.field) THEN (IF r.hard THEN "fail" ELSE "skip")
       ELSE IF r.hard THEN "missing" ELSE "indeterminate"
  ELSE FlatVerdict(r, given)

GroupOutcome(verdicts) ==
  IF "match" \in verdicts THEN "match"
  ELSE IF verdicts \cap {"manual", "missing"} # {} THEN "manual"
  ELSE IF "fail" \in verdicts
  THEN (IF "indeterminate" \in verdicts THEN "manual" ELSE "fail") ELSE "skip"

\* The alternatives of a rule; alone, it is a rule like any other.
Alternatives(rules, r) == IF r.alt THEN {s \in rules : s.alt /\ s.group = r.group} ELSE {r}
OrGroups(rules) ==
  {g \in {Alternatives(rules, r) : r \in rules} : Cardinality(g) > 1}
Flat(rules) == {r \in rules : Cardinality(Alternatives(rules, r)) = 1}

Result(matched, missing, failed, manual) ==
  [matched |-> matched, missing |-> missing, failed |-> failed, manual |-> manual]

(***************************************************************************)
(* The filter of the eligibility check and of the missing-information gate.*)
(***************************************************************************)
\* Rules that list allowed values of one field, and are read as one list.
Merged(rules) ==
  LET like(r) == {s \in rules : /\ s.op = "IN" /\ ~s.manual
                                /\ s.field = r.field /\ s.hard = r.hard}
      lists == {r \in rules : r.op = "IN" /\ ~r.manual}
      values(S) == CHOOSE q \in [1..Cardinality(UNION {ValuesOf(s.values) : s \in S}) ->
                                  UNION {ValuesOf(s.values) : s \in S}] :
                     ValuesOf(q) = UNION {ValuesOf(s.values) : s \in S}
  IN (rules \ lists) \cup {[(CHOOSE s \in like(r) : TRUE) EXCEPT !.values = values(like(r))] : r \in lists}

\* The age of the applicant falls back to the age of the child.
FilterValue(c, f) ==
  IF f = "age" /\ ConditionValue(c, f) = {} THEN ConditionValue(c, "childAge")
  ELSE ConditionValue(c, f)

Trusted(rules) == {r \in rules : ~r.review}

Filter(c, rules) ==
  LET flat == Merged(Flat(Trusted(rules)))
      of(v) == {r \in flat : FlatVerdict(r, FilterValue(c, r.field)) = v}
      verdicts(g) == {MemberVerdict(c, r, FilterValue(c, r.field)) : r \in g}
      groups(o) == {g \in OrGroups(Trusted(rules)) : GroupOutcome(verdicts(g)) = o}
      matches == {r \in UNION groups("match") : MemberVerdict(c, r, FilterValue(c, r.field)) = "match"}
      names(S) == {r.field : r \in S}
      joined(G) == {{r.field : r \in g} : g \in G}
      single(S) == {{f} : f \in names(S)}
  IN Result(single(of("match") \cup matches), single(of("missing")),
            single(of("fail")) \cup joined(groups("fail")),
            single(of("manual")) \cup joined(groups("manual")))
=============================================================================
