-------------------------- MODULE ConditionProfile --------------------------
(***************************************************************************)
(* What is stored of the conditions a model has read in a policy's text.   *)
(* Pure operators.                                                         *)
(*                                                                         *)
(* A tree is a function from node numbers to nodes; a child has a larger   *)
(* number than its parent, and 0 is the parent of the root.  A group is a  *)
(* record [up, op, key], a condition                                       *)
(*   [up, op, field, value, text, sure]                                    *)
(* where a value is [shape, items] with the shape "none", "one", "list",   *)
(* "range" or "percent" (the objects a field knows) or "object" (another), *)
(* and a text is a record [marks, percent, quoted]: what its words say,    *)
(* the percentage it states ("none" or a text), and whether the source has *)
(* it.  "sure" says that its confidence is at least one half.              *)
(***************************************************************************)
EXTENDS PolicyRules

CONSTANT Worded  \* texts that hold a number ("100%"): the numeral in them

None == "none"
NoValue == [shape |-> "none", items |-> <<>>]
One(v) == [shape |-> "one", items |-> <<v>>]
IsObject(value) == value.shape \in {"range", "percent", "object"}
Holds(value) == value.items # <<>>

HardFields == {"stage", "child_age", "income_status", "median_income_percent", "region",
               "household_type", "special_condition", "pregnancy_status",
               "household_member_age", "age"}
SoftFields == {"employment_status", "worker_status", "employee_status", "insurance_status",
               "program_participation", "benefit_overlap"}
FollowUpFields == {"accident_victim_status", "debt_status", "bankruptcy_status",
                   "legal_consultation_need", "environmental_damage_type"}
\* Conditions the service does not collect: who lives here legally, kinds of
\* disability, farming.
UnsupportedFields == {"nationality_status", "refugee_status", "visa_status",
                      "disability_type", "disability_grade", "farmer_status"}

StageAllowed == {"pregnant", "newborn", "infant", "child", "youth"}
BirthEvents == {"birth", "childbirth", "delivery", "miscarriage", "stillbirth", "abortion"}
SpecialAllowed == {"single_parent_or_grandparent", "multicultural_or_defector",
                   "disabled_household", "multichild", "low_income"}

(***************************************************************************)
(* Normalisation of one condition.                                         *)
(***************************************************************************)
\* Names a model invents whose meaning is clear.
FieldNormalization(f) ==
  CASE f \in {"young_children", "infant", "newborn"} -> "stage"
    [] f \in {"occupation", "worker_status", "employee_status", "working_status"} -> "employment_status"
    [] f = "under_34" -> "household_member_age"
    [] f \in {"basic_living_security", "basic_livelihood_security", "livelihood_recipient",
              "near_basic_living_security", "near_poverty"} -> "income_status"
    [] f = "median_income" -> "median_income_percent"
    [] OTHER -> f

\* The value such a name implies, where the model gave none.
ImpliedValue(f) ==
  CASE f = "under_34" -> One("34")
    [] f \in {"basic_living_security", "basic_livelihood_security", "livelihood_recipient"} -> One(Basic)
    [] f \in {"near_basic_living_security", "near_poverty"} -> One("near_poverty_class")
    [] OTHER -> NoValue

NormalizeOperator(op) ==
  CASE op \in {"EXISTS", "EXIST", "PRESENT", "HAS"} -> "EXISTS"
    [] op \in {"EQ", "EQUAL", "EQUALS", "IS", "==", "="} -> "EQ"
    [] op \in {"IN", "INCLUDE", "INCLUDES", "ONE_OF", "ANY_OF", "ANYOF"} -> "IN"
    [] op \in {"LTE", "LE", "<="} -> "LTE" [] op \in {"GTE", "GE", ">="} -> "GTE"
    [] op \in {"LT", "<"} -> "LT"          [] op \in {"GT", ">"} -> "GT"
    [] OTHER -> "UNKNOWN"

MatchingStrength(f) ==
  CASE f \in HardFields -> "hard" [] f \in SoftFields -> "soft"
    [] f \in FollowUpFields -> "follow_up" [] OTHER -> None

NormalizeLeaf(n) ==
  [n EXCEPT !.field = FieldNormalization(n.field),
            !.op = NormalizeOperator(IF n.field = "under_34" THEN "LTE" ELSE n.op),
            !.value = IF Holds(n.value) THEN n.value ELSE ImpliedValue(n.field)]

(***************************************************************************)
(* Trees.                                                                  *)
(***************************************************************************)
IsGroup(n) == "field" \notin DOMAIN n
Leaves(tree) == {i \in DOMAIN tree : ~IsGroup(tree[i])}

\* The tree with some of its conditions; a group that has none of them goes too.  What
\* is left is the smallest part with them where no node has lost its parent.
HasParents(tree, S) == \A i \in S : tree[i].up \in {0} \cup S
Pruned(tree, kept) ==
  LET parts == {S \in SUBSET DOMAIN tree : kept \subseteq S /\ HasParents(tree, S)}
  IN [i \in {j \in DOMAIN tree : \A S \in parts : j \in S} |-> tree[i]]

GroupOperator(op) == IF op = "OR" THEN "OR" ELSE "AND"

\* Of several conditions of a group that say the same, the first: neither the order of a
\* list, nor the text, nor how sure it is counts.
Occurrences(items) ==
  [v \in ValuesOf(items) |-> Cardinality({i \in DOMAIN items : items[i] = v})]
SaysTheSame(n, m) ==
  /\ n.field = m.field /\ n.op = m.op /\ n.value.shape = m.value.shape
  /\ \/ n.value.items = m.value.items
     \/ n.value.shape = "list" /\ Occurrences(n.value.items) = Occurrences(m.value.items)
Dedupe(tree) ==
  LET said(i, j) == tree[i].up = tree[j].up /\ SaysTheSame(tree[i], tree[j])
  IN Pruned(tree, {i \in Leaves(tree) : \A j \in Leaves(tree) : j < i => ~said(i, j)})

Entry(field, n) == [field |-> field, value |-> n.value, text |-> n.text]

Excluding(tree) == {i \in Leaves(tree) : tree[i].op = "EXCLUDES"}
Collected(tree) ==
  {i \in Leaves(tree) \ Excluding(tree) :
     MatchingStrength(FieldNormalization(tree[i].field)) # None}

NormalizeTree(tree) ==
  Dedupe([i \in DOMAIN Pruned(tree, Collected(tree)) |->
            IF IsGroup(tree[i]) THEN [tree[i] EXCEPT !.op = GroupOperator(@)]
            ELSE NormalizeLeaf(tree[i])])

\* The conditions of a tree that are of none of the collected fields.
OutOfScope(tree) ==
  {i \in Leaves(tree) \ Excluding(tree) : tree[i].field \in UnsupportedFields}
Unreadable(tree) == Leaves(tree) \ (Excluding(tree) \cup Collected(tree) \cup OutOfScope(tree))
Entries(tree, S) == {Entry(FieldNormalization(tree[i].field), tree[i]) : i \in S}

(***************************************************************************)
(* Exclusions, and sentences that look like one.                           *)
(***************************************************************************)
IsCalculation(e) == "calculation" \in e.text.marks
ClassifyExclusion(e) ==
  IF IsCalculation(e) THEN "calculation"
  ELSE IF "positive" \in e.text.marks /\ "negative" \notin e.text.marks THEN "not_exclusion"
  ELSE "exclusion"

\* A sentence filed as irrelevant that does exclude someone.
IsMisfiled(e) == ~IsCalculation(e) /\ "negative" \in e.text.marks /\ "positive" \notin e.text.marks

\* x: an extraction [tree, exclusions, ignored, unsupported, unknowns, review].
NormalizeExtraction(x) ==
  LET candidates == x.exclusions \cup Entries(x.tree, Excluding(x.tree))
      of(kind) == {e \in candidates : ClassifyExclusion(e) = kind}
      ignored == x.ignored \cup of("not_exclusion")
      tree == NormalizeTree(x.tree)
      unsupported == x.unsupported \cup Entries(x.tree, OutOfScope(x.tree))
      unknowns == x.unknowns \cup Entries(x.tree, Unreadable(x.tree))
  IN [tree |-> tree, unsupported |-> unsupported, unknowns |-> unknowns,
      exclusions |-> of("exclusion") \cup {e \in ignored : IsMisfiled(e)},
      ignored |-> {e \in ignored : ~IsMisfiled(e) /\ ~IsCalculation(e)},
      review |-> \/ x.review \/ of("calculation") # {} \/ \E e \in ignored : IsCalculation(e)
                 \/ unsupported # {} \/ unknowns # x.unknowns
                 \/ \E i \in Leaves(tree) : MatchingStrength(tree[i].field) = "follow_up"]

(***************************************************************************)
(* Validation: the values a field may have.                                *)
(***************************************************************************)
Kept(leaf) == [leaf |-> {leaf}, unsupported |-> {}, unknown |-> {}, removed |-> FALSE]
Gone == [leaf |-> {}, unsupported |-> {}, unknown |-> {}, removed |-> TRUE]
Unsupported(field, n) == [Gone EXCEPT !.unsupported = {Entry(field, n)}]
Unknown(field, n) == [Gone EXCEPT !.unknown = {Entry(field, n)}]

Tokens(value) == IF IsObject(value) THEN {} ELSE ValuesOf(value.items)
\* The items of a value that are in S, in their order.
Select(value, S) ==
  LET places == {i \in DOMAIN value.items : value.items[i] \in S}
      place(n) == CHOOSE i \in places : Cardinality({j \in places : j < i}) = n - 1
  IN [n \in 1..Cardinality(places) |-> value.items[place(n)]]
OneOrList(items) == [shape |-> IF Len(items) = 1 THEN "one" ELSE "list", items |-> items]

ToInt(v) == IF v \in DOMAIN Worded THEN {Worded[v]} ELSE {v} \cap DOMAIN Numeral
Ints(value) == {v \in ValuesOf(value.items) : ToInt(v) # {}}
IntItems(value) ==
  LET numbers == Select(value, Ints(value)) IN
  [i \in DOMAIN numbers |-> CHOOSE t \in ToInt(numbers[i]) : TRUE]

\* An event is not a stage of life.  A word that is no stage is lost beside one that is.
ValidateStage(n) ==
  LET valid == Select(n.value, Tokens(n.value) \cap StageAllowed)
      born == Tokens(n.value) \cap BirthEvents # {}
      out == [n EXCEPT !.value = OneOrList(valid),
                       !.op = IF Len(valid) > 1 \/ n.op = "IN" THEN "IN" ELSE "EQ"]
  IN IF valid = <<>>
     THEN IF born THEN Unsupported("birth_event", n)
          ELSE IF Holds(n.value) THEN Unknown("stage", n) ELSE Gone
     ELSE IF born THEN [Unsupported("birth_event", n) EXCEPT !.leaf = {out}] ELSE Kept(out)

\* Birth weight and weeks of gestation are no age.
ValidateChildAge(n) ==
  IF "clinical" \in n.text.marks \/ n.value.shape = "object" THEN Unsupported("clinical_measure", n)
  ELSE IF ~Holds(n.value) THEN Gone
  ELSE IF Ints(n.value) = {} \/ n.value.shape = "percent" THEN Unsupported("child_age", n)
  ELSE Kept([n EXCEPT !.value.items = IntItems(n.value)])

ExtractPercent(n) ==
  IF n.value.shape \in {"one", "percent"} /\ Ints(n.value) # {} THEN IntItems(n.value)[1]
  ELSE n.text.percent

PercentOperator(n, default) ==
  CASE "gt" \in n.text.marks -> "GT" [] "gte" \in n.text.marks -> "GTE"
    [] "lt" \in n.text.marks -> "LT" [] "lte" \in n.text.marks -> "LTE"
    [] OTHER -> IF default \in {"LT", "LTE", "GT", "GTE"} THEN default ELSE "LTE"

AsPercent(n, default) ==
  [n EXCEPT !.field = "median_income_percent", !.op = PercentOperator(n, default),
            !.value = [shape |-> "percent", items |-> <<ExtractPercent(n)>>]]

ValidateIncomeStatus(n) ==
  IF n.value.shape = "percent" \/ ("median" \in n.text.marks /\ ExtractPercent(n) # None)
  THEN IF ExtractPercent(n) = None THEN Unknown("median_income_percent", n)
       ELSE Kept(AsPercent(n, None))
  ELSE IF IsObject(n.value) THEN Unknown("income_status", n) ELSE Kept(n)

ValidateMedianIncome(n) ==
  IF ExtractPercent(n) = None THEN Unknown("median_income_percent", n) ELSE Kept(AsPercent(n, n.op))

\* A farmer is no family with many children, even where the model says so.
\* Without any word the condition goes, and nobody is told.
ValidateSpecial(n) ==
  LET valid == Select(n.value, Tokens(n.value) \cap SpecialAllowed)
      out == [n EXCEPT !.value = OneOrList(valid), !.op = IF Len(valid) > 1 THEN "IN" ELSE @]
  IN IF "mismatch" \in n.text.marks THEN Unsupported("special_condition", n)
     ELSE IF Tokens(n.value) = {} THEN [Gone EXCEPT !.removed = FALSE]
     ELSE IF Tokens(n.value) \subseteq SpecialAllowed THEN Kept(out)
     ELSE [Unsupported("special_condition", n) EXCEPT !.leaf = IF valid = <<>> THEN {} ELSE {out}]

\* An amount of property that depends on the region is no region.
ValidateRegion(n) ==
  IF "asset" \in n.text.marks \/ n.value.shape = "object" THEN Unsupported("asset", n)
  ELSE IF ~Holds(n.value) THEN Gone ELSE Kept(n)

ValidateLeaf(n) ==
  CASE n.field = "stage" -> ValidateStage(n) [] n.field = "child_age" -> ValidateChildAge(n)
    [] n.field = "income_status" -> ValidateIncomeStatus(n)
    [] n.field = "median_income_percent" -> ValidateMedianIncome(n)
    [] n.field = "special_condition" -> ValidateSpecial(n)
    [] n.field = "region" -> ValidateRegion(n) [] OTHER -> Kept(n)

\* Mutant: a condition that could not be kept does not call for a review.
NeedsReviewNever(before, removed, unsupported, unknowns, tree) == before
NeedsReview(before, removed, unsupported, unknowns, tree) ==
  before \/ removed \/ unsupported # {} \/ unknowns # {} \/ Leaves(tree) = {}

ValidateConditions(norm) ==
  LET verdict == [i \in Leaves(norm.tree) |-> ValidateLeaf(norm.tree[i])]
      left == Pruned(norm.tree, {i \in DOMAIN verdict : verdict[i].leaf # {}})
      tree == [i \in DOMAIN left |->
                 IF IsGroup(left[i]) THEN left[i] ELSE CHOOSE n \in verdict[i].leaf : TRUE]
      unsupported == norm.unsupported \cup UNION {verdict[i].unsupported : i \in DOMAIN verdict}
      unknowns == norm.unknowns \cup UNION {verdict[i].unknown : i \in DOMAIN verdict}
      removed == \E i \in DOMAIN verdict : verdict[i].removed
  IN [norm EXCEPT !.tree = tree, !.unsupported = unsupported, !.unknowns = unknowns,
                  !.review = NeedsReview(@, removed, unsupported, unknowns, tree)]

\* What a profile stores of an extraction.
ConditionJson(x) == ValidateConditions(NormalizeExtraction(x))
=============================================================================
