-------------------------- MODULE ConditionReading --------------------------
(***************************************************************************)
(* The reference for the rules of a profile: what the sentence a model has *)
(* read means for a user, said of the tree of the extraction itself, and   *)
(* the known reasons for which a rule may refuse a user whom the sentence  *)
(* admits.                                                                 *)
(***************************************************************************)
EXTENDS RuleIngest

CONSTANTS Extractions,  \* sequence of what a model may extract
          Answers       \* conditions of users

Json == [x \in DOMAIN Extractions |-> ConditionJson(Extractions[x])]
Rows == [x \in DOMAIN Extractions |-> BuildRules(Json[x])]

(***************************************************************************)
(* What may be extracted and answered.                                     *)
(***************************************************************************)
\* The fields of which the words are compared.
WordFields == {"region", "household_type", "pregnancy_status"} \cup SoftFields
Quantities == DOMAIN IncomeRange \cup DOMAIN ChildAgeRange \cup DOMAIN Numeral

\* A single value is one, and so is a percentage.
IsValue(n) ==
  /\ DOMAIN n.value = {"shape", "items"} /\ n.value.items \in Seq(STRING)
  /\ n.value.shape \in {"one", "percent"} => Len(n.value.items) = 1
  /\ n.text.percent \in {None} \cup DOMAIN Numeral

\* Trees as ConditionProfile describes them.
IsTree(tree) ==
  /\ DOMAIN tree \subseteq Nat \ {0} /\ IsFiniteSet(DOMAIN tree)
  /\ \A i \in DOMAIN tree :
       /\ tree[i].up # 0 => tree[i].up \in DOMAIN tree /\ tree[i].up < i /\ IsGroup(tree[tree[i].up])
       /\ IF IsGroup(tree[i]) THEN DOMAIN tree[i] = {"up", "op", "key"}
          ELSE /\ DOMAIN tree[i] = {"up", "op", "field", "value", "text", "sure"}
               /\ IsValue(tree[i])
ASSUME TreeAssumption == \A x \in DOMAIN Extractions : IsTree(Extractions[x].tree)

\* Texts that denote a number are none of the words of the forms.
ASSUME NumberAssumption ==
  /\ DOMAIN Numeral \cap (DOMAIN IncomePercent \cup {None, "preborn", "unknown"}) = {}
  /\ \A v \in DOMAIN Worded : Worded[v] \in DOMAIN Numeral

\* The form and the chat take one age and one income, and other fields have other words.
ASSUME AnswerAssumption ==
  \A c \in Answers :
    /\ \E v \in DOMAIN ChildAgeRange \cup {"preborn"} : ConditionValue(c, "childAge") \subseteq {v}
    /\ ConditionValue(c, "income") \subseteq DOMAIN IncomeRange \cup {"unknown"}
    /\ \A f \in WordFields \cup {"stage", "special"} : ConditionValue(c, f) \cap Quantities = {}

(***************************************************************************)
(* Whom a sentence admits.                                                 *)
(***************************************************************************)
\* The ages of a household, and the percentages of an income level.
Ages(given) == UNION {ChildAgeRange[b][1]..ChildAgeRange[b][2] : b \in given \cap DOMAIN ChildAgeRange}
Percents(given) == UNION {(IncomeRange[b][1] + 1)..IncomeRange[b][2] : b \in given \cap DOMAIN IncomeRange}

NumberOf(n) == {Numeral[t] : t \in UNION {ToInt(v) : v \in ValuesOf(n.value.items)}}
Reaches(op, levels, t) == \E k \in levels : Compares(op, k, t)

AgeDenied(n, given) ==
  /\ given # {} /\ NumberOf(n) # {} /\ Ints(n.value) = ValuesOf(n.value.items)
  /\ CASE n.value.shape = "range" ->
            \A k \in Ages(given) : (\A t \in NumberOf(n) : k < t) \/ (\A t \in NumberOf(n) : k > t)
       [] n.value.shape # "range" /\ n.op \in {"EQ", "IN"} -> Ages(given) \cap NumberOf(n) = {}
       [] n.value.shape # "range" /\ n.op \in {"LTE", "LT", "GTE", "GT"} ->
            \A t \in NumberOf(n) : ~Reaches(n.op, Ages(given), t)
       [] OTHER -> FALSE

PercentDenied(n, op, given) ==
  /\ Percents(given) # {} /\ ExtractPercent(n) # None
  /\ ~Reaches(op, Percents(given), Numeral[ExtractPercent(n)])

\* A status of income that is a percentage is a level of income.
StatesPercent(n) ==
  n.value.shape = "percent" \/ ("median" \in n.text.marks /\ ExtractPercent(n) # None)

\* A list of words, all of them known, in the words of the users' answers.
KnownWordsDenied(n, allowed, given) ==
  /\ n.op \in {"EQ", "IN", "EXISTS"} /\ Tokens(n.value) # {} /\ Tokens(n.value) \subseteq allowed
  /\ {MapWord(v) : v \in Tokens(n.value)} \cap given = {}

WordsDenied(n, given) ==
  /\ n.op \in {"EQ", "IN"} /\ given # {} /\ Holds(n.value)
  /\ ValuesOf(n.value.items) \cap given = {}

\* What is not sure, is nowhere in the source or is of no known kind denies nobody.
Refuted(n, c) ==
  LET given == ConditionValue(c, n.field) IN
  /\ n.sure /\ n.text.quoted
  /\ \/ n.field = "stage" /\ given # {} /\ KnownWordsDenied(n, StageAllowed, given)
     \/ /\ n.field = "special_condition" /\ "special" \in DOMAIN c
        /\ KnownWordsDenied(n, SpecialAllowed, c["special"])
     \/ n.field = "child_age" /\ AgeDenied(n, given)
     \/ n.field = "median_income_percent" /\ PercentDenied(n, PercentOperator(n, n.op), given)
     \/ /\ n.field = "income_status" /\ StatesPercent(n)
        /\ PercentDenied(n, PercentOperator(n, None), ConditionValue(c, "income"))
     \/ n.field \in WordFields /\ WordsDenied(n, given)

\* An exclusion is left to the user.
Denies(n, c) == n.op # "EXCLUDES" /\ Refuted(NormalizeLeaf(n), c)

\* The sentence as a whole admits a user when a part of it can hold for him: the roots,
\* with a group all of it, and with a group of alternatives one of them.
Children(tree, i) == {j \in DOMAIN tree : tree[j].up = i}
MayHold(tree, S, c) ==
  /\ Children(tree, 0) \subseteq S
  /\ \A i \in S : IF ~IsGroup(tree[i]) THEN ~Denies(tree[i], c)
                  ELSE IF GroupOperator(tree[i].op) = "OR" THEN Children(tree, i) \cap S # {}
                  ELSE Children(tree, i) \subseteq S
Admits(x, c) ==
  LET tree == Extractions[x].tree IN \E S \in SUBSET DOMAIN tree : MayHold(tree, S, c)

(***************************************************************************)
(* The known reasons.                                                      *)
(***************************************************************************)
\* One of several alternatives left them, and no review was called for: it was a group,
\* an exclusion or a circumstance without a word, it is left to the user, or it is
\* dropped for another that says the same of another text or with another confidence.
LostAlternative(x, i) ==
  LET tree == Extractions[x].tree
      differs(n, m) == n.text # m.text \/ n.sure # m.sure
  IN \/ IsGroup(tree[i]) \/ tree[i].op = "EXCLUDES"
     \/ tree[i].field = "special_condition" /\ Tokens(tree[i].value) = {}
     \/ \E r \in Rows[x] : r.leaf = i /\ r.review
     \/ \E j \in Children(tree, tree[i].up) \cap Leaves(tree) :
          SaysTheSame(NormalizeLeaf(tree[i]), NormalizeLeaf(tree[j])) /\ differs(tree[i], tree[j])
SplitAlternative(x) ==
  LET tree == Extractions[x].tree IN
  \E i \in DOMAIN tree : tree[i].up # 0 /\ tree[tree[i].up].op = "OR" /\ LostAlternative(x, i)

\* A bucket of ages is no single age, and two ages are no range.
AgeByEquality(n) == n.field = "child_age" /\ n.op = "EQ"
RangeAsBound(n) == n.field = "child_age" /\ n.value.shape = "range"
\* Of a list of words or ages, one is not understood and the others are taken.
PartlyRead(n) ==
  \/ n.field = "stage" /\ Tokens(n.value) \cap StageAllowed # {} /\ ~(Tokens(n.value) \subseteq StageAllowed)
  \/ n.field = "child_age" /\ Ints(n.value) \notin {{}, ValuesOf(n.value.items)}
\* Of a list that something "is", or that an age is compared with, the first is taken.
FirstOnly(n) ==
  /\ \/ n.field \in WordFields /\ n.op = "EQ"
     \/ n.field = "child_age" /\ n.op # "IN"
  /\ Cardinality(ValuesOf(n.value.items)) > 1
\* An operator that is not understood becomes "is" or "one of".
OperatorLost(n) ==
  n.field \in {"stage", "special_condition"} /\ n.op \notin {"EQ", "IN", "EXISTS"}
\* Nobody is on a list that was not given.
NoList(n) == n.field \in WordFields /\ n.op = "IN" /\ ~Holds(n.value)

Misread(n) ==
  \/ AgeByEquality(n) \/ RangeAsBound(n) \/ PartlyRead(n)
  \/ FirstOnly(n) \/ OperatorLost(n) \/ NoList(n)
KnownCause(x) ==
  \/ SplitAlternative(x)
  \/ \E i \in Leaves(Extractions[x].tree) : Misread(NormalizeLeaf(Extractions[x].tree[i]))

\* The users whom the rules of a profile refuse without a reason to.
RefusedWrongly ==
  [x \in DOMAIN Extractions |->
     {c \in Answers : Filter(c, Rows[x]).failed # {} /\ Admits(x, c) /\ ~KnownCause(x)}]
=============================================================================
