---------------------------- MODULE PolicyImport ----------------------------
(***************************************************************************)
(* What an import makes of the list entry and the detail of one policy, as *)
(* they were fetched.  Pure operators.  A list entry is a record           *)
(* [life, special] of sets of tags, a detail a record                      *)
(*   life, special  tags; an empty set falls back to those of the list     *)
(*   percent        the median income it limits to ("none" when unstated)  *)
(*   low            it mentions low incomes or a benefit                   *)
(*   ages           groups of ages its conditions mention                  *)
(*   condition      its conditions have a text at all                      *)
(*   forms          sequence of [title, form, url, pdf]: attachments, of   *)
(*                  which "form" ones are to be filled in                  *)
(*   steps          sequence of the labels of its application steps        *)
(***************************************************************************)
EXTENDS ConditionReading, SequencesExt

SetOfRules(S, field) ==
  {RuleOf(0, <<field, "IN", values>>, TRUE, FALSE, FALSE, FALSE, "ALL") : values \in S \ {<<>>}}

StageValues(tag) ==
  CASE tag = "pregnancy" -> <<"pregnant">> [] tag = "infancy" -> <<"newborn", "infant">>
    [] tag = "childhood" -> <<"child">>    [] tag = "youth" -> <<"teen">> [] OTHER -> <<>>

SpecialValues(tag) ==
  CASE tag \in {"single_parent", "grandparent"} -> <<"single">>
    [] tag \in {"multicultural", "defector"} -> <<"multi">> [] tag = "disability" -> <<"disabled">>
    [] tag = "many_children" -> <<"many">> [] tag = "low_income" -> <<"low_income">>
    [] tag = "veteran" -> <<"veteran">> [] OTHER -> <<>>

Tags(detail, list) == IF detail # {} THEN detail ELSE list

StageRules(list, d) == SetOfRules({StageValues(t) : t \in Tags(d.life, list.life)}, "stage")
SpecialRules(list, d) == SetOfRules({SpecialValues(t) : t \in Tags(d.special, list.special)}, "special")

\* "Below" is read as "at most".  Without a number the user is asked to look himself.
IncomeRules(d) ==
  IF d.percent # None
  THEN {RuleOf(0, <<"income", "LTE", <<d.percent>>>>, TRUE, FALSE, FALSE, FALSE, "ALL")} ELSE {}
LowIncomeRules(d) ==
  IF d.percent = None /\ d.low
  THEN {RuleOf(0, <<"income", "EXISTS", <<"low">>>>, FALSE, TRUE, FALSE, FALSE, "ALL")} ELSE {}

\* The first group of ages that is mentioned is the only one.
ChildAgeValues(ages) ==
  CASE "0-5" \in ages -> <<"0", "1", "2-5">> [] "0" \in ages -> <<"0">> [] "1" \in ages -> <<"1">>
    [] "6-12" \in ages -> <<"6-12">> [] "13+" \in ages -> <<"13+">> [] OTHER -> <<>>
ChildAgeRules(d) ==
  SetOfRules(IF d.condition THEN {ChildAgeValues(d.ages)} ELSE {}, "childAge")

ImportRules(list, d) ==
  StageRules(list, d) \cup SpecialRules(list, d) \cup IncomeRules(d) \cup LowIncomeRules(d)
    \cup ChildAgeRules(d)

\* Attachments that are no form become reference documents, numbered by position.
ReferenceForms(d) == {i \in DOMAIN d.forms : ~d.forms[i].form}
RequiredForms(d) == {i \in DOMAIN d.forms : d.forms[i].form}

\* Steps come first, forms after them; a number is a position, whatever is there.
ChecklistItems(d) ==
  [n \in {100 + i : i \in {j \in DOMAIN d.steps : d.steps[j] # None}}
           \cup {200 + i : i \in RequiredForms(d)} |->
     IF n < 200 THEN d.steps[n - 100] ELSE d.forms[n - 200].title]
=============================================================================
