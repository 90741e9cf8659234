----------------------------- MODULE RuleIngest -----------------------------
(***************************************************************************)
(* The rules that are derived from a condition profile.  Pure operators.   *)
(* A rule carries the number of the condition it comes from as "leaf", 0   *)
(* when it comes from none of the tree.                                    *)
(***************************************************************************)
EXTENDS ConditionProfile

\* The fields a user's answers can be compared with.
FilterResolvable == {"stage", "child_age", "income", "special", "region", "household_type",
                     "pregnancy_status"}

MapWord(v) ==
  CASE v = "youth" -> "teen" [] v = "disabled_household" -> "disabled"
    [] v = "single_parent_or_grandparent" -> "single" [] v = "multichild" -> "many"
    [] v = "multicultural_or_defector" -> "multi" [] OTHER -> v

\* Names and values in the words of the filters; a circumstance is a list to be in.
MapField(f, op, items) ==
  CASE f = "stage" -> <<"stage", op, [i \in DOMAIN items |-> MapWord(items[i])]>>
    [] f = "special_condition" -> <<"special", "IN", [i \in DOMAIN items |-> MapWord(items[i])]>>
    [] f = "median_income_percent" -> <<"income", op, items>>
    [] OTHER -> <<f, op, items>>

RuleOf(leaf, mapped, hard, manual, review, alt, group) ==
  [leaf |-> leaf, field |-> mapped[1], op |-> mapped[2], values |-> mapped[3], hard |-> hard,
   manual |-> manual, review |-> review, alt |-> alt, group |-> group]

\* A group without a key of its own has the key of the group it is in.
GroupKeys(tree) ==
  LET key[i \in {0} \cup {j \in DOMAIN tree : IsGroup(tree[j])}] ==
        IF i = 0 THEN "ALL" ELSE IF tree[i].key # None THEN tree[i].key ELSE key[tree[i].up]
  IN key

IsAlternative(tree, i) == tree[i].up # 0 /\ tree[tree[i].up].op = "OR"

\* Whatever cannot be trusted, or compared with an answer, is left to the user's judgement.
LeafRule(tree, i, review) ==
  LET n == tree[i]
      mapped == MapField(n.field, n.op, n.value.items)
      strength == MatchingStrength(n.field)
      manual == \/ strength = "follow_up" \/ ~n.sure \/ ~n.text.quoted
                \/ strength = "hard" /\ mapped[1] \notin FilterResolvable
  IN RuleOf(i, mapped, strength = "hard" /\ ~manual, manual, review \/ manual,
            IsAlternative(tree, i), GroupKeys(tree)[n.up])

Walk(tree, review) == {LeafRule(tree, i, review) : i \in Leaves(tree)}

\* An exclusion refuses nobody by itself.
ExclusionRule(e) ==
  RuleOf(0, MapField(e.field, "EQ", e.value.items), FALSE, TRUE, TRUE, FALSE, "EXCLUSION")
ManualRule(e, group) ==
  RuleOf(0, MapField(e.field, "UNKNOWN", e.value.items), FALSE, TRUE, TRUE, FALSE, group)

BuildRules(json) ==
  Walk(json.tree, json.review) \cup {ExclusionRule(e) : e \in json.exclusions}
    \cup {ManualRule(e, "UNKNOWN") : e \in json.unknowns}
    \cup {ManualRule(e, "UNSUPPORTED") : e \in json.unsupported}
=============================================================================
