-------------------------- MODULE MCRecommendation --------------------------
(* An instance of Recommendation for TLC: three policies, their texts and rules, *)
(* a few users, and what the searches and the models answer.                     *)
EXTENDS Recommendation, TLC

MCNumeral == [s \in {"3", "4", "19", "80", "100", "120"} |->
  CASE s = "3" -> 3 [] s = "4" -> 4 [] s = "19" -> 19 [] s = "80" -> 80 [] s = "100" -> 100
    [] s = "120" -> 120]

Plain == [scope |-> "NATIONAL", region |-> "none", terms |-> {"child"}, limit |-> 0,
          income |-> FALSE, low |-> FALSE, name |-> {}, target |-> {}, topics |-> {},
          exclusions |-> {}, evidence |-> FALSE]

MCText == <<
  [Plain EXCEPT !.terms = {"infant", "pregnant"}, !.exclusions = {"region"}, !.evidence = TRUE],
  [Plain EXCEPT !.scope = "LOCAL", !.region = "seoul", !.low = TRUE, !.target = {"low_income"}],
  [Plain EXCEPT !.target = {"single"}, !.topics = {"legal_need"}, !.income = TRUE] >>

Rule(field, op, values) ==
  [field |-> field, op |-> op, values |-> values, hard |-> TRUE, manual |-> FALSE,
   review |-> FALSE, alt |-> FALSE, group |-> "ALL"]
Soft(r) == [r EXCEPT !.hard = FALSE]
Alt(r)  == [r EXCEPT !.alt = TRUE]

AllRules == {
  {},
  {Rule("income", "LTE", <<"80">>), Rule("childAge", "IN", <<"3", "4">>)},
  {Rule("income_status", "EQ", <<"medical_benefit_recipient">>)},
  {Alt(Rule("special", "IN", <<"single">>)), Alt(Rule("income_status", "IN", <<Basic>>))},
  {Alt(Rule("childAge", "GTE", <<"19">>)), Alt(Soft(Rule("special", "IN", <<"multi">>)))},
  {[Rule("region", "EQ", <<"seoul">>) EXCEPT !.manual = TRUE],
   [Rule("age", "GTE", <<"19">>) EXCEPT !.review = TRUE]} }

MCRuleChoices == << AllRules, {{Rule("income", "LTE", <<"80">>)}}, {{}} >>

C(f, v) == [x \in {f} |-> v]

MCProfiles == {Empty, C("income", {"mid1"}) @@ C("special", {"single"})}
MCSelections == {
  C("childAge", {"2-5"}) @@ C("income", {"mid1"}),
  C("stage", {"pregnant"}) @@ C("income_status", {"medical_benefit_recipient"}),
  C("childAge", {"13+"}) @@ C("income", {"unknown"}) }
MCParses == { Empty, C("region", {"busan"}) @@ C("income", {"low"}) }

Found(db, v) == [db |-> db, vector |-> v]
MCSearches == { [p \in Policies |-> Found(TRUE, 0)],
                <<Found(TRUE, 2000), Found(FALSE, 2537), Found(FALSE, 0)>> }
MCJudgements == { Empty, <<"NOT_MATCH", "LIKELY_MATCH">> }

Pick(p, priority, score) == [policy |-> p, priority |-> priority, score |-> score]
\* The last two end level: the bound of the second rank, 0.93, is a float just below the
\* 0.93 before it; 0.5213 and 0.5187 round to 0.52.
MCRankings == { <<>>, <<Pick(9, 9000, 9000), Pick(3, 0, 6000)>>,
                <<Pick(2, 9300, 9300), Pick(2, 9300, 9300), Pick(1, 9500, 9400)>>,
                <<Pick(1, 5213, 5213), Pick(2, 5187, 5187)>> }

\* As computed by the code's language for the hundredths between the floor and the top.
MCHalvesUp == (45..46) \cup (50..55) \cup (63..68) \cup (75..80) \cup (87..93)
=============================================================================
