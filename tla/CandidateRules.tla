--------------------------- MODULE CandidateRules ---------------------------
(***************************************************************************)
(* What the candidate search makes of one policy: the rules of the policy  *)
(* and, in the domains no rule covers, guesses from its text; a status and *)
(* a score in ten-thousandths.  Pure operators.                                 *)
(***************************************************************************)
EXTENDS PolicyRules

CONSTANTS
  Policies,  \* the policies in the database
  Text       \* what the text of each says, a record:
             \*   scope, region  "NATIONAL" or not; the region code, "none" if unset
             \*   terms          words of the search it contains
             \*   limit          the income limit it states, 0 when none
             \*   income, low    it mentions income; it addresses low incomes
             \*   name, target   groups its name, its target description single out
             \*   topics         what it requires and a user may deny
             \*   exclusions     conditions that take it away from who meets them
             \*   evidence       passages a search for the user's words would find

ASSUME PolicyAssumption == Policies \subseteq Nat /\ IsFiniteSet(Policies) /\ Policies # {}
ASSUME TextAssumption == \A p \in Policies : IsFiniteSet(Text[p].terms)

Smaller(a, b) == IF a < b THEN a ELSE b

\* A score between 0 and 1.
Score == 0..10000

\* given: what the user has answered; "blank" when that is nothing or "unknown".
Finding(verdict, field, given, score) ==
  [verdict |-> verdict, field |-> field, blank |-> given \subseteq {"unknown"}, score |-> score]
Nothing == Finding("none", "none", {}, 0)

\* Words by which a life stage, an age bucket, a circumstance or a need is searched.
TermsOf(v) ==
  CASE v = "preborn" -> {"birth"} [] v \in {"0", "1", "2-5"} -> {"infant", "child"}
    [] v = "6-12" -> {"child", "school"} [] v = "13+" -> {"teen"} [] OTHER -> {v}

Said(c, f) == UNION {TermsOf(v) : v \in ConditionValue(c, f)}

QueryTerms(c) == Said(c, "stage") \cup Said(c, "childAge") \cup Said(c, "special")
                   \cup Said(c, "needs")

\* There is nothing to embed when the user has said nothing that can be searched.
HasVectorQuery(c) == QueryTerms(c) # {} \/ ConditionValue(c, "income") \notin {{}, {"unknown"}}

DbKeywordScore(p, c) ==
  IF QueryTerms(c) = {} THEN 200
  ELSE 400 + 100 * Smaller(Cardinality(QueryTerms(c) \cap Text[p].terms), 4)

\* found: the places the search found the policy in, and the score of its vectors.
SearchScore(p, c, found) ==
  Smaller((IF found.db THEN DbKeywordScore(p, c) ELSE 0) + Smaller(found.vector, 2700), 3500)

(***************************************************************************)
(* Guesses from the text.                                                  *)
(***************************************************************************)
StageFinding(p, c) ==
  IF Said(c, "stage") \cap Text[p].terms # {}
  THEN Finding("matched", "stage", ConditionValue(c, "stage"), 2500) ELSE Nothing

ChildAgeFinding(p, c) ==
  IF Said(c, "childAge") \cap Text[p].terms # {}
  THEN Finding("matched", "childAge", ConditionValue(c, "childAge"), 1500) ELSE Nothing

RegionFinding(p, c) ==
  LET given == ConditionValue(c, "region") IN
  IF Text[p].scope = "NATIONAL" THEN Finding("matched", "NATIONAL", given, 1500)
  ELSE IF given = {} THEN Nothing
  ELSE IF Text[p].region \in given THEN Finding("matched", "region", given, 2000)
  ELSE Finding(IF Text[p].region # "none" THEN "excluded" ELSE "uncertain", "region", given, 0)

\* A text that addresses low incomes and states no limit is read as "up to 100 %".
IncomeLimit(p) ==
  IF Text[p].limit > 0 THEN {Text[p].limit} ELSE IF Text[p].low THEN {100} ELSE {}

IncomeFinding(p, c) ==
  LET given == ConditionValue(c, "income")
      percent == UNION {ToNumber(v) : v \in given}
      tooHigh == \/ \E n \in percent, l \in IncomeLimit(p) : n > l
                 \/ Text[p].low /\ \E n \in percent : n > 150
  IN IF ~(Text[p].income \/ Text[p].low) THEN Nothing
     ELSE IF given # {} /\ tooHigh THEN Finding("excluded", "income", given, 0)
     ELSE IF percent # {} /\ IncomeLimit(p) # {} THEN Finding("matched", "income", given, 1200)
     ELSE Finding("uncertain", "income", given, 0)

SpecialFinding(p, c) ==
  LET given == ConditionValue(c, "special")
      hits == given \cap Text[p].terms
  IN IF hits = {} THEN Nothing
     ELSE Finding("matched", "special", given, Smaller(800 * Cardinality(hits), 1600))

NeedsFinding(p, c) ==
  LET hits == {n \in ConditionValue(c, "needs") : TermsOf(n) \cap Text[p].terms # {}} IN
  IF hits = {} THEN Nothing
  ELSE Finding("matched", "needs", hits, Smaller(800 * Cardinality(hits), 1600))

\* A policy for one kind of household, and a user who has not said that he is one.
SpecialTargetFindings(p, c) ==
  LET given == ConditionValue(c, "special")
      other == {"single", "multi", "disabled"} \ given
  IN {Finding("excluded", "special", given, 0) : g \in other \cap Text[p].name}
       \cup {Finding("uncertain", "special", given, 0) :
               g \in (other \cap Text[p].target) \ Text[p].name}

LowIncomeTargetFinding(p, c) ==
  LET income == ConditionValue(c, "income")
      known == income \notin {{}, {"unknown"}}
  IN IF \/ "low_income" \in ConditionValue(c, "special") \/ income = {"low"}
        \/ "low_income" \notin Text[p].name \cup Text[p].target
     THEN Nothing
     ELSE Finding(IF "low_income" \in Text[p].name /\ known THEN "excluded" ELSE "uncertain",
                  "income", income, 0)

(***************************************************************************)
(* The rules of the policy, and the candidate.                             *)
(***************************************************************************)
Domain(f) ==
  CASE f = "childAge" -> "child_age"
    [] f \in {"income", "income_status", "median_income_percent"} -> "income"
    [] f \in {"stage", "special", "region"} -> f
    [] OTHER -> "none"

Covered(rules) == {Domain(r.field) : r \in rules} \ {"none"}

Judged(verdict) ==
  CASE verdict = "match" -> "matched" [] verdict = "fail" -> "excluded" [] OTHER -> "uncertain"

\* The candidate search reads every rule: those under review, and lists one by one.
FlatFindings(c, rules) ==
  {Finding(Judged(FlatVerdict(r, ConditionValue(c, r.field))), r.field, ConditionValue(c, r.field), 0) :
     r \in {s \in Flat(rules) : FlatVerdict(s, ConditionValue(c, s.field)) # "skip"}}

GroupVerdict(c, g) ==
  GroupOutcome({MemberVerdict(c, r, ConditionValue(c, r.field)) : r \in g})

\* The alternatives of groups that match, each a finding of its own field; what is open or
\* failed is a finding of the group, under its key.
MatchedAlternatives(c, rules) ==
  LET verdict(r) == MemberVerdict(c, r, ConditionValue(c, r.field))
      matched == {g \in OrGroups(rules) : GroupVerdict(c, g) = "match"}
  IN {Finding("matched", r.field, ConditionValue(c, r.field), 0) :
        r \in {s \in UNION matched : verdict(s) = "match"}}

GroupKey(g) == (CHOOSE r \in g : TRUE).group
Undecided(c, rules) == {g \in OrGroups(rules) : GroupVerdict(c, g) \in {"manual", "fail"}}

\* Mutant: an alternative group that failed only asks for a confirmation.
GroupFindingsSoft(c, rules) ==
  MatchedAlternatives(c, rules)
    \cup {Finding("uncertain", GroupKey(g), {}, 0) : g \in Undecided(c, rules)}

GroupFindings(c, rules) ==
  MatchedAlternatives(c, rules)
    \cup {Finding(Judged(GroupVerdict(c, g)), GroupKey(g), {}, 0) : g \in Undecided(c, rules)}

RuleScore(c, rules) ==
  LET flat == {r \in Flat(rules) : FlatVerdict(r, ConditionValue(c, r.field)) = "match"}
      groups == {g \in OrGroups(rules) :
                   \E r \in g : MemberVerdict(c, r, ConditionValue(c, r.field)) = "match"}
  IN Smaller(500 * (Cardinality(flat) + Cardinality(groups)), 2000)

\* The guess of a domain, unless a rule covers it.
Guess(domain, rules, finding) == IF domain \in Covered(rules) THEN Nothing ELSE finding

CandidateStatus(verdicts) ==
  IF "excluded" \in verdicts THEN "EXCLUDED"
  ELSE IF "uncertain" \in verdicts THEN "UNCERTAIN" ELSE "CANDIDATE"

Guesses(p, c, rules) ==
  <<Guess("stage", rules, StageFinding(p, c)), Guess("child_age", rules, ChildAgeFinding(p, c)),
    Guess("region", rules, RegionFinding(p, c)), Guess("income", rules, IncomeFinding(p, c)),
    Guess("special", rules, SpecialFinding(p, c)), NeedsFinding(p, c)>>

GuessScore(guesses) ==
  guesses[1].score + guesses[2].score + guesses[3].score + guesses[4].score
    + guesses[5].score + guesses[6].score

Targets(p, c, rules) ==
  ({Guess("income", rules, LowIncomeTargetFinding(p, c))}
     \cup (IF "special" \in Covered(rules) THEN {} ELSE SpecialTargetFindings(p, c))) \ {Nothing}

\* A rule of its own that demands a benefit has something to say of the candidate.
DemandsBenefit(c, rules) ==
  \E r \in Flat(rules) : /\ r.field = "income_status"
                         /\ ValuesOf(r.values) \cap (Specific \cup {Basic, "near_poverty_class"}) # {}
                         /\ FlatVerdict(r, ConditionValue(c, r.field)) # "skip"

\* score: retrieval_score; open: fields a rule or a guess still asks for.
Candidate(p, c, rules, found) ==
  LET guesses == Guesses(p, c, rules)
      findings == (ValuesOf(guesses) \ {Nothing}) \cup Targets(p, c, rules)
                    \cup FlatFindings(c, rules) \cup GroupFindings(c, rules)
      search == SearchScore(p, c, found)
      status == CandidateStatus({f.verdict : f \in findings})
  IN [status |-> status,
      score |-> IF status = "EXCLUDED" THEN 0
                ELSE Smaller(10000, search + RuleScore(c, rules) + GuessScore(guesses)),
      fields |-> {f.field : f \in findings},
      open |-> {f.field : f \in {g \in findings : g.verdict = "uncertain" /\ g.blank}},
      search |-> search, benefit |-> DemandsBenefit(c, rules),
      kept |-> findings # {} \/ search > 0 \/ QueryTerms(c) = {}]

(***************************************************************************)
(* The assessment of a candidate by rules.                                 *)
(***************************************************************************)
\* The several names of a field count once.
Normalized(f) ==
  CASE f \in {"stage", "childAge"} -> "stage_or_childAge"
    [] f \in {"income_status", "median_income_percent"} -> "income" [] OTHER -> f

MissingCore(k, c) ==
  LET domains == {Domain(f) : f \in k.fields}
      silent(fs) == \A f \in fs : ConditionValue(c, f) = {}
  IN {f \in {"region"} : f \in domains /\ silent({"region"})}
       \cup {f \in {"stage_or_childAge"} : silent({"stage", "childAge"})}
       \cup {f \in {"income"} : f \in domains /\ silent({"income", "income_status"})}

\* issues: fields the input check found missing.
MissingFields(k, c, issues) ==
  MissingCore(k, c) \cup {Normalized(f) : f \in issues \cup k.open}

Assess(k, c, issues, conflict) ==
  IF k.status = "EXCLUDED" THEN "NOT_MATCH"
  ELSE IF conflict THEN "CONFLICTING_PROFILE"
  ELSE IF Cardinality(MissingFields(k, c, issues)) >= 2 THEN "INSUFFICIENT_PROFILE"
  ELSE IF k.status = "CANDIDATE" /\ k.score >= 5000 THEN "LIKELY_MATCH" ELSE "NEEDS_MORE_INFO"

\* 0 recommendable, 1 needs confirmation, 2 difficult to recommend.
UserStatus(assessment) ==
  CASE assessment = "LIKELY_MATCH" -> 0 [] assessment = "NOT_MATCH" -> 2 [] OTHER -> 1

\* The eligibility check decides from the filter's result, and in another order.
EligibilityStatus(missing, result, conflict) ==
  IF conflict THEN "CONFLICTING_PROFILE"
  ELSE IF Cardinality(missing) >= 2 THEN "INSUFFICIENT_PROFILE"
  ELSE IF result.failed # {} THEN "NOT_MATCH"
  ELSE IF missing # {} \/ result.manual # {} THEN "NEEDS_MORE_INFO" ELSE "LIKELY_MATCH"
=============================================================================
