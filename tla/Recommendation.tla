--------------------------- MODULE Recommendation ---------------------------
(***************************************************************************)
(* One request of process_condition_request, from what the user has said   *)
(* to the policies he is shown.  A recommendation goes through the nodes   *)
(* of the recommendation graph; an eligibility check runs the rules of one *)
(* policy.  Either may stop once to ask, and goes on with the answers.     *)
(*                                                                         *)
(* The run is one transaction: what it writes is kept when it ends, and a  *)
(* run that fails leaves the tables as they were.  A run reads the rules   *)
(* of a policy once, in one statement, so that an import meanwhile is an   *)
(* import before or after it; PolicyData has the import itself.            *)
(***************************************************************************)
EXTENDS CandidateRules

CONSTANTS
  RuleChoices,   \* the rule sets an import may give each policy
  Profiles,      \* saved conditions a user may have
  Selections,    \* conditions chosen in the form
  Parses,        \* what the extractor may read in the user's words
  Searches,      \* results of the searches: [Policies -> [db, vector]]
  Judgements,    \* answers of the judging model: policies to assessments
  Rankings,      \* answers of the ranking model: sequences of
                 \* [policy, priority, score], empty when the call failed
  ResultLimit,   \* policies shown
  JudgeLimit,    \* candidates the judging model is given
  \* What binary fractions do to the decimals of the code (round, max and min of floats):
  HalvesUp,      \* hundredths n for which round gives n + 1 of n and a half
  ShortBounds    \* ranks whose bound is a float just below the decimal it stands for

ASSUME LimitAssumption == ResultLimit \in Nat \ {0} /\ JudgeLimit \in Nat
ASSUME FloatAssumption == HalvesUp \subseteq Nat /\ ShortBounds \subseteq Nat

Assessments == {"LIKELY_MATCH", "NEEDS_MORE_INFO", "NOT_MATCH", "INSUFFICIENT_PROFILE",
                "CONFLICTING_PROFILE"}

ASSUME RuleAssumption ==
  \A p \in Policies : \A R \in RuleChoices[p] : R \subseteq RuleRow /\ IsFiniteSet(R)
ASSUME ConditionAssumption ==
  \A c \in Profiles \cup Selections \cup Parses : \A f \in DOMAIN c : IsFiniteSet(c[f])
ASSUME SearchAssumption == \A s \in Searches : \A p \in Policies : s[p].vector \in Nat
\* The schemas of the models' answers: an assessment; scores between 0 and 1, here with
\* four decimals as those of the candidates.
ASSUME AnswerAssumption ==
  /\ \A j \in Judgements : \A p \in DOMAIN j : j[p] \in Assessments
  /\ Rankings \subseteq Seq([policy : Nat, priority : Score, score : Score])

VARIABLES
  rules,      \* policy_rule, the rules of each policy
  kind,       \* "recommendation", "eligibility" or "policy_detail", an eligibility
              \* check asked for on the policy's page (its source_type)
  profile, selected, denials, resolved, confirmed, status,  \* the request
  cands, assess, result,  \* recommendation_candidate, policy_assessment, result_json
  checked,    \* the eligibility check's lists of matched, missing, failed, manual points
  pc, run,    \* the node the run is at, and the state of the graph
  before      \* the tables as the transaction found them

tables == <<cands, assess, result, checked>>
request == <<kind, profile, selected, denials, resolved, confirmed, status>>
vars == <<rules, kind, profile, selected, denials, resolved, confirmed, status,
          cands, assess, result, checked, pc, run, before>>

Empty == [x \in {} |-> {}]
Categories == {"income_status", "legal_need", "birth_registration"}
Fields == {"stage", "childAge", "income", "region", "special", "income_status", "age", "needs"}

NoRun == [cond |-> Empty, issues |-> {}, conflict |-> FALSE, rows |-> Empty,
          kept |-> Empty, verdicts |-> Empty, base |-> <<>>, raw |-> Empty, shown |-> <<>>, scores |-> Empty]

(***************************************************************************)
(* The condition.                                                          *)
(***************************************************************************)
\* What both answer is taken from the first.
Over(c, d) == [f \in DOMAIN c \cup DOMAIN d |-> IF f \in DOMAIN c THEN c[f] ELSE d[f]]

Answered(c) == {f \in DOMAIN c : c[f] # {}}

\* A specific benefit implies basic livelihood support; empty answers disappear.
Snapshot(c) ==
  [f \in Answered(c) |-> IF f = "income_status" /\ c[f] \cap Specific # {}
                      THEN c[f] \cup {Basic} ELSE c[f]]

\* What the user says now wins over his saved profile, unless it is empty.
Merge(current, saved) == Over(Snapshot(current), Snapshot(saved))

\* A saved answer and a different one now: the rules may decide differently.
Conflicts(current, saved) ==
  {f \in (Answered(current) \cap Answered(saved)) \ {"needs"} : Snapshot(current)[f] # Snapshot(saved)[f]}

MissingIssues(c) ==
  {f \in {"stage"} : ConditionValue(c, "stage") = {} /\ ConditionValue(c, "childAge") = {}}
    \cup {f \in {"income"} : ConditionValue(c, "income") = {}}

\* In the check of a policy's page, and only there, the profile wins over the form.
EffectiveSelection ==
  IF kind = "policy_detail" THEN [f \in Answered(selected) \ Answered(profile) |-> selected[f]]
  ELSE selected

\* The form wins over the words.
Current(said) == Over(EffectiveSelection, said)

(***************************************************************************)
(* Order.                                                                  *)
(***************************************************************************)
LexLess(k, l) == \E i \in DOMAIN k : k[i] < l[i] /\ \A j \in 1..(i - 1) : k[j] = l[j]

\* The element of S that i - 1 others precede.
AtRank(S, key, i) == CHOOSE p \in S : Cardinality({q \in S : LexLess(key[q], key[p])}) = i - 1
Sorted(S, key) == [i \in 1..Cardinality(S) |-> AtRank(S, key, i)]

\* The n-th of the positions in I, and the elements of s at them in their order.
Position(I, n) == CHOOSE i \in I : Cardinality({j \in I : j < i}) = n - 1
Subsequence(s, I) == [n \in 1..Cardinality(I) |-> s[Position(I, n)]]

Prefix(s, n) == [i \in 1..Smaller(n, Len(s)) |-> s[i]]
Flag(b) == IF b THEN 1 ELSE 0

\* Candidates: the excluded last, then by score, by search score, by policy_id.
CandidateKey(kept) ==
  [p \in DOMAIN kept |-> <<Flag(kept[p].status = "EXCLUDED"), -kept[p].score, -kept[p].search, p>>]

\* The rules of the candidate demand a benefit, or its text another denied topic.
DenialConflict(k, p, topics) ==
  \/ "income_status" \in topics /\ k.benefit
  \/ topics \cap {"legal_need", "birth_registration"} \cap Text[p].topics # {}

PoolKey(kept, verdicts, topics) ==
  [p \in DOMAIN kept |-> <<Flag(DenialConflict(kept[p], p, topics)), UserStatus(verdicts[p]),
                           -kept[p].score, -kept[p].search, p>>]

\* The items made of the pool: a score of zero is as good as none, and what is displayed
\* is taken; ties stay in the order of the pool.
BaseKey(kept, raw, verdicts, topics) ==
  [p \in DOMAIN kept |->
     <<UserStatus(verdicts[p]), IF kept[p].score # 0 THEN -kept[p].score ELSE -raw[p],
       Flag(DenialConflict(kept[p], p, topics)), -kept[p].score, -kept[p].search, p>>]

\* Mutant: an assessment that refuses a policy does not keep it out.
EligibleRefused(kept, verdicts) == {p \in DOMAIN kept : kept[p].status # "EXCLUDED"}

\* Neither the rules nor the assessment speak against it.
Eligible(kept, verdicts) ==
  {p \in DOMAIN kept : kept[p].status # "EXCLUDED" /\ verdicts[p] # "NOT_MATCH"}

PoolLimit == Smaller(2 * ResultLimit, 12)

Pool(kept, verdicts, topics) ==
  ValuesOf(Prefix(Sorted(Eligible(kept, verdicts), PoolKey(kept, verdicts, topics)), PoolLimit))

BaseResult(kept, raw, verdicts, topics) ==
  Sorted(Pool(kept, verdicts, topics), BaseKey(kept, raw, verdicts, topics))

(***************************************************************************)
(* Reranking.                                                              *)
(***************************************************************************)
Item(p, priority, score) == [policy |-> p, priority |-> priority, score |-> score]

\* Policies of the pool, each once.
Sanitized(ranking, base) ==
  LET first(i) == /\ ranking[i].policy \in ValuesOf(base)
                  /\ \A j \in 1..(i - 1) : ranking[j].policy # ranking[i].policy
  IN Prefix(Subsequence(ranking, {i \in DOMAIN ranking : first(i)}), ResultLimit)

\* Mutant: the list is filled up beyond what is shown.
BackfilledAll(picks, base) ==
  LET picked == {r.policy : r \in ValuesOf(picks)}
      rest == Subsequence(base, {i \in DOMAIN base : base[i] \notin picked})
  IN picks \o [i \in DOMAIN rest |-> Item(rest[i], 0, 0)]

\* What the model left out, in the order of the base result.
Backfilled(picks, base) ==
  LET picked == {r.policy : r \in ValuesOf(picks)}
      rest == Subsequence(base, {i \in DOMAIN base : base[i] \notin picked})
  IN Prefix(picks \o [i \in DOMAIN rest |-> Item(rest[i], 0, 0)], ResultLimit)

\* Mutant: conflicts with a denial are not moved back.
DemotedNot(items, kept, topics) == items

\* Policies that conflict with a denial come last; otherwise the order stays.
Demoted(items, kept, topics) ==
  LET back == {i \in DOMAIN items : DenialConflict(kept[items[i].policy], items[i].policy, topics)}
  IN Subsequence(items, DOMAIN items \ back) \o Subsequence(items, back)

\* A score of zero is as good as none: the next one is taken.
SourceScore(item, raw) ==
  IF item.priority # 0 THEN item.priority ELSE IF item.score # 0 THEN item.score
  ELSE IF raw # 0 THEN raw ELSE 5000

Larger(a, b) == IF a > b THEN a ELSE b

\* To the nearest hundredth.
Rounded(score) ==
  LET n == score \div 100
      up == score % 100 > 50 \/ (score % 100 = 50 /\ n \in HalvesUp)
  IN 100 * (IF up THEN n + 1 ELSE n)

Bound(i) == Larger(7200, 10100 - 400 * i)

\* Mutant: the score is not compared with the one before it.
RankAdjustedAlone(source, i, previous) == Rounded(Smaller(Larger(source, 4500), Bound(i)))

\* The score is compared as it is with the one before it, which has been rounded, and is
\* rounded itself afterwards.
RankAdjusted(source, i, previous) ==
  LET score == Smaller(Larger(source, 4500), Bound(i))
      short == i \in ShortBounds /\ source >= Bound(i)
  IN Rounded(IF score > previous \/ (score = previous /\ ~short)
             THEN Larger(4500, previous - 300) ELSE score)

\* source: the item's own score.  The first has none before it.
Presented(items, raw) ==
  LET source(i) == SourceScore(items[i], raw[items[i].policy])
      shown[i \in 1..Len(items)] ==
        RankAdjusted(source(i), i, IF i = 1 THEN 10001 ELSE shown[i - 1])
  IN [i \in 1..Len(items) |->
        [policy |-> items[i].policy, priority |-> shown[i], source |-> source(i)]]

\* What is shown, and the rerank scores to save; without a valid answer, the base result.
Reranked(ranking, base, kept, raw, topics) ==
  LET picks == Sanitized(ranking, base)
      plain == [i \in DOMAIN base |-> Item(base[i], 0, 0)]
      items == IF picks = <<>> THEN Prefix(Demoted(plain, kept, topics), ResultLimit)
               ELSE Demoted(Backfilled(picks, base), kept, topics)
  IN [shown |-> Presented(items, raw),
      scores |-> [p \in {r.policy : r \in ValuesOf(picks)} |->
                    (CHOOSE r \in ValuesOf(picks) : r.policy = p).score]]

(***************************************************************************)
(* The run.                                                                *)
(***************************************************************************)
Init ==
  /\ rules \in {R \in [Policies -> UNION {RuleChoices[p] : p \in Policies}] :
                 \A p \in Policies : R[p] \in RuleChoices[p]}
  /\ kind \in {"recommendation", "eligibility", "policy_detail"}
  /\ profile \in Profiles /\ selected \in Selections
  /\ denials = {} /\ resolved = FALSE /\ confirmed = Empty /\ status = "PROCESSING"
  /\ cands = Empty /\ assess = Empty /\ result = <<>>
  /\ checked = Result({}, {}, {}, {})
  /\ pc = "analyze" /\ run = NoRun /\ before = tables

\* The run ends: what it wrote is committed.
End(s) == status' = s /\ pc' = "ended" /\ run' = NoRun

Go(node) == pc' = node /\ UNCHANGED <<rules, request, before>>

Analyze ==
  /\ pc = "analyze" /\ before' = tables
  /\ \E said \in Parses :
       LET current == Current(said)
           cond == Merge(current, profile)
           issues == MissingIssues(cond)
       IN IF issues # {} /\ ~resolved
          THEN End("FOLLOW_UP_REQUIRED")
          ELSE /\ pc' = IF kind = "recommendation" THEN "candidate_search" ELSE "check"
               /\ run' = [NoRun EXCEPT !.cond = cond, !.issues = issues,
                                       !.conflict = Conflicts(current, profile) # {}]
               /\ UNCHANGED status
  /\ UNCHANGED <<rules, kind, profile, selected, denials, resolved, confirmed, tables>>

\* A vector search that fails or times out finds nothing.
VectorHits(s, cond) == [p \in Policies |-> IF HasVectorQuery(cond) THEN s[p].vector ELSE 0]

\* One row for a policy, however it was found.
Rows(s, vectors) ==
  [p \in {q \in Policies : s[q].db \/ vectors[q] > 0} |-> [db |-> s[p].db, vector |-> vectors[p]]]

CandidateSearch ==
  /\ pc = "candidate_search"
  /\ \E s \in Searches : run' = [run EXCEPT !.rows = Rows(s, VectorHits(s, run.cond))]
  /\ Go("rule_filter") /\ UNCHANGED tables

RuleFilter ==
  /\ pc = "rule_filter"
  /\ LET found == [p \in DOMAIN run.rows |-> Candidate(p, run.cond, rules[p], run.rows[p])] IN
     run' = [run EXCEPT !.kept = [p \in {q \in DOMAIN found : found[q].kept} |-> found[p]]]
  /\ Go("candidate_save") /\ UNCHANGED tables

\* Mutant: the rerank score of an earlier round is kept.
CandidateSaveKeeps ==
  /\ pc = "candidate_save"
  /\ cands' = [p \in DOMAIN run.kept |->
                 [status |-> run.kept[p].status, score |-> run.kept[p].score,
                  rerank |-> IF p \in DOMAIN cands THEN cands[p].rerank ELSE {}]]
  /\ Go("policy_assessment") /\ UNCHANGED <<run, assess, result, checked>>

\* The rows of an earlier round go; a new row has no rerank score.
CandidateSave ==
  /\ pc = "candidate_save"
  /\ cands' = [p \in DOMAIN run.kept |->
                 [status |-> run.kept[p].status, score |-> run.kept[p].score, rerank |-> {}]]
  /\ Go("policy_assessment") /\ UNCHANGED <<run, assess, result, checked>>

RuleVerdicts ==
  [p \in DOMAIN run.kept |-> Assess(run.kept[p], run.cond, run.issues, run.conflict)]

\* The candidates the judging model is given, best first.
JudgeTargets ==
  LET open == {p \in DOMAIN run.kept : run.kept[p].status # "EXCLUDED"} IN
  ValuesOf(Prefix(Sorted(open, CandidateKey(run.kept)), JudgeLimit))

\* The model's assessment of a candidate it was given replaces the rules'.
PolicyAssessment ==
  /\ pc = "policy_assessment"
  /\ \E j \in Judgements :
       run' = [run EXCEPT !.verdicts = [p \in DOMAIN run.kept |->
                 IF p \in JudgeTargets \cap DOMAIN j THEN j[p] ELSE RuleVerdicts[p]]]
  /\ Go("assessment_save") /\ UNCHANGED tables

AssessmentSave ==
  /\ pc = "assessment_save"
  /\ assess' = run.verdicts
  /\ Go("build_result") /\ UNCHANGED <<run, cands, result, checked>>

\* Evidence of a policy adds to the score that is displayed.
RawScores(kept, found) ==
  [p \in DOMAIN kept |-> Smaller(kept[p].score + IF p \in found THEN 500 ELSE 0, 10000)]

\* found: policies whose own search brought evidence; one that fails brings none.
BuildResult ==
  /\ pc = "build_result"
  /\ \E found \in SUBSET {p \in DOMAIN run.kept : Text[p].evidence} :
       run' = [run EXCEPT
         !.raw = RawScores(run.kept, found),
         !.base = BaseResult(run.kept, RawScores(run.kept, found), run.verdicts, denials)]
  /\ Go("llm_rerank") /\ UNCHANGED tables

LlmRerank ==
  /\ pc = "llm_rerank"
  /\ \E ranking \in IF run.base = <<>> THEN {<<>>} ELSE Rankings :
       LET out == Reranked(ranking, run.base, run.kept, run.raw, denials) IN
       run' = [run EXCEPT !.shown = out.shown, !.scores = out.scores]
  /\ Go("rerank_save") /\ UNCHANGED tables

RerankSave ==
  /\ pc = "rerank_save"
  /\ cands' = IF run.scores = Empty THEN cands
              ELSE [p \in DOMAIN cands |-> [cands[p] EXCEPT
                      !.rerank = IF p \in DOMAIN run.scores THEN {run.scores[p]} ELSE {}]]
  /\ Go("finalize_result") /\ UNCHANGED <<run, assess, result, checked>>

\* Fields whose absence, at a policy that would be shown, is asked for by name.
Labelled == {"income", "region", "stage_or_childAge", "stage", "childAge"}

\* A result waits for what is missing, unless the user has been asked before.
OpenGate(asks, missing) == ~resolved /\ (asks \/ missing \cap Labelled # {})

\* asks: the texts of a shown policy, or its model, name something to ask for.
Finalize ==
  /\ pc = "finalize_result"
  /\ \E asks \in IF run.shown = <<>> THEN {FALSE} ELSE BOOLEAN :
       LET missing == UNION {MissingCore(run.kept[i.policy], run.cond) \cup run.kept[i.policy].open :
                               i \in ValuesOf(run.shown)} \cup run.issues
       IN IF OpenGate(asks, missing)
          THEN End("FOLLOW_UP_REQUIRED") /\ UNCHANGED result
          ELSE End("COMPLETED") /\ result' = run.shown
  /\ UNCHANGED <<rules, kind, profile, selected, denials, resolved, confirmed, cands, assess, checked, before>>

\* The policy an eligibility check is about.
Target == CHOOSE p \in Policies : \A q \in Policies : p <= q

\* Conditions that take a policy away from who meets them: "yes" means no.
Flipped(point, answer) ==
  IF point \cap Text[Target].exclusions = {} \/ answer = "unknown" THEN answer
  ELSE IF answer = "yes" THEN "no" ELSE "yes"

\* Mutant: a point that was answered stays among the missing ones.
ConfirmedHalf(r) ==
  LET as(a) == {x \in DOMAIN confirmed : Flipped(x, confirmed[x]) = a} IN
  Result(r.matched \cup as("yes"), r.missing, r.failed \cup as("no"),
         (r.manual \ DOMAIN confirmed) \cup as("unknown"))

\* The user's answers to points of an earlier check.
Confirmed(r) ==
  LET as(a) == {x \in DOMAIN confirmed : Flipped(x, confirmed[x]) = a} IN
  Result(r.matched \cup as("yes"), r.missing \ DOMAIN confirmed, r.failed \cup as("no"),
         (r.manual \ DOMAIN confirmed) \cup as("unknown"))

Ambiguous(c) == {{"unknown", f} : f \in {g \in DOMAIN c : "unknown" \in c[g]}}

\* rewritten: the model has made questions of the open points.
Check ==
  /\ pc = "check"
  /\ LET r == Confirmed(Filter(run.cond, rules[Target]))
         missing == r.missing \cup {{"input", f} : f \in run.issues}
         manual == r.manual \cup Ambiguous(run.cond)
     IN /\ checked' = Result(r.matched, missing, r.failed, manual)
        /\ assess' = [p \in {Target} |->
                        EligibilityStatus(missing, [r EXCEPT !.manual = manual], run.conflict)]
        /\ \E rewritten \in IF missing \cup manual = {} THEN {FALSE} ELSE BOOLEAN :
             End(IF rewritten /\ ~resolved THEN "FOLLOW_UP_REQUIRED" ELSE "COMPLETED")
  /\ UNCHANGED <<rules, kind, profile, selected, denials, resolved, confirmed, cands, result, before>>

\* Mutant: the denial is not put among the selected conditions.
AppliedNot(topics) == selected

\* A denied benefit is recorded as a value that the rules understand.
Applied(topics) ==
  IF "income_status" \in topics
  THEN [f \in DOMAIN selected \cup {"income_status"} |->
          IF f = "income_status" THEN {"none"} ELSE selected[f]]
  ELSE selected

\* topics: what the user says he is not.  Only a request that asks may be answered.
Answer(topics) ==
  /\ status = "FOLLOW_UP_REQUIRED" /\ kind = "recommendation"
  /\ denials' = topics /\ selected' = Applied(topics)
  /\ resolved' = TRUE /\ status' = "PROCESSING" /\ pc' = "analyze"
  /\ UNCHANGED <<rules, kind, profile, confirmed, tables, run, before>>

\* The user answers a point of the check, in a new request that carries the answers.
Confirm(point, answer) ==
  /\ status \in {"FOLLOW_UP_REQUIRED", "COMPLETED"} /\ kind # "recommendation"
  /\ point \in checked.missing \cup checked.manual /\ confirmed = Empty
  /\ confirmed' = [x \in {point} |-> answer]
  /\ resolved' = TRUE /\ status' = "PROCESSING" /\ pc' = "analyze"
  /\ UNCHANGED <<rules, kind, profile, selected, denials, tables, run, before>>

\* A statement fails: the transaction is rolled back, the request marked as failed.
Fail ==
  /\ pc # "ended"
  /\ cands' = before[1] /\ assess' = before[2] /\ result' = before[3] /\ checked' = before[4]
  /\ status' = "FAILED" /\ pc' = "ended" /\ run' = NoRun
  /\ UNCHANGED <<rules, kind, profile, selected, denials, resolved, confirmed, before>>

Node == \/ Analyze \/ CandidateSearch \/ RuleFilter \/ CandidateSave \/ PolicyAssessment
        \/ AssessmentSave \/ BuildResult \/ LlmRerank \/ RerankSave \/ Finalize \/ Check

Next ==
  \/ Node \/ Fail
  \/ \E topics \in SUBSET Categories : Answer(topics)
  \/ \E point \in checked.missing \cup checked.manual, a \in {"yes", "no", "unknown"} : Confirm(point, a)

Spec == Init /\ [][Next]_vars

(***************************************************************************)
(* Properties.                                                             *)
(***************************************************************************)
Statuses == {"PROCESSING", "FOLLOW_UP_REQUIRED", "COMPLETED", "FAILED"}

\* Types of the request's row and of the tables the run writes.
TypeOK ==
  /\ status \in Statuses /\ resolved \in BOOLEAN /\ denials \subseteq Categories
  /\ DOMAIN cands \subseteq Policies /\ DOMAIN assess \subseteq Policies
  /\ \A p \in DOMAIN assess : assess[p] \in Assessments
  /\ \A p \in DOMAIN cands : cands[p].status \in {"CANDIDATE", "UNCERTAIN", "EXCLUDED"}
                             /\ cands[p].score \in Score
  /\ Len(result) <= ResultLimit

\* The numbers a given answer may stand for.
StandsFor(v) ==
  IF v \in DOMAIN IncomeRange THEN (IncomeRange[v][1] + 1)..IncomeRange[v][2]
  ELSE IF v \in DOMAIN ChildAgeRange THEN ChildAgeRange[v][1]..ChildAgeRange[v][2] ELSE ToNumber(v)

\* A bucket passes a numeric rule only if everyone in it does, and fails it only if
\* nobody does: whoever cannot be told apart is neither shown for sure nor excluded.
BucketsAreSound ==
  pc = "candidate_save" => \A p \in DOMAIN run.kept : \A r \in rules[p] :
    LET given == ConditionValue(run.cond, r.field) IN
    (r.op \in {"LTE", "LT", "GTE", "GT"} /\ Cardinality(given) = 1) =>
      \A t \in ToNumber(r.values[1]) : \A v \in given : \A n \in StandsFor(v) :
        /\ RuleMatches(r.op, given, r.values) = "yes" => Compares(r.op, n, t)
        /\ RuleMatches(r.op, given, r.values) = "no" => ~Compares(r.op, n, t)

\* What is shown or stored as the result: candidates of this very round, each once, that
\* neither the rules excluded nor an assessment refused, whatever the models answered.
ShownIsEligible ==
  LET shown == IF pc = "ended" THEN result ELSE run.shown IN
  (pc = "ended" => status = "COMPLETED") /\ kind = "recommendation" =>
    /\ \A i, j \in DOMAIN shown : shown[i].policy = shown[j].policy => i = j
    /\ \A i \in DOMAIN shown : LET p == shown[i].policy IN
         /\ p \in DOMAIN cands /\ cands[p].status # "EXCLUDED"
         /\ p \in DOMAIN assess /\ assess[p] # "NOT_MATCH"

\* After "I get no such benefit" no policy is shown whose own rules demand one.
DeniedIsNotShown ==
  "income_status" \in denials =>
    \A i \in DOMAIN run.shown : \A r \in Flat(rules[run.shown[i].policy]) :
      r.field = "income_status" => "none" \in ValuesOf(r.values)

\* The priorities shown never rise with the rank.  Two are level only at the floor, or where
\* rounding makes them so after they were compared: the lower one's own score lies below
\* the common priority by no more than half a hundredth, or is cut to a bound that is a
\* float just below it.  Policies that conflict with a denial come after all others.
RanksAgree ==
  pc = "rerank_save" => \A i, j \in DOMAIN run.shown : i < j =>
    /\ \/ run.shown[i].priority > run.shown[j].priority
       \/ /\ run.shown[i].priority = run.shown[j].priority
          /\ \/ run.shown[j].priority = 4500
             \/ run.shown[j].source \in (run.shown[j].priority - 50)..(run.shown[j].priority - 1)
             \/ j \in ShortBounds /\ run.shown[j].priority = Bound(j)
    /\ LET conflict(n) == DenialConflict(run.kept[run.shown[n].policy], run.shown[n].policy, denials)
       IN conflict(i) => conflict(j)

\* A saved rerank score belongs to a policy this round's model chose, and every policy it
\* chose is shown: no score of an earlier round survives beside the new result.
ScoresMatchRun ==
  LET scored == {p \in DOMAIN cands : cands[p].rerank # {}}
      among(items) == {r.policy : r \in ValuesOf(items)}
  IN /\ pc = "finalize_result" =>
          scored \subseteq DOMAIN run.scores /\ DOMAIN run.scores \subseteq among(run.shown)
     /\ pc = "ended" /\ status = "COMPLETED" /\ kind = "recommendation" =>
          scored \subseteq among(result)

\* The two readers of the rules agree on a refusal: what the eligibility filter refuses,
\* the candidate search excludes.  They do not for rules under review, which only the
\* filter leaves out, nor for the applicant's age, which only the filter takes from the
\* child's.
RefusedIsExcluded ==
  pc = "candidate_save" => \A p \in DOMAIN run.kept :
    LET R == rules[p] IN
    (/\ \A r \in R : ~r.review
     /\ ConditionValue(run.cond, "age") = {} => \A r \in R : r.field # "age")
    => (Filter(run.cond, R).failed # {} => run.kept[p].status = "EXCLUDED")

\* A point of the policy's rules that the user has settled is not open again after the check
\* that reads his answer.  Points of the input check and ambiguous answers are exempt: they
\* come from the condition, which is read anew, and may open again.
SettledStaysSettled ==
  (pc = "ended" /\ status = "COMPLETED" /\ kind # "recommendation") =>
    \A x \in DOMAIN confirmed : confirmed[x] # "unknown" /\ x \cap {"input", "unknown"} = {} =>
      x \notin checked.missing \cup checked.manual
=============================================================================
