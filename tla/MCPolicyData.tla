---------------------------- MODULE MCPolicyData ----------------------------
(* An instance of UserRecords for TLC.  Every scenario is a set of calls that may *)
(* overlap; what a call is made after keeps the parts that matter apart.          *)
EXTENDS UserRecords

MCNumeral == [s \in {"0", "1", "3", "6", "19", "34", "80", "100", "120"} |->
  CASE s = "0" -> 0 [] s = "1" -> 1 [] s = "3" -> 3 [] s = "6" -> 6 [] s = "19" -> 19
    [] s = "34" -> 34 [] s = "80" -> 80 [] s = "100" -> 100 [] s = "120" -> 120]
MCWorded == ("100%" :> "100") @@ ("3y" :> "3")

(* The portal. *)
MCLists == << [life |-> {"pregnancy"}, special |-> {}],
              [life |-> {"childhood", "youth"}, special |-> {"single_parent"}] >>

Form_(title, form, url, pdf) == [title |-> title, form |-> form, url |-> url, pdf |-> pdf]
Bare == [life |-> {}, special |-> {}, percent |-> None, low |-> FALSE, ages |-> {},
         condition |-> FALSE, forms |-> <<>>, steps |-> <<>>, target |-> 0, benefit |-> 0]
MCDetails == <<
  [Bare EXCEPT !.percent = "100", !.condition = TRUE, !.ages = {"0-5"}, !.target = 13, !.benefit = 5,
     !.forms = <<Form_("guide", FALSE, "u1", TRUE), Form_("application", TRUE, "u2", FALSE)>>,
     !.steps = <<"visit", "apply">>],
  [Bare EXCEPT !.life = {"infancy"}, !.special = {"veteran", "disability"}, !.low = TRUE,
     !.target = 5,
     !.forms = <<Form_("consent", TRUE, "u3", FALSE), Form_("law", FALSE, "u1", TRUE),
                 Form_("notice", FALSE, "u1", FALSE)>>,
     !.steps = <<"call", None>>],
  Bare >>

(* What a model reads. *)
Txt == [marks |-> {}, percent |-> None, quoted |-> TRUE]
Group(up, op) == [up |-> up, op |-> op, key |-> None]
Leaf(up, f, op, value) == [up |-> up, op |-> op, field |-> f, value |-> value, text |-> Txt, sure |-> TRUE]
Many(seq) == [shape |-> "list", items |-> seq]
Read(tree) == [tree |-> tree, exclusions |-> {}, ignored |-> {}, unsupported |-> {}, unknowns |-> {},
               review |-> FALSE]
And(a, b) == Read(<<Group(0, "AND"), [a EXCEPT !.up = 1], [b EXCEPT !.up = 1]>>)
Or(a, b) == Read(<<Group(0, "OR"), [a EXCEPT !.up = 1], [b EXCEPT !.up = 1]>>)

Pregnant == Leaf(1, "stage", "EQ", One("pregnant"))
Single == Leaf(1, "special_condition", "EXISTS", One("single_parent_or_grandparent"))
Income(p) == Leaf(1, "median_income", "<=", [shape |-> "percent", items |-> <<p>>])
Age(op, seq) == Leaf(1, "child_age", op, IF Len(seq) = 1 THEN One(seq[1]) ELSE Many(seq))
Says(n, marks) == [n EXCEPT !.text.marks = marks]
Excl(marks) == [field |-> "unknown", value |-> NoValue, text |-> [Txt EXCEPT !.marks = marks]]

MCExtractions == <<
  (* 1 *) And(Pregnant, Income("80")),
  (* 2 *) Or(Leaf(1, "stage", "IN", Many(<<"infant", "youth">>)), Single),
  (* 3 *) Or(Leaf(1, "stage", "EQ", One("miscarriage")), Single),
  (* 4 *) Read(<<Group(0, "OR"), Single, Group(1, "AND"), [Age("LTE", <<"3">>) EXCEPT !.up = 3],
                 [Income("100%") EXCEPT !.up = 3]>>),
  (* 5 *) Or(Leaf(1, "region", "EXCLUDES", One("seoul")), Single),
  (* 6 *) And(Age("EQ", <<"3">>), Leaf(1, "nationality_status", "EQ", One("korean"))),
  (* 7 *) Read(<<Leaf(0, "child_age", "IN", [shape |-> "range", items |-> <<"0", "6">>])>>),
  (* 8 *) Read(<<Leaf(0, "stage", "IN", Many(<<"pregnant", "soldier">>))>>),
  (* 9 *) Or(Age("LTE", <<"3y">>), Leaf(1, "special_condition", "EXISTS", NoValue)),
  (* 10 *) Or([Single EXCEPT !.sure = FALSE], Pregnant),
  (* 11 *) And(Says(Leaf(1, "income_status", "EQ", One("100")), {"median", "lt"}),
              Leaf(1, "region", "EQ", Many(<<"seoul", "busan">>))),
  (* 12 *) [And(Age("GTE", <<"19">>), Says(Age("IN", <<"1">>), {"clinical"})) EXCEPT
              !.exclusions = {Excl({"negative"}), Excl({"positive"}), Excl({"calculation"})},
              !.ignored = {Excl({"negative"})}],
  (* 13 *) And(Leaf(1, "household_type", "EQ", One("single_parent")),
              Leaf(1, "debt_status", "HAS", NoValue)),
  (* 14 *) And(Age("IN", <<"0", "1">>), Leaf(1, "employment_status", "EQ", One("worker"))),
  (* 15 *) Read(<<>>),
  (* 16 *) And(Says(Single, {"mismatch"}), Leaf(1, "median_income_percent", "LTE", NoValue)),
  (* 17 *) Read(<<Group(0, "AND"), Income("80"), Group(1, "OR"), [Pregnant EXCEPT !.up = 3],
                  [Single EXCEPT !.up = 3]>>),
  (* 18 *) Read(<<Group(0, "OR"), Pregnant, [Pregnant EXCEPT !.sure = FALSE], Single>>),
  (* 19 *) And(Leaf(1, "stage", "LT", One("infant")), Leaf(1, "employment_status", "GT", One("dual"))),
  (* 20 *) And(Leaf(1, "region", "IN", NoValue), Leaf(1, "income_status", "EQ", One("100%"))) >>

A(f, v) == [x \in {f} |-> v]
MCAnswers == {
  A("stage", {"pregnant"}) @@ A("income", {"mid1"}) @@ A("special", {}),
  A("stage", {"infant"}) @@ A("childAge", {"0"}) @@ A("special", {"single"}) @@ A("region", {"busan"}),
  A("stage", {"child"}) @@ A("childAge", {"2-5"}) @@ A("income", {"low"}) @@ A("special", {}),
  A("stage", {"teen"}) @@ A("childAge", {"13+"}) @@ A("income", {"high"}) @@ A("special", {"multi"}),
  A("income_status", {"none"}) @@ A("region", {"seoul"}) @@ A("childAge", {"6-12"}) }

MCEditions == << {1, 2}, {2, 3} >>
MCReadings == << 1..8 \cup {17, 18}, 9..16 \cup {19, 20}, {} >>

(* The files. *)
Line(header, size) == [header |-> header, size |-> size]
Reader(text, good, score) == [text |-> text, good |-> good, score |-> score]
NoText_ == Reader(<<>>, FALSE, 0)
Long == <<Line(TRUE, 16), Line(FALSE, 4), Line(TRUE, 10)>>
Short == <<Line(FALSE, 5)>>
File(type, a, b, c, vision) ==
  [type |-> type, vision |-> vision,
   readers |-> ("pypdfium2" :> a) @@ ("pymupdf" :> b) @@ ("pdfplumber" :> c)]
MCContents == << File("PDF", Reader(Long, TRUE, 9), NoText_, NoText_, Short),
                 File("PDF", Reader(Short, FALSE, 5), NoText_, Reader(Short, FALSE, 7), Long),
                 File("PDF", NoText_, NoText_, NoText_, Short),
                 File("HWP", NoText_, NoText_, NoText_, <<>>) >>
MCDownloads == ("u1" :> {0, 1, 2, 3}) @@ ("u2" :> {0}) @@ ("u3" :> {4})

(* The calls. *)
C0 == [after |-> {}, limit |-> 10, rebuild |-> FALSE, policy |-> 1, page |-> <<1>>, source |-> "ALL",
       user |-> 1, email |-> "a@x", nickname |-> "a", password |-> "p", current |-> "q",
       position |-> 101, done |-> TRUE, answers |-> A("stage", {"child"})]
Op(id, op) == [id |-> id, op |-> op] @@ C0
After(c, ids) == [c EXCEPT !.after = ids]
Again(c) == [c EXCEPT !.rebuild = TRUE]
One_ == 1 :> [email |-> "o@x", nickname |-> "o", password |-> "q"]
Imported(l, d) == Row(l, d, "COMPLETED")

MCCallIds == 1..8

Portal == [raw |-> <<>>, accounts |-> One_,
  calls |-> { [Op(1, "list_save") EXCEPT !.page = <<1, 2>>], After([Op(2, "list_save") EXCEPT !.page = <<2>>], {1}),
              Op(3, "detail_save"), [Op(4, "save_pending") EXCEPT !.limit = 1], Op(5, "save_pending"),
              Op(6, "import") }]

RulesTwice == [raw |-> <<Imported(1, 1), Imported(2, 2)>>, accounts |-> One_,
  calls |-> { Op(1, "import"), After(Op(2, "import"), {3}), After(Op(3, "profiles"), {1}),
              After(Again([Op(4, "rules") EXCEPT !.limit = 1]), {3}), After(Op(5, "rules"), {3}) }]

Rereading == [raw |-> <<Imported(1, 1)>>, accounts |-> One_,
  calls |-> { Op(1, "import"), After(Op(2, "profiles"), {1}), After(Again(Op(3, "profiles")), {2}),
              After(Op(4, "rules"), {2}), After(Again(Op(5, "rules")), {3}) }]

DetailTexts == [raw |-> <<Imported(1, 1)>>, accounts |-> One_,
  calls |-> { Op(1, "import"), After(Op(2, "profiles"), {1}), After(Op(3, "detail_chunks"), {2}),
              After(Op(4, "embeddings"), {2}), After(Again(Op(5, "profiles")), {3}),
              After(Again(Op(6, "detail_chunks")), {3}), After(Op(7, "import"), {3}),
              After([Op(8, "embeddings") EXCEPT !.source = "POLICY_DETAIL", !.limit = 1], {4}) }]

Files == [raw |-> <<Imported(1, 1), Imported(2, 2)>>, accounts |-> One_,
  calls |-> { Op(1, "import"), After(Op(2, "references"), {1}), After(Op(3, "embeddings"), {1}),
              After(Again(Op(4, "references")), {2}), After(Op(5, "import"), {3}),
              After([Op(6, "vision") EXCEPT !.limit = 1], {3}),
              After([Op(7, "embeddings") EXCEPT !.source = "POLICY_REFERENCE"], {4}) }]

Lists_ == [raw |-> <<Imported(1, 1)>>, accounts |-> One_,
  calls |-> { Op(1, "import"), After(Op(2, "detail_save"), {1}), After(Op(3, "import"), {2}),
              Op(4, "prepare"), Op(5, "prepare"), Op(6, "tick"),
              [Op(7, "tick") EXCEPT !.position = 202, !.done = FALSE], Op(8, "favorite") }]

People == [raw |-> <<Imported(1, 1)>>, accounts |-> One_,
  calls |-> { Op(1, "import"), Op(2, "sign_up"), [Op(3, "sign_up") EXCEPT !.email = "b@x"],
              [Op(4, "nickname") EXCEPT !.user = 2, !.nickname = "o"], Op(5, "nickname"),
              Op(6, "family"), [Op(7, "family") EXCEPT !.answers = A("stage", {"teen"})],
              Op(8, "password") }]

Saved == [raw |-> <<Imported(1, 1)>>, accounts |-> One_,
  calls |-> { Op(1, "import"), Op(2, "favorite"), Op(3, "favorite"), Op(4, "unfavorite"), Op(5, "prepare") }]

MCScenarios == {Portal, RulesTwice, Rereading, DetailTexts, Files, Lists_, People, Saved}
=============================================================================
