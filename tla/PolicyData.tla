----------------------------- MODULE PolicyData -----------------------------
(***************************************************************************)
(* How policies come into the database: the portal's list entries and      *)
(* details, the import, the profiles a language model reads in them, the   *)
(* rules derived from the profiles, the documents, their chunks and the    *)
(* vectors the search uses.  Every step is an administrative call of an    *)
(* endpoint; calls run side by side, in connections that commit every      *)
(* statement by itself, with a transaction around what is written for one  *)
(* policy or one document.                                                 *)
(*                                                                         *)
(* A policy is its import_id.  A document is numbered by its policy and    *)
(* its position, and a chunk by its document and its index, as in the      *)
(* database.  Chunks are replaced with their document's text and deleted   *)
(* with it, so that they are a function of the documents.                  *)
(***************************************************************************)
EXTENDS PolicyDocuments

CONSTANTS
  Policies,   \* import_ids, in 1..9
  Lists,      \* sequence of list entries the portal has shown
  Details,    \* sequence of details the portal has shown
  Editions,   \* the details a policy has had: [Policies -> SUBSET DOMAIN Details]
  Readings,   \* the extractions a model may make of a detail: [DOMAIN Details -> SUBSET DOMAIN Extractions]
  Contents,   \* sequence of what files hold
  Downloads,  \* what a URL may give: a set of indices of Contents, or 0 for an error
  Scenarios   \* records [raw, calls, accounts]: rows there are, calls to be made, users

CONSTANT CallIds

\* What is numbered by position stays within the ten thousand of its policy, and the
\* steps of an application below its forms; a file has a URL that may be fetched.
ASSUME PortalAssumption ==
  /\ Policies \subseteq Nat /\ IsFiniteSet(Policies) /\ DOMAIN Details \subseteq Nat \ {0}
  /\ \A d \in DOMAIN Details :
       /\ DOMAIN Details[d].steps \subseteq 1..99 /\ DOMAIN Details[d].forms \subseteq 1..99
       /\ \A i \in DOMAIN Details[d].forms : Details[d].forms[i].url \in {None} \cup DOMAIN Downloads
       /\ Readings[d] \subseteq DOMAIN Extractions
  /\ \A p \in Policies : Editions[p] \subseteq DOMAIN Details
  /\ \A u \in DOMAIN Downloads : Downloads[u] \subseteq {0} \cup DOMAIN Contents

\* A row that is complete has a detail; another may have an old one.
RawRow(p) ==
  {row \in [list : {0} \cup DOMAIN Lists, detail : {0} \cup Editions[p],
            status : {"PENDING", "COMPLETED", "FAILED"}] :
     row.status = "COMPLETED" => row.detail # 0}

\* Only what the portal has shown is stored, and asked for.
ASSUME ScenarioAssumption ==
  \A s \in Scenarios :
    /\ DOMAIN s.raw \subseteq Policies
    /\ \A p \in DOMAIN s.raw : s.raw[p] \in RawRow(p)
    /\ \A c \in s.calls : /\ c.policy \in Policies /\ c.limit \in Nat
                          /\ DOMAIN c.page \subseteq Policies
                          /\ \A p \in DOMAIN c.page : c.page[p] \in DOMAIN Lists

VARIABLES
  raw,        \* policy_raw_import: partial function from policies to [list, detail, status]
  live,       \* policy, policy_detail: the detail imported last; 0 before the first import
  profile,    \* policy_condition_profile: an extraction, 0 for none
  rules,      \* policy_rule: sets of batches [by, call, of] of what was inserted together
  docs,       \* policy_document: partial function from ids to the text, NoText when NULL
  vectors,    \* langchain_pg_embedding: partial function from chunk ids to a text
  strayed,    \* history: vectors written after their chunk was replaced or deleted
  templates,  \* policy_checklist_template: from positions to [label, active]
  pending,    \* calls that are still to be made
  job         \* what each call has still to do

dataVars == <<raw, live, profile, rules, docs, vectors, strayed, templates, pending, job>>

NoText == <<"none", 0, 0>>
Row(list, detail, status) == [list |-> list, detail |-> detail, status |-> status]

(***************************************************************************)
(* Calls.  A call is a record of its id, its op, the calls it is made      *)
(* after, its limit, whether it does again what is done (overwrite,        *)
(* rebuild), and the policy, page or type of sources it is about.          *)
(***************************************************************************)
Idle == [op |-> None, todo |-> <<>>, writing |-> FALSE, doomed |-> {}, url |-> None, got |-> 0]
Over(id) == job[id] = Idle /\ \A c \in pending : c.id # id

Calls(op) == {c \in pending : c.op = op /\ \A a \in c.after : Over(a)}
Busy(op) == {id \in CallIds : job[id].op = op}

Job(op, todo) == IF todo = <<>> THEN Idle ELSE [Idle EXCEPT !.op = op, !.todo = todo]
Make(c, todo) ==
  /\ pending' = pending \ {c}
  /\ job' = [job EXCEPT ![c.id] = Job(c.op, todo)]
Go(id, j) == job' = [job EXCEPT ![id] = j] /\ UNCHANGED pending

\* What a call is at, and the state it has when it goes on to the next.
Current(id) == Head(job[id].todo)
Onward(id) == Job(job[id].op, Tail(job[id].todo))

\* The first n of a set of numbers, in their order.
First(S, n) ==
  [i \in 1..(IF Cardinality(S) < n THEN Cardinality(S) ELSE n) |->
     CHOOSE x \in S : Cardinality({y \in S : y < x}) = i - 1]
With(seq, Value(_)) == [i \in DOMAIN seq |-> <<seq[i], Value(seq[i])>>]

(***************************************************************************)
(* The portal's data as it was fetched.                                    *)
(***************************************************************************)
\* Mutant: a new row counts as complete, though only its list entry is there.
ListRowDone(list) == Row(list, 0, "COMPLETED")
ListRow(list) == Row(list, 0, "PENDING")

\* A list entry that changes leaves the status alone: its detail is not fetched again.
WithList(p, list) == IF p \in DOMAIN raw THEN [raw[p] EXCEPT !.list = list] ELSE ListRow(list)
WithDetail(p, d) == Row(IF p \in DOMAIN raw THEN raw[p].list ELSE 0, d, "COMPLETED")

SaveList(c) ==
  /\ raw' = [p \in DOMAIN raw \cup DOMAIN c.page |->
               IF p \in DOMAIN c.page THEN WithList(p, c.page[p]) ELSE raw[p]]
  /\ Make(c, <<>>)

SaveDetail(c) ==
  /\ \E d \in Editions[c.policy] :
       raw' = [p \in DOMAIN raw \cup {c.policy} |-> IF p = c.policy THEN WithDetail(p, d) ELSE raw[p]]
  /\ Make(c, <<>>)

\* The pending rows are read first, and all written at the end.
PendingStart(c) ==
  LET waiting == {p \in DOMAIN raw : raw[p].status = "PENDING"} IN
  /\ \E S \in SUBSET waiting :
       /\ Cardinality(S) = Cardinality(DOMAIN First(waiting, c.limit))
       /\ Make(c, First(S, c.limit))
  /\ UNCHANGED raw

\* A row whose detail could not be fetched has failed, whatever it is by then.
PendingFinish(id) ==
  LET fetched == ValuesOf(job[id].todo) IN
  \E got \in [fetched -> {0} \cup DOMAIN Details] :
    /\ \A p \in fetched : got[p] \in {0} \cup Editions[p]
    /\ raw' = [p \in DOMAIN raw |->
                 IF p \notin fetched THEN raw[p]
                 ELSE IF got[p] = 0 THEN [raw[p] EXCEPT !.status = "FAILED"]
                 ELSE WithDetail(p, got[p])]
    /\ Go(id, Idle)

Fetch ==
  /\ \/ \E c \in Calls("list_save") : SaveList(c)
     \/ \E c \in Calls("detail_save") : SaveDetail(c)
     \/ \E c \in Calls("save_pending") : PendingStart(c)
     \/ \E id \in Busy("save_pending") : PendingFinish(id)
  /\ UNCHANGED <<live, profile, rules, docs, vectors, strayed, templates>>

(***************************************************************************)
(* The import: one transaction.  Rows are taken to be the same for all its *)
(* statements.                                                             *)
(***************************************************************************)
Complete(p) == raw[p].list # 0 /\ raw[p].detail # 0 /\ raw[p].status = "COMPLETED"
Importable == {p \in DOMAIN raw : Complete(p)}

\* A policy keeps what it had when its row is not complete.
ImportedDetail(p) == IF p \in Importable THEN raw[p].detail ELSE live[p]
ImportedPolicies == [p \in Policies |-> ImportedDetail(p)]

DocId(p, n) == p * 10000 + n
PolicyOf(id) == id \div 10000
DetailDoc(p) == DocId(p, 9000)
ReferenceDocs(p, d) == {DocId(p, 3000 + i) : i \in ReferenceForms(Details[d])}

\* Everything made of the documents goes with them, except the vectors.
ImportedDocs ==
  LET kept == {id \in DOMAIN docs : PolicyOf(id) \notin Importable}
      made == UNION {ReferenceDocs(p, raw[p].detail) : p \in Importable}
  IN [id \in kept \cup made |-> IF id \in made THEN NoText ELSE docs[id]]

Batch(by, id, of) == [by |-> by, call |-> id, of |-> of]
ImportedRules(c) ==
  [p \in Policies |->
     IF p \notin Importable THEN rules[p]
     ELSE IF ImportRules(Lists[raw[p].list], Details[raw[p].detail]) = {} THEN {}
     ELSE {Batch("openapi", c.id, <<raw[p].list, raw[p].detail>>)}]

\* A template item is what is at its position: who ticked the old one has ticked the new.
ImportedTemplates ==
  [p \in Policies |->
     IF p \notin Importable THEN templates[p]
     ELSE LET items == ChecklistItems(Details[raw[p].detail]) IN
          [n \in DOMAIN templates[p] \cup DOMAIN items |->
             IF n \in DOMAIN items THEN [label |-> items[n], active |-> TRUE]
             ELSE [templates[p][n] EXCEPT !.active = FALSE]]]

\* ALTER TABLE policy_rule waits for whoever is writing rules.
\* Mutant: it does not.
RulesUnlockedNever == TRUE
RulesUnlocked == \A id \in CallIds : ~job[id].writing

Import ==
  \E c \in Calls("import") :
    /\ RulesUnlocked
    /\ live' = ImportedPolicies
    /\ docs' = ImportedDocs
    /\ rules' = ImportedRules(c)
    /\ templates' = ImportedTemplates
    /\ Make(c, <<>>)
    /\ UNCHANGED <<raw, profile, vectors, strayed>>

(***************************************************************************)
(* Condition profiles.                                                     *)
(***************************************************************************)
HasSource(d) ==
  LET t == Details[d] IN
  t.condition \/ t.life \cup t.special # {} \/ t.target > 0 \/ t.benefit > 0

ProfileStart(c) ==
  LET targets == {p \in Importable : live[p] # 0 /\ (c.rebuild \/ profile[p] = 0)} IN
  /\ Make(c, With(First(targets, c.limit), LAMBDA p : raw[p].detail))
  /\ UNCHANGED profile

\* The model reads the text that was found at the start; a call of it may fail.
ProfileStep(id) ==
  LET p == Current(id)[1]  d == Current(id)[2] IN
  /\ \/ UNCHANGED profile
     \/ HasSource(d) /\ \E x \in Readings[d] : profile' = [profile EXCEPT ![p] = x]
  /\ Go(id, Onward(id))

Profiling ==
  /\ \/ \E c \in Calls("profiles") : ProfileStart(c)
     \/ \E id \in Busy("profiles") : ProfileStep(id)
  /\ UNCHANGED <<raw, live, rules, docs, vectors, strayed, templates>>

(***************************************************************************)
(* Rules from profiles.                                                    *)
(***************************************************************************)
ByProfile(p) == {b \in rules[p] : b.by = "condition_profile"}

RulesStart(c) ==
  LET targets == {p \in Policies : profile[p] # 0 /\ live[p] # 0 /\ (c.rebuild \/ ByProfile(p) = {})} IN
  /\ RulesUnlocked
  /\ Make(c, With(First(targets, c.limit), LAMBDA p : profile[p]))
  /\ UNCHANGED rules

RulesSkip(id) ==
  /\ Rows[Current(id)[2]] = {}
  /\ Go(id, Onward(id))
  /\ UNCHANGED rules

\* The DELETE takes the rows that are there when it starts, and waits for whoever
\* is deleting them: what another call inserts meanwhile it does not see.
RulesBegin(id) ==
  /\ ~job[id].writing /\ Rows[Current(id)[2]] # {}
  /\ Go(id, [job[id] EXCEPT !.writing = TRUE, !.doomed = rules[Current(id)[1]]])
  /\ UNCHANGED rules

RulesCommit(id) ==
  LET p == Current(id)[1]  x == Current(id)[2] IN
  /\ job[id].writing
  /\ rules' = [rules EXCEPT ![p] = (@ \ job[id].doomed) \cup {Batch("condition_profile", id, <<x, 0>>)}]
  /\ Go(id, Onward(id))

RuleIngesting ==
  /\ \/ \E c \in Calls("rules") : RulesStart(c)
     \/ \E id \in Busy("rules") : RulesSkip(id) \/ RulesBegin(id) \/ RulesCommit(id)
  /\ UNCHANGED <<raw, live, profile, docs, vectors, strayed, templates>>

(***************************************************************************)
(* Documents, chunks and vectors.                                          *)
(***************************************************************************)
\* A text is of a profile and a detail, read out of a file, or seen in one by a model.
FileText(text) == IF text[1] = "seen" THEN Contents[text[2]].vision ELSE ExtractText(Contents[text[2]])
ChunkCount(text) ==
  IF text = NoText THEN 0
  ELSE IF text[1] = "detail" THEN Len(DetailChunks(Json[text[2]], Details[text[3]]))
  ELSE Len(ReferenceChunks(FileText(text)))

Texts == {NoText} \cup ({"detail"} \X (DOMAIN Extractions) \X (DOMAIN Details))
           \cup ({"read", "seen"} \X (DOMAIN Contents) \X {0})

\* A text has at most ten thousand chunks: their numbers do not run into the next document's.
ASSUME ChunkAssumption == \A text \in Texts : ChunkCount(text) \in Nat /\ ChunkCount(text) <= 10000

ChunkIds(doc, text) == {doc * 10000 + i - 1 : i \in 1..ChunkCount(text)}
DocOf(chunk) == chunk \div 10000
Chunks == UNION {ChunkIds(doc, docs[doc]) : doc \in DOMAIN docs}
IsChunk(id, text) ==
  DocOf(id) \in DOMAIN docs /\ docs[DocOf(id)] = text /\ id \in ChunkIds(DocOf(id), text)

\* Mutant: the vectors of the chunks that are replaced stay.
WithoutKeeps(doc) == vectors
Without(doc) == [id \in {v \in DOMAIN vectors : DocOf(v) # doc} |-> vectors[id]]

\* Text and chunks of a document, in one transaction.
Replace(doc, text) == docs' = [id \in DOMAIN docs \cup {doc} |-> IF id = doc THEN text ELSE docs[id]]

DetailStart(c) ==
  LET targets == {p \in Policies : /\ profile[p] # 0 /\ live[p] # 0
                                   /\ c.rebuild \/ DetailDoc(p) \notin DOMAIN docs} IN
  /\ Make(c, With(First(targets, c.limit), LAMBDA p : <<"detail", profile[p], live[p]>>))
  /\ UNCHANGED <<docs, vectors>>

DetailWrite(id) ==
  LET doc == DetailDoc(Current(id)[1])  text == Current(id)[2] IN
  /\ IF ChunkCount(text) = 0 THEN UNCHANGED <<docs, vectors>>
     ELSE Replace(doc, text) /\ vectors' = Without(doc)
  /\ Go(id, Onward(id))

Form(doc) == Details[live[PolicyOf(doc)]].forms[(doc % 10000) - 3000]
IsReference(doc) == doc % 10000 < 9000

\* The files to be read: those of the first URLs; all documents that share one.
ReferenceTargets(c) ==
  LET open == {doc \in DOMAIN docs : IsReference(doc) /\ (c.rebuild \/ docs[doc] = NoText)}
      named == {doc \in open : Form(doc).url # None /\ Form(doc).pdf}
      leads(doc) == \A e \in named : Form(e).url = Form(doc).url => doc <= e
      leaders == ValuesOf(First({doc \in named : leads(doc)}, c.limit))
      shares(doc, l) == Form(doc).url = Form(l).url
      targets == {doc \in open : \E l \in leaders : shares(doc, l)}
      leader(doc) == CHOOSE l \in leaders : shares(doc, l)
      before(doc) == {e \in targets : \/ leader(e) < leader(doc)
                                      \/ leader(e) = leader(doc) /\ e < doc}
  IN [i \in 1..Cardinality(targets) |-> CHOOSE doc \in targets : Cardinality(before(doc)) = i - 1]

ReferenceStart(c) ==
  /\ Make(c, With(ReferenceTargets(c), LAMBDA doc : Form(doc).url))
  /\ UNCHANGED <<docs, vectors>>

SameUrl(id) == {i \in DOMAIN job[id].todo : job[id].todo[i][2] = Current(id)[2]}
NextUrl(id) == Job(job[id].op, SubSeq(job[id].todo, Cardinality(SameUrl(id)) + 1, Len(job[id].todo)))

TextOf(op, k) == IF op = "vision" THEN <<"seen", k, 0>> ELSE <<"read", k, 0>>
Readable(op, k) == k # 0 /\ Contents[k].type = "PDF" /\ FileText(TextOf(op, k)) # <<>>

\* One file for all documents of its URL; without a text they are left out.
ReferenceFetch(id) ==
  /\ job[id].url # Current(id)[2]
  /\ \E k \in Downloads[Current(id)[2]] :
       Go(id, IF Readable(job[id].op, k)
              THEN [job[id] EXCEPT !.url = Current(id)[2], !.got = k] ELSE NextUrl(id))
  /\ UNCHANGED <<docs, vectors>>

\* A document that an import has deleted fails the rest of its URL: its chunks
\* would refer to no row.  The vision path leaves the vectors as they are.
ReferenceWrite(id) ==
  LET doc == Current(id)[1]  rest == Onward(id) IN
  /\ job[id].url = Current(id)[2]
  /\ IF doc \in DOMAIN docs
     THEN /\ Replace(doc, TextOf(job[id].op, job[id].got))
          /\ vectors' = IF job[id].op = "vision" THEN vectors ELSE Without(doc)
          /\ Go(id, IF rest = Idle \/ Cardinality(SameUrl(id)) = 1 THEN rest
                    ELSE [rest EXCEPT !.url = job[id].url, !.got = job[id].got])
     ELSE Go(id, NextUrl(id)) /\ UNCHANGED <<docs, vectors>>

Documents ==
  /\ \/ \E c \in Calls("detail_chunks") : DetailStart(c)
     \/ \E id \in Busy("detail_chunks") : DetailWrite(id)
     \/ \E c \in Calls("references") \cup Calls("vision") : ReferenceStart(c)
     \/ \E id \in Busy("references") \cup Busy("vision") : ReferenceFetch(id) \/ ReferenceWrite(id)
  /\ UNCHANGED <<raw, live, profile, rules, strayed, templates>>

\* Chunks without a vector, or with one of another text.
EmbedStart(c) ==
  LET ofType(id) == c.source = "ALL" \/ (c.source = "POLICY_REFERENCE") = IsReference(DocOf(id))
      targets == {id \in Chunks : ofType(id) /\ (id \in DOMAIN vectors => vectors[id] # docs[DocOf(id)])}
  IN /\ Make(c, With(First(targets, c.limit), LAMBDA id : docs[DocOf(id)]))
     /\ UNCHANGED <<vectors, strayed>>

\* The texts are embedded outside of any transaction, and all stored at once.
EmbedWrite(id) ==
  LET todo == ValuesOf(job[id].todo)
      texts == [v \in {t[1] : t \in todo} |-> (CHOOSE t \in todo : t[1] = v)[2]] IN
  /\ vectors' = [v \in DOMAIN vectors \cup DOMAIN texts |->
                   IF v \in DOMAIN texts THEN texts[v] ELSE vectors[v]]
  /\ strayed' = strayed \cup {<<t[1], t[2]>> : t \in {u \in todo : ~IsChunk(u[1], u[2])}}
  /\ Go(id, Idle)

Embedding ==
  /\ \/ \E c \in Calls("embeddings") : EmbedStart(c)
     \/ \E id \in Busy("embeddings") : EmbedWrite(id)
  /\ UNCHANGED <<raw, live, profile, rules, docs, templates>>

\* A call that fails, or whose process ends, leaves what it has committed.
Abandon ==
  /\ \E id \in CallIds : job[id] # Idle /\ Go(id, Idle)
  /\ UNCHANGED <<raw, live, profile, rules, docs, vectors, strayed, templates>>

DataInit(s) ==
  /\ raw = s.raw /\ pending = s.calls
  /\ live = [p \in Policies |-> 0] /\ profile = [p \in Policies |-> 0]
  /\ rules = [p \in Policies |-> {}] /\ templates = [p \in Policies |-> <<>>]
  /\ docs = <<>> /\ vectors = <<>> /\ strayed = {}
  /\ job = [id \in CallIds |-> Idle]

DataNext ==
  Fetch \/ Import \/ Profiling \/ RuleIngesting \/ Documents \/ Embedding \/ Abandon

(***************************************************************************)
(* Properties.                                                             *)
(***************************************************************************)
DataTypeOK ==
  /\ DOMAIN raw \subseteq Policies
  /\ \A p \in DOMAIN raw : raw[p] \in RawRow(p)
  /\ \A p \in Policies :
       /\ live[p] \in {0} \cup Editions[p]
       /\ profile[p] # 0 => live[p] # 0 /\ profile[p] \in DOMAIN Extractions
       /\ rules[p] # {} \/ DOMAIN templates[p] # {} => live[p] # 0
  /\ \A doc \in DOMAIN docs : live[PolicyOf(doc)] # 0 /\ docs[doc] \in Texts
  /\ \A id \in DOMAIN vectors : vectors[id] \in Texts \ {NoText}

\* The rules of a policy are all of the portal's data or all of profiles: two
\* imports, two ingests and an import and an ingest may overlap in any way, and no
\* policy is left with the rules of both, which would be required together.
OneSource == \A p \in Policies : \A b \in rules[p] : \A o \in rules[p] : b.by = o.by

\* No user is refused, by rules that some profile has given a policy, whom the
\* sentence behind them admits, unless the sentence is of a kind that is known to
\* lose its meaning on the way through normalisation, validation and flattening.
RefusalHasCause ==
  \A p \in Policies : \A b \in ByProfile(p) : RefusedWrongly[b.of[1]] = {}

\* What the search finds is a chunk of a document as it is now, unless the vector was
\* written after its chunk had gone, its document is gone or has had no text since an
\* import, or its text was seen by the vision model.
VectorsHaveTheirChunk ==
  \A id \in DOMAIN vectors :
    \/ IsChunk(id, vectors[id]) \/ <<id, vectors[id]>> \in strayed
    \/ DocOf(id) \notin DOMAIN docs
    \/ docs[DocOf(id)] = NoText \/ docs[DocOf(id)][1] = "seen"
=============================================================================
