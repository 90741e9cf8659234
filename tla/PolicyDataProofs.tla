-------------------------- MODULE PolicyDataProofs --------------------------
(***************************************************************************)
(* Proofs about PolicyData and UserRecords, for any policies, details,     *)
(* extractions, files and calls: what is stored has its type and refers to *)
(* what there is, rules have one source, what the search finds is a chunk  *)
(* as it is now or a known exception, and users' records are unique.       *)
(***************************************************************************)
EXTENDS UserRecords, ReadingProofs, SequenceTheorems

(***************************************************************************)
(* The types of the administrative data.                                   *)
(***************************************************************************)
\* The policies that have been imported; none is ever deleted.
Imported == {p \in Policies : live[p] # 0}

\* What a call may have to do, by its op and the policies there are.
Tasks(op, I) ==
  CASE op = "profiles"      -> I \X DOMAIN Details
    [] op = "rules"         -> I \X DOMAIN Extractions
    [] op = "detail_chunks" -> I \X (Texts \ {NoText})
    [] op = "references"    -> Nat \X (DOMAIN Downloads \ {None})
    [] op = "vision"        -> Nat \X (DOMAIN Downloads \ {None})
    [] op = "embeddings"    -> Nat \X (Texts \ {NoText})
    [] OTHER                -> Policies

JobFields == {"op", "todo", "writing", "doomed", "url", "got"}

\* A call at work has something to do; one that has read a file knows which.
JobTyped(j, I) ==
  /\ DOMAIN j = JobFields
  /\ j.todo \in Seq(Tasks(j.op, I)) /\ (j.op # None => j.todo # <<>>)
  /\ j.op \in {"references", "vision"} /\ j.url # None => j.got \in DOMAIN Contents

CallTyped(c) ==
  /\ c.policy \in Policies /\ c.limit \in Nat /\ DOMAIN c.page \subseteq Policies
  /\ \A p \in DOMAIN c.page : c.page[p] \in DOMAIN Lists

JobsInv ==
  /\ job = [id \in CallIds |-> job[id]]
  /\ \A id \in CallIds : JobTyped(job[id], Imported)
  /\ \A c \in pending : CallTyped(c)

RawInv ==
  /\ DOMAIN raw \subseteq Policies
  /\ \A p \in DOMAIN raw : raw[p] \in RawRow(p)

\* What is derived from a policy is there only after its import.
PolicyInv ==
  /\ \A p \in Policies : live[p] \in {0} \cup Editions[p]
  /\ profile = [p \in Policies |-> profile[p]] /\ rules = [p \in Policies |-> rules[p]]
  /\ \A p \in Policies : profile[p] # 0 => p \in Imported /\ profile[p] \in DOMAIN Extractions
  /\ \A p \in Policies : rules[p] # {} => p \in Imported
  /\ \A p \in Policies : DOMAIN templates[p] \subseteq 100..299
  /\ \A p \in Policies : DOMAIN templates[p] # {} => p \in Imported

\* A document is made of a policy's detail, or is a form of the detail imported last.
DocInv ==
  \A doc \in DOMAIN docs :
    /\ docs[doc] \in Texts
    /\ \E p \in Imported : doc = DetailDoc(p) \/ doc \in ReferenceDocs(p, live[p])

VectorInv == \A id \in DOMAIN vectors : vectors[id] \in Texts \ {NoText}

DataInv == RawInv /\ PolicyInv /\ DocInv /\ VectorInv /\ JobsInv

(***************************************************************************)
(* Numbers.                                                                *)
(***************************************************************************)
\* The positions of a policy's documents and templates.
Places == 0..9999
PlaceOf(doc) == doc % 10000

LEMMA DocNumber ==
  ASSUME NEW p \in Policies, NEW n \in Places
  PROVE  DocId(p, n) \in Nat /\ PolicyOf(DocId(p, n)) = p /\ PlaceOf(DocId(p, n)) = n
<1>1. n \in Nat /\ n < 10000 BY DEF Places
<1>2. p \in Nat BY PortalAssumption
<1>3. p * 10000 + n \in Nat BY ONLY <1>1, <1>2
<1>4. (p * 10000 + n) \div 10000 = p BY ONLY <1>1, <1>2
<1>5. (p * 10000 + n) % 10000 = n BY ONLY <1>1, <1>2
<1> QED BY <1>3, <1>4, <1>5 DEF DocId, PolicyOf, PlaceOf

LEMMA ChunkNumber ==
  ASSUME NEW doc \in Nat, NEW text \in Texts, NEW id \in ChunkIds(doc, text)
  PROVE  id \in Nat /\ DocOf(id) = doc
<1> DEFINE m == ChunkCount(text)
<1>1. \E i \in 1..m : id = doc * 10000 + (i - 1) BY DEF ChunkIds
<1> HIDE DEF m
<1>2. m \in Nat /\ m <= 10000 BY ONLY ChunkAssumption, text \in Texts DEF m
<1> PICK i \in 1..m : id = doc * 10000 + (i - 1) BY <1>1
<1> DEFINE n == i - 1
<1>3. n \in Nat /\ n < 10000 BY <1>2
<1>4. id = doc * 10000 + n OBVIOUS
<1> HIDE DEF n
<1>5. doc * 10000 + n \in Nat BY ONLY doc \in Nat, <1>3
<1>6. (doc * 10000 + n) \div 10000 = doc BY ONLY doc \in Nat, <1>3
<1> QED BY <1>4, <1>5, <1>6 DEF DocOf

LEMMA FewPlaces == IsFiniteSet(Places)
<1> DEFINE n == 9999
<1>1. n \in Int /\ Places = 0..n BY DEF Places
<1> HIDE DEF n
<1> QED BY <1>1, FS_Interval

LEMMA SequenceType ==
  ASSUME NEW T, NEW n \in Nat, NEW f, f = [i \in 1..n |-> f[i]], \A i \in 1..n : f[i] \in T
  PROVE  f \in Seq(T)
OBVIOUS

\* Whoever is found in a finite order by the number of those before him is of it.
LEMMA RankedType ==
  ASSUME NEW S, IsFiniteSet(S), NEW B \in [S -> SUBSET S],
         \A p \in S : p \notin B[p],
         \A p \in S : \A q \in B[p] : B[q] \subseteq B[p],
         \A p, q \in S : p = q \/ q \in B[p] \/ p \in B[q],
         NEW m \in Nat, m <= Cardinality(S), NEW f, f = [i \in 1..m |-> f[i]],
         \A i \in 1..m : (\E p \in S : Cardinality(B[p]) = i - 1) => f[i] \in S
  PROVE  f \in Seq(S)
<1>1. \A k \in 0..(Cardinality(S) - 1) : \E p \in S : Cardinality(B[p]) = k BY Ranking
<1>2. Cardinality(S) \in Nat BY FS_CardinalityType
<1>3. ASSUME NEW i \in 1..m PROVE f[i] \in S
  <2>1. i - 1 \in 0..(Cardinality(S) - 1) BY <1>2
  <2> QED BY <1>1, <2>1
<1> QED BY <1>3, SequenceType

\* The first n of a finite set of numbers are a sequence of its members.
LEMMA FirstType ==
  ASSUME NEW S, IsFiniteSet(S), NEW n \in Nat
  PROVE  S \subseteq Int => First(S, n) \in Seq(S)
<1> DEFINE N == Cardinality(S)
           B == [x \in S |-> {y \in S : y < x}]
           m == IF N < n THEN N ELSE n
           f == First(S, n)
<1>a. SUFFICES ASSUME S \subseteq Int PROVE f \in Seq(S) OBVIOUS
<1>0. N \in Nat BY FS_CardinalityType
<1>1. m \in Nat /\ m <= Cardinality(S) BY <1>0
<1>2. f = [i \in 1..m |-> CHOOSE x \in S : Cardinality({y \in S : y < x}) = i - 1] BY DEF First
<1>3. f = [i \in 1..m |-> f[i]] BY <1>2
<1>4. \A i \in 1..m : (\E x \in S : Cardinality({y \in S : y < x}) = i - 1) => f[i] \in S BY <1>2
<1>5. B \in [S -> SUBSET S] OBVIOUS
<1>6. \A x \in S : B[x] = {y \in S : y < x} OBVIOUS
<1> HIDE DEF B, f, m, N
<1>7. \A i \in 1..m : (\E x \in S : Cardinality(B[x]) = i - 1) => f[i] \in S BY <1>4, <1>6
<1>8. \A x, y \in S : y \in B[x] <=> y < x BY <1>6
<1>9. \A x \in S : B[x] \subseteq S BY <1>6
<1>10. \A p \in S : p \notin B[p] BY <1>a, <1>8
<1>11. \A p \in S : \A q \in B[p] : B[q] \subseteq B[p]
  <2> SUFFICES ASSUME NEW p \in S, NEW q \in B[p], NEW r \in B[q] PROVE r \in B[p] OBVIOUS
  <2>1. q \in S BY <1>9
  <2>2. r \in S BY <1>9, <2>1
  <2>3. q < p /\ r < q BY <1>8, <2>1, <2>2
  <2>4. r < p BY <1>a, <2>1, <2>2, <2>3
  <2> QED BY <1>8, <2>2, <2>4
<1>12. \A p, q \in S : p = q \/ q \in B[p] \/ p \in B[q]
  <2> SUFFICES ASSUME NEW p \in S, NEW q \in S PROVE p = q \/ q < p \/ p < q BY <1>8
  <2> QED BY <1>a
<1> QED BY <1>1, <1>3, <1>5, <1>7, <1>10, <1>11, <1>12, RankedType

(***************************************************************************)
(* Jobs.                                                                   *)
(***************************************************************************)
LEMMA TypedStays ==
  ASSUME NEW I, NEW J, I \subseteq J, NEW j, JobTyped(j, I) PROVE JobTyped(j, J)
<1>1. Tasks(j.op, I) \subseteq Tasks(j.op, J) BY DEF Tasks
<1>2. j.todo \in Seq(Tasks(j.op, I)) BY DEF JobTyped
<1> DEFINE S == Tasks(j.op, I)
           T == Tasks(j.op, J)
           s == j.todo
<1>3. s \in Seq(T)
  <2> HIDE DEF S, T, s
  <2> QED BY <1>1, <1>2 DEF S, T, s
<1> QED BY <1>3 DEF JobTyped

LEMMA IdleTyped == ASSUME NEW I PROVE JobTyped(Idle, I)
BY DEF JobTyped, Idle, JobFields, None

LEMMA NewJobTyped ==
  ASSUME NEW I, NEW op, NEW todo \in Seq(Tasks(op, I)) PROVE JobTyped(Job(op, todo), I)
<1>1. CASE todo = <<>> BY <1>1, IdleTyped DEF Job
<1>2. CASE todo # <<>>
  <2> DEFINE j == [Idle EXCEPT !.op = op, !.todo = todo]
  <2>1. /\ DOMAIN j = JobFields /\ j.op = op /\ j.todo = todo /\ j.url = None
    BY DEF Idle, JobFields
  <2>2. Job(op, todo) = j BY <1>2 DEF Job
  <2> HIDE DEF j
  <2> QED BY <1>2, <2>1, <2>2 DEF JobTyped
<1> QED BY <1>1, <1>2

LEMMA OnwardTyped ==
  ASSUME NEW I, NEW id, JobTyped(job[id], I), job[id].op # None
  PROVE  Current(id) \in Tasks(job[id].op, I) /\ JobTyped(Onward(id), I)
<1> DEFINE T == Tasks(job[id].op, I)
           s == job[id].todo
<1>1. s \in Seq(T) /\ s # <<>> BY DEF JobTyped
<1> HIDE DEF T, s
<1>2. Head(s) \in T /\ Tail(s) \in Seq(T) BY <1>1, HeadTailProperties
<1> QED BY <1>2, NewJobTyped DEF Current, Onward, T, s

LEMMA NextUrlTyped ==
  ASSUME NEW I, NEW id, JobTyped(job[id], I)
  PROVE  JobTyped(NextUrl(id), I)
<1> DEFINE s == job[id].todo
           T == Tasks(job[id].op, I)
           S == SameUrl(id)
<1>1. s \in Seq(T) BY DEF JobTyped
<1>2. S \in SUBSET (1..Len(s)) BY <1>1 DEF SameUrl
<1> HIDE DEF S, T, s
<1>3. IsFiniteSet(1..Len(s)) BY <1>1, FS_Interval
<1>4. IsFiniteSet(S) BY <1>2, <1>3, FS_Subset
<1>5. Cardinality(S) \in Nat BY <1>4, FS_CardinalityType
<1> DEFINE k == Cardinality(S) + 1
<1>6. k \in Nat /\ k >= 1 /\ Len(s) \in Nat BY <1>1, <1>5
<1> HIDE DEF k
<1>7. \A i \in k..Len(s) : s[i] \in T BY <1>1, <1>6
<1>8. SubSeq(s, k, Len(s)) \in Seq(T) BY <1>1, <1>6, <1>7, SubSeqProperties
<1> QED BY <1>8, NewJobTyped DEF NextUrl, S, k, s, T

LEMMA WritingTyped ==
  ASSUME NEW I, NEW j, JobTyped(j, I), NEW d
  PROVE  JobTyped([j EXCEPT !.writing = TRUE, !.doomed = d], I)
<1> DEFINE k == [j EXCEPT !.writing = TRUE, !.doomed = d]
<1>1. /\ DOMAIN k = JobFields /\ k.op = j.op /\ k.todo = j.todo /\ k.url = j.url /\ k.got = j.got
  BY DEF JobTyped, JobFields
<1> HIDE DEF k
<1>2. JobTyped(k, I) BY <1>1 DEF JobTyped
<1> QED BY <1>2 DEF k

LEMMA ReadingTyped ==
  ASSUME NEW I, NEW j, JobTyped(j, I), NEW url, NEW got \in DOMAIN Contents
  PROVE  JobTyped([j EXCEPT !.url = url, !.got = got], I)
<1> DEFINE k == [j EXCEPT !.url = url, !.got = got]
<1>1. /\ DOMAIN k = JobFields /\ k.op = j.op /\ k.todo = j.todo /\ k.url = url /\ k.got = got
  BY DEF JobTyped, JobFields
<1> HIDE DEF k
<1>2. JobTyped(k, I) BY <1>1 DEF JobTyped
<1> QED BY <1>2 DEF k

\* One call makes a step that leaves it well typed.
LEMMA GoTyped ==
  ASSUME JobsInv, Imported \subseteq Imported', NEW id, NEW j, JobTyped(j, Imported'), Go(id, j)
  PROVE  JobsInv'
<1>1. job' = [job EXCEPT ![id] = j] /\ pending' = pending BY DEF Go
<1>2. job' = [k \in CallIds |-> job'[k]] BY <1>1 DEF JobsInv
<1>3. \A k \in CallIds : job'[k] = IF k = id THEN j ELSE job[k] BY <1>1 DEF JobsInv
<1>4. \A k \in CallIds : JobTyped(job[k], Imported') BY TypedStays DEF JobsInv
<1>5. \A k \in CallIds : JobTyped(job'[k], Imported') BY <1>3, <1>4
<1> QED BY <1>1, <1>2, <1>5 DEF JobsInv

LEMMA MakeTyped ==
  ASSUME JobsInv, Imported \subseteq Imported', NEW c, NEW todo,
         todo \in Seq(Tasks(c.op, Imported')), Make(c, todo)
  PROVE  JobsInv'
<1> DEFINE j == Job(c.op, todo)
<1>1. job' = [job EXCEPT ![c.id] = j] /\ pending' \subseteq pending BY DEF Make
<1>2. JobTyped(j, Imported') BY NewJobTyped
<1> HIDE DEF j
<1>3. job' = [k \in CallIds |-> job'[k]] BY <1>1 DEF JobsInv
<1>4. \A k \in CallIds : job'[k] = IF k = c.id THEN j ELSE job[k] BY <1>1 DEF JobsInv
<1>5. \A k \in CallIds : JobTyped(job[k], Imported') BY TypedStays DEF JobsInv
<1>6. \A k \in CallIds : JobTyped(job'[k], Imported') BY <1>2, <1>4, <1>5
<1> QED BY <1>1, <1>3, <1>6 DEF JobsInv

LEMMA NothingToDo == \A T : <<>> \in Seq(T)
OBVIOUS

(***************************************************************************)
(* What is imported stays imported.                                        *)
(***************************************************************************)
\* A row that may be imported has a list entry and a detail of its policy.
LEMMA ImportableRow ==
  ASSUME RawInv, NEW p \in Importable
  PROVE  /\ p \in Policies /\ raw[p].list \in DOMAIN Lists
         /\ raw[p].detail \in Editions[p] /\ raw[p].detail \in DOMAIN Details /\ raw[p].detail # 0
<1>1. p \in DOMAIN raw /\ raw[p].list # 0 /\ raw[p].detail # 0 BY DEF Importable, Complete
<1>2. p \in Policies /\ raw[p] \in RawRow(p) BY <1>1 DEF RawInv
<1>3. raw[p].list \in {0} \cup DOMAIN Lists /\ raw[p].detail \in {0} \cup Editions[p]
  BY <1>2 DEF RawRow
<1> QED BY <1>1, <1>2, <1>3, PortalAssumption

LEMMA LiveIsEdition ==
  ASSUME PolicyInv, NEW p \in Imported
  PROVE  /\ p \in Policies /\ p \in Nat /\ live[p] \in Editions[p] /\ live[p] \in DOMAIN Details
<1>1. p \in Policies /\ live[p] # 0 BY DEF Imported
<1>2. live[p] \in Editions[p] BY <1>1 DEF PolicyInv
<1> QED BY <1>1, <1>2, PortalAssumption

\* A document's number tells its policy, and whether it is a form.
LEMMA DocPolicy ==
  ASSUME PolicyInv, NEW p \in Imported, NEW doc,
         doc = DetailDoc(p) \/ doc \in ReferenceDocs(p, live[p])
  PROVE  /\ doc \in Nat /\ PolicyOf(doc) = p /\ \E n \in Places : doc = DocId(p, n)
         /\ IsReference(doc) => /\ (doc % 10000) - 3000 \in DOMAIN Details[live[p]].forms
                                /\ doc \in ReferenceDocs(p, live[p])
<1>0. p \in Policies /\ live[p] \in DOMAIN Details BY LiveIsEdition
<1>1. CASE doc = DetailDoc(p)
  <2>1. doc = DocId(p, 9000) /\ 9000 \in Places BY <1>1 DEF DetailDoc, Places
  <2>2. doc \in Nat /\ PolicyOf(doc) = p /\ PlaceOf(doc) = 9000 BY <1>0, <2>1, DocNumber
  <2> QED BY <2>1, <2>2 DEF IsReference, PlaceOf
<1>2. CASE doc \in ReferenceDocs(p, live[p])
  <2>1. PICK i \in DOMAIN Details[live[p]].forms : doc = DocId(p, 3000 + i)
    BY <1>2 DEF ReferenceDocs, ReferenceForms
  <2>2. i \in 1..99 BY ONLY <1>0, i \in DOMAIN Details[live[p]].forms, PortalAssumption
  <2> DEFINE n == 3000 + i
  <2>3. n \in Places /\ n - 3000 = i /\ doc = DocId(p, n) BY <2>1, <2>2 DEF Places
  <2> HIDE DEF n
  <2>4. doc \in Nat /\ PolicyOf(doc) = p /\ PlaceOf(doc) = n BY <1>0, <2>3, DocNumber
  <2> QED BY <1>2, <2>1, <2>3, <2>4 DEF PlaceOf
<1> QED BY <1>1, <1>2

\* Policies are finitely many, and so are those of any of them.
LEMMA FewPolicies ==
  ASSUME NEW S, S \subseteq Policies PROVE IsFiniteSet(S) /\ S \subseteq Int
<1>1. S \in SUBSET Policies /\ IsFiniteSet(Policies) /\ Policies \subseteq Int BY PortalAssumption
<1> QED BY <1>1, FS_Subset

(***************************************************************************)
(* Fetching.                                                               *)
(***************************************************************************)
LEMMA RowTyped ==
  ASSUME NEW p, NEW list \in {0} \cup DOMAIN Lists, NEW d \in {0} \cup Editions[p],
         NEW status \in {"PENDING", "COMPLETED", "FAILED"}, status = "COMPLETED" => d # 0
  PROVE  Row(list, d, status) \in RawRow(p)
BY DEF Row, RawRow

LEMMA RowList == ASSUME NEW p, NEW row \in RawRow(p) PROVE row.list \in {0} \cup DOMAIN Lists
BY DEF RawRow

\* What the steps that fetch leave of a row.
LEMMA RelistedTyped ==
  ASSUME NEW p, NEW row \in RawRow(p), NEW list \in DOMAIN Lists
  PROVE  [row EXCEPT !.list = list] \in RawRow(p)
BY DEF RawRow

LEMMA FailedTyped ==
  ASSUME NEW p, NEW row \in RawRow(p) PROVE [row EXCEPT !.status = "FAILED"] \in RawRow(p)
BY DEF RawRow

LEMMA DetailedTyped ==
  ASSUME RawInv, NEW p \in Policies, NEW d \in Editions[p] PROVE WithDetail(p, d) \in RawRow(p)
<1>1. d # 0 BY PortalAssumption
<1>2. CASE p \in DOMAIN raw
  <2>1. raw[p].list \in {0} \cup DOMAIN Lists BY <1>2, RowList DEF RawInv
  <2> QED BY <1>1, <1>2, <2>1, RowTyped DEF WithDetail
<1>3. CASE p \notin DOMAIN raw BY <1>1, <1>3, RowTyped DEF WithDetail
<1> QED BY <1>2, <1>3

LEMMA ListedTyped ==
  ASSUME RawInv, NEW p \in Policies, NEW list \in DOMAIN Lists PROVE WithList(p, list) \in RawRow(p)
<1>1. CASE p \in DOMAIN raw BY <1>1, RelistedTyped DEF RawInv, WithList
<1>2. CASE p \notin DOMAIN raw
  <2>1. Row(list, 0, "PENDING") \in RawRow(p) BY RowTyped
  <2> QED BY <1>2, <2>1 DEF WithList, ListRow
<1> QED BY <1>1, <1>2

\* While the policies are as they were, what is derived from them is.
LEMMA PoliciesSame ==
  ASSUME DataInv, UNCHANGED <<live, profile, rules, templates>> PROVE PolicyInv' /\ Imported' = Imported
BY DEF DataInv, PolicyInv, Imported

LEMMA DocsSame ==
  ASSUME DataInv, UNCHANGED <<live, docs, vectors>> PROVE DocInv' /\ VectorInv'
BY DEF DataInv, DocInv, VectorInv, Imported

LEMMA FetchTypes == ASSUME DataInv, Fetch PROVE DataInv'
<1>0. PolicyInv' /\ Imported' = Imported /\ DocInv' /\ VectorInv'
  BY PoliciesSame, DocsSame DEF Fetch
<1>1. ASSUME NEW c \in pending, SaveList(c) PROVE RawInv' /\ JobsInv'
  <2>1. /\ raw' = [p \in DOMAIN raw \cup DOMAIN c.page |->
                     IF p \in DOMAIN c.page THEN WithList(p, c.page[p]) ELSE raw[p]]
        /\ Make(c, <<>>)
    BY <1>1 DEF SaveList
  <2>2. DOMAIN c.page \subseteq Policies /\ \A p \in DOMAIN c.page : c.page[p] \in DOMAIN Lists
    BY DEF DataInv, JobsInv, CallTyped
  <2>3. RawInv'
    <3>1. \A p \in DOMAIN c.page : WithList(p, c.page[p]) \in RawRow(p)
      BY <2>2, ListedTyped DEF DataInv
    <3> QED BY <2>1, <2>2, <3>1 DEF DataInv, RawInv
  <2> QED BY <1>0, <2>1, <2>3, MakeTyped, NothingToDo DEF DataInv
<1>2. ASSUME NEW c \in pending, SaveDetail(c) PROVE RawInv' /\ JobsInv'
  <2>1. PICK d \in Editions[c.policy] :
          raw' = [p \in DOMAIN raw \cup {c.policy} |-> IF p = c.policy THEN WithDetail(p, d) ELSE raw[p]]
    BY <1>2 DEF SaveDetail
  <2>2. Make(c, <<>>) BY <1>2 DEF SaveDetail
  <2>3. c.policy \in Policies BY DEF DataInv, JobsInv, CallTyped
  <2>4. RawInv'
    <3>1. WithDetail(c.policy, d) \in RawRow(c.policy) BY <2>1, <2>3, DetailedTyped DEF DataInv
    <3> QED BY <2>1, <2>3, <3>1 DEF DataInv, RawInv
  <2> QED BY <1>0, <2>2, <2>4, MakeTyped, NothingToDo DEF DataInv
<1>3. ASSUME NEW c \in Calls("save_pending"), PendingStart(c) PROVE RawInv' /\ JobsInv'
  <2>1. PICK S \in SUBSET {p \in DOMAIN raw : raw[p].status = "PENDING"} : Make(c, First(S, c.limit))
    BY <1>3 DEF PendingStart
  <2>2. c.op = "save_pending" /\ c.limit \in Nat BY DEF Calls, DataInv, JobsInv, CallTyped
  <2>3. S \subseteq Policies BY DEF DataInv, RawInv
  <2>4. First(S, c.limit) \in Seq(S) BY <2>2, <2>3, FewPolicies, FirstType
  <2>5. First(S, c.limit) \in Seq(Policies) BY <2>3, <2>4
  <2>6. Tasks(c.op, Imported') = Policies BY <2>2 DEF Tasks
  <2>7. JobsInv' BY <1>0, <2>1, <2>5, <2>6, MakeTyped DEF DataInv
  <2> QED BY <1>3, <2>7 DEF PendingStart, DataInv, RawInv
<1>4. ASSUME NEW id, PendingFinish(id) PROVE RawInv' /\ JobsInv'
  <2> DEFINE fetched == ValuesOf(job[id].todo)
  <2>1. PICK got \in [fetched -> {0} \cup DOMAIN Details] :
          /\ \A p \in fetched : got[p] \in {0} \cup Editions[p]
          /\ raw' = [p \in DOMAIN raw |->
                       IF p \notin fetched THEN raw[p]
                       ELSE IF got[p] = 0 THEN [raw[p] EXCEPT !.status = "FAILED"]
                       ELSE WithDetail(p, got[p])]
          /\ Go(id, Idle)
    BY <1>4 DEF PendingFinish
  <2> HIDE DEF fetched
  <2>2. DOMAIN raw' = DOMAIN raw BY <2>1
  <2>3. ASSUME NEW p \in DOMAIN raw PROVE raw'[p] \in RawRow(p)
    <3>1. p \in Policies /\ raw[p] \in RawRow(p) BY DEF DataInv, RawInv
    <3>2. CASE p \notin fetched BY <2>1, <3>1, <3>2
    <3>3. CASE p \in fetched /\ got[p] = 0 BY <2>1, <3>1, <3>3, FailedTyped
    <3>4. CASE p \in fetched /\ got[p] # 0 BY <2>1, <3>1, <3>4, DetailedTyped DEF DataInv
    <3> QED BY <3>2, <3>3, <3>4
  <2>4. RawInv' BY <2>2, <2>3 DEF DataInv, RawInv
  <2> QED BY <1>0, <2>1, <2>4, GoTyped, IdleTyped DEF DataInv
<1> QED BY <1>0, <1>1, <1>2, <1>3, <1>4 DEF Fetch, Calls, DataInv

(***************************************************************************)
(* The import.                                                             *)
(***************************************************************************)
\* Steps and forms are numbered below three hundred.
LEMMA ItemNumbers ==
  ASSUME NEW d \in DOMAIN Details PROVE DOMAIN ChecklistItems(Details[d]) \subseteq 100..299
<1> DEFINE S == {j \in DOMAIN Details[d].steps : Details[d].steps[j] # None}
           R == RequiredForms(Details[d])
           A == {100 + i : i \in S}
           B == {200 + i : i \in R}
<1>1. S \subseteq 1..99 /\ R \subseteq 1..99 BY PortalAssumption DEF RequiredForms
<1>2. DOMAIN ChecklistItems(Details[d]) = A \cup B BY DEF ChecklistItems
<1>3. \A n \in A : \E i \in S : n = 100 + i OBVIOUS
<1>4. \A n \in B : \E i \in R : n = 200 + i OBVIOUS
<1> HIDE DEF S, R, A, B
<1>5. \A i \in 1..99 : 100 + i \in 100..299 /\ 200 + i \in 100..299 OBVIOUS
<1>6. \A n \in A \cup B : n \in 100..299 BY ONLY <1>1, <1>3, <1>4, <1>5
<1> QED BY ONLY <1>2, <1>6

LEMMA ImportedGrows ==
  ASSUME DataInv, [Next]_vars PROVE Imported \subseteq Imported'
<1>1. CASE Import
  <2>1. live' = ImportedPolicies BY <1>1 DEF Import
  <2>2. \A p \in Importable : raw[p].detail # 0 BY ImportableRow DEF DataInv
  <2> QED BY <2>1, <2>2 DEF ImportedPolicies, ImportedDetail, Imported
<1>2. CASE ~Import
  <2>1. live' = live
    BY <1>2 DEF Next, DataNext, Fetch, Profiling, RuleIngesting, Documents, Embedding, Abandon,
       UserCall, vars, dataVars
  <2> QED BY <2>1 DEF Imported
<1> QED BY <1>1, <1>2

LEMMA ImportTypes == ASSUME DataInv, Import PROVE DataInv'
<1>1. PICK c \in pending : /\ live' = ImportedPolicies /\ docs' = ImportedDocs
                           /\ rules' = ImportedRules(c) /\ templates' = ImportedTemplates
                           /\ Make(c, <<>>) /\ UNCHANGED <<raw, profile, vectors, strayed>>
  BY DEF Import, Calls
<1>2. \A p \in Importable : /\ p \in Policies /\ raw[p].detail \in Editions[p] /\ raw[p].detail # 0
                            /\ raw[p].detail \in DOMAIN Details
  BY ImportableRow DEF DataInv
<1>3. /\ \A p \in Importable : live'[p] = raw[p].detail
      /\ \A p \in Policies \ Importable : live'[p] = live[p]
  BY <1>1, <1>2 DEF ImportedPolicies, ImportedDetail
<1>4. Imported \subseteq Imported' /\ Importable \subseteq Imported'
  BY <1>2, <1>3 DEF Imported
<1>5. RawInv' /\ VectorInv' BY <1>1 DEF DataInv, RawInv, VectorInv
<1>6. JobsInv' BY <1>1, <1>4, MakeTyped, NothingToDo DEF DataInv
<1>7. PolicyInv'
  <2>1. \A p \in Policies : live'[p] \in {0} \cup Editions[p]
    BY <1>2, <1>3 DEF DataInv, PolicyInv
  <2>2. /\ profile' = [p \in Policies |-> profile'[p]]
        /\ \A p \in Policies : profile'[p] # 0 => p \in Imported' /\ profile'[p] \in DOMAIN Extractions
    BY <1>1, <1>4 DEF DataInv, PolicyInv
  <2>3. rules' = [p \in Policies |-> rules'[p]] BY <1>1 DEF ImportedRules
  <2>4. \A p \in Policies : rules'[p] # {} => p \in Imported'
    <3>1. \A p \in Policies \ Importable : rules'[p] = rules[p] BY <1>1 DEF ImportedRules
    <3> QED BY <1>4, <3>1 DEF DataInv, PolicyInv
  <2>5. ASSUME NEW p \in Policies
        PROVE  DOMAIN templates'[p] \subseteq 100..299 /\ (DOMAIN templates'[p] # {} => p \in Imported')
    <3>1. CASE p \notin Importable
      <4>1. templates'[p] = templates[p] BY <1>1, <3>1 DEF ImportedTemplates
      <4> QED BY <1>4, <4>1 DEF DataInv, PolicyInv
    <3>2. CASE p \in Importable
      <4>1. DOMAIN templates'[p] = DOMAIN templates[p] \cup DOMAIN ChecklistItems(Details[raw[p].detail])
        BY <1>1, <3>2 DEF ImportedTemplates
      <4>2. DOMAIN ChecklistItems(Details[raw[p].detail]) \subseteq 100..299
        BY <1>2, <3>2, ItemNumbers
      <4> QED BY <1>4, <3>2, <4>1, <4>2 DEF DataInv, PolicyInv
    <3> QED BY <3>1, <3>2
  <2> QED BY <2>1, <2>2, <2>3, <2>4, <2>5 DEF PolicyInv
<1>8. DocInv'
  <2> SUFFICES ASSUME NEW doc \in DOMAIN docs'
               PROVE  /\ docs'[doc] \in Texts
                      /\ \E p \in Imported' : doc = DetailDoc(p) \/ doc \in ReferenceDocs(p, live'[p])
    BY DEF DocInv
  <2> DEFINE made == UNION {ReferenceDocs(p, raw[p].detail) : p \in Importable}
  <2>1. CASE doc \in made
    <3>1. docs'[doc] = NoText BY <1>1, <2>1 DEF ImportedDocs
    <3>2. PICK p \in Importable : doc \in ReferenceDocs(p, raw[p].detail) BY <2>1
    <3> QED BY <1>3, <1>4, <3>1, <3>2 DEF Texts
  <2>2. CASE doc \notin made
    <3>1. doc \in DOMAIN docs /\ PolicyOf(doc) \notin Importable /\ docs'[doc] = docs[doc]
      BY <1>1, <2>2 DEF ImportedDocs
    <3>2. docs[doc] \in Texts BY <3>1 DEF DataInv, DocInv
    <3>3. PICK p \in Imported : doc = DetailDoc(p) \/ doc \in ReferenceDocs(p, live[p])
      BY <3>1 DEF DataInv, DocInv
    <3>4. PolicyOf(doc) = p BY <3>3, DocPolicy DEF DataInv
    <3>5. p \in Policies /\ live'[p] = live[p] BY <1>3, <3>1, <3>4 DEF Imported
    <3> QED BY <1>4, <3>1, <3>2, <3>3, <3>5
  <2> QED BY <2>1, <2>2
<1> QED BY <1>5, <1>6, <1>7, <1>8 DEF DataInv

(***************************************************************************)
(* Profiles and rules.                                                     *)
(***************************************************************************)
LEMMA ProfilingTypes == ASSUME DataInv, Profiling PROVE DataInv'
<1>0. Imported' = Imported /\ RawInv' /\ DocInv' /\ VectorInv'
  BY DocsSame DEF Profiling, Imported, DataInv, RawInv
<1>1. ASSUME NEW c \in Calls("profiles"), ProfileStart(c) PROVE PolicyInv' /\ JobsInv'
  <2> DEFINE targets == {p \in Importable : live[p] # 0 /\ (c.rebuild \/ profile[p] = 0)}
             s == First(targets, c.limit)
             todo == With(s, LAMBDA p : raw[p].detail)
  <2>1. Make(c, todo) /\ profile' = profile BY <1>1 DEF ProfileStart
  <2>2. c.op = "profiles" /\ c.limit \in Nat BY DEF Calls, DataInv, JobsInv, CallTyped
  <2>3. \A p \in targets : p \in Policies /\ p \in Imported /\ raw[p].detail \in DOMAIN Details
    BY ImportableRow DEF DataInv, Imported
  <2>4. todo = [i \in DOMAIN s |-> <<s[i], raw[s[i]].detail>>] BY DEF With
  <2> HIDE DEF targets, s, todo
  <2>5. targets \subseteq Policies BY <2>3
  <2>6. s \in Seq(targets) BY <2>2, <2>5, FewPolicies, FirstType DEF s
  <2>7. todo \in Seq(Imported \X DOMAIN Details) BY <2>3, <2>4, <2>6
  <2>8. Tasks(c.op, Imported') = Imported \X DOMAIN Details BY <1>0, <2>2 DEF Tasks
  <2>9. JobsInv' BY <1>0, <2>1, <2>7, <2>8, MakeTyped DEF DataInv
  <2> QED BY <2>1, <2>9, PoliciesSame DEF Profiling
<1>2. ASSUME NEW id \in Busy("profiles"), ProfileStep(id) PROVE PolicyInv' /\ JobsInv'
  <2>1. Go(id, Onward(id)) BY <1>2 DEF ProfileStep
  <2>2. id \in CallIds /\ job[id].op = "profiles" /\ job[id].op # None BY DEF Busy, None
  <2>3. JobTyped(job[id], Imported) BY <2>2 DEF DataInv, JobsInv
  <2>4. Current(id) \in Tasks("profiles", Imported) /\ JobTyped(Onward(id), Imported)
    BY <2>2, <2>3, OnwardTyped
  <2>5. Current(id) \in Imported \X DOMAIN Details BY <2>4 DEF Tasks
  <2>6. JobsInv' BY <1>0, <2>1, <2>4, GoTyped DEF DataInv
  <2>7. PolicyInv'
    <3>1. CASE profile' = profile BY <3>1, PoliciesSame DEF Profiling
    <3>2. CASE profile' # profile
      <4> DEFINE p == Current(id)[1]
                 d == Current(id)[2]
      <4>1. PICK x \in Readings[d] : profile' = [profile EXCEPT ![p] = x] BY <1>2, <3>2 DEF ProfileStep
      <4>2. p \in Imported /\ d \in DOMAIN Details BY <2>5
      <4> HIDE DEF p, d
      <4>3. x \in DOMAIN Extractions BY <4>1, <4>2, PortalAssumption
      <4>4. /\ profile' = [q \in Policies |-> profile'[q]]
            /\ \A q \in Policies : profile'[q] = IF q = p THEN x ELSE profile[q]
        BY <4>1 DEF DataInv, PolicyInv
      <4>5. \A q \in Policies : profile'[q] # 0 => q \in Imported /\ profile'[q] \in DOMAIN Extractions
        BY <4>2, <4>3, <4>4 DEF DataInv, PolicyInv
      <4> QED BY <1>0, <4>4, <4>5 DEF DataInv, PolicyInv, Profiling
    <3> QED BY <3>1, <3>2
  <2> QED BY <2>6, <2>7
<1> QED BY <1>0, <1>1, <1>2 DEF Profiling, DataInv

LEMMA RuleIngestingTypes == ASSUME DataInv, RuleIngesting PROVE DataInv'
<1>0. Imported' = Imported /\ RawInv' /\ DocInv' /\ VectorInv'
  BY DocsSame DEF RuleIngesting, Imported, DataInv, RawInv
<1>1. ASSUME NEW c \in Calls("rules"), RulesStart(c) PROVE PolicyInv' /\ JobsInv'
  <2> DEFINE targets == {p \in Policies : /\ profile[p] # 0 /\ live[p] # 0
                                          /\ c.rebuild \/ ByProfile(p) = {}}
             s == First(targets, c.limit)
             todo == With(s, LAMBDA p : profile[p])
  <2>1. Make(c, todo) /\ rules' = rules BY <1>1 DEF RulesStart
  <2>2. c.op = "rules" /\ c.limit \in Nat BY DEF Calls, DataInv, JobsInv, CallTyped
  <2>3. \A p \in targets : p \in Policies /\ p \in Imported /\ profile[p] \in DOMAIN Extractions
    BY DEF DataInv, PolicyInv
  <2>4. todo = [i \in DOMAIN s |-> <<s[i], profile[s[i]]>>] BY DEF With
  <2> HIDE DEF targets, s, todo
  <2>5. targets \subseteq Policies BY <2>3
  <2>6. s \in Seq(targets) BY <2>2, <2>5, FewPolicies, FirstType DEF s
  <2>7. todo \in Seq(Imported \X DOMAIN Extractions) BY <2>3, <2>4, <2>6
  <2>8. Tasks(c.op, Imported') = Imported \X DOMAIN Extractions BY <1>0, <2>2 DEF Tasks
  <2>9. JobsInv' BY <1>0, <2>1, <2>7, <2>8, MakeTyped DEF DataInv
  <2> QED BY <2>1, <2>9, PoliciesSame DEF RuleIngesting
<1>2. ASSUME NEW id \in Busy("rules")
      PROVE  /\ JobTyped(job[id], Imported) /\ JobTyped(Onward(id), Imported)
             /\ Current(id)[1] \in Imported
  <2>1. id \in CallIds /\ job[id].op = "rules" /\ job[id].op # None BY DEF Busy, None
  <2>2. JobTyped(job[id], Imported) BY <2>1 DEF DataInv, JobsInv
  <2>3. Current(id) \in Tasks("rules", Imported) /\ JobTyped(Onward(id), Imported)
    BY <2>1, <2>2, OnwardTyped
  <2> QED BY <2>2, <2>3 DEF Tasks
<1>3. ASSUME NEW id \in Busy("rules"), RulesSkip(id) PROVE PolicyInv' /\ JobsInv'
  <2>1. Go(id, Onward(id)) /\ rules' = rules BY <1>3 DEF RulesSkip
  <2>2. JobsInv' BY <1>0, <1>2, <2>1, GoTyped DEF DataInv
  <2> QED BY <2>1, <2>2, PoliciesSame DEF RuleIngesting
<1>4. ASSUME NEW id \in Busy("rules"), RulesBegin(id) PROVE PolicyInv' /\ JobsInv'
  <2>1. /\ Go(id, [job[id] EXCEPT !.writing = TRUE, !.doomed = rules[Current(id)[1]]])
        /\ rules' = rules
    BY <1>4 DEF RulesBegin
  <2>2. JobTyped([job[id] EXCEPT !.writing = TRUE, !.doomed = rules[Current(id)[1]]], Imported)
    BY <1>2, WritingTyped
  <2>3. JobsInv' BY <1>0, <2>1, <2>2, GoTyped DEF DataInv
  <2> QED BY <2>1, <2>3, PoliciesSame DEF RuleIngesting
<1>5. ASSUME NEW id \in Busy("rules"), RulesCommit(id) PROVE PolicyInv' /\ JobsInv'
  <2> DEFINE p == Current(id)[1]
             left == (rules[p] \ job[id].doomed)
                       \cup {Batch("condition_profile", id, <<Current(id)[2], 0>>)}
  <2>1. Go(id, Onward(id)) /\ rules' = [rules EXCEPT ![p] = left] BY <1>5 DEF RulesCommit
  <2>2. p \in Imported BY <1>2
  <2>3. JobsInv' BY <1>0, <1>2, <2>1, GoTyped DEF DataInv
  <2> HIDE DEF p, left
  <2>4. /\ rules' = [q \in Policies |-> rules'[q]]
        /\ \A q \in Policies : q # p => rules'[q] = rules[q]
    BY <2>1 DEF DataInv, PolicyInv
  <2>5. \A q \in Policies : rules'[q] # {} => q \in Imported BY <2>2, <2>4 DEF DataInv, PolicyInv
  <2> QED BY <1>0, <2>3, <2>4, <2>5 DEF DataInv, PolicyInv, RuleIngesting
<1> QED BY <1>0, <1>1, <1>3, <1>4, <1>5 DEF RuleIngesting, DataInv
(***************************************************************************)
(* Documents.                                                              *)
(***************************************************************************)
\* Documents are finitely many.
LEMMA FewDocs ==
  ASSUME PolicyInv, DocInv PROVE IsFiniteSet(DOMAIN docs) /\ DOMAIN docs \subseteq Nat
<1> DEFINE S == Policies \X Places
           f == [x \in S |-> DocId(x[1], x[2])]
           T == {f[x] : x \in S}
<1>1. IsFiniteSet(Places) BY FewPlaces
<1>2. IsFiniteSet(Policies) BY PortalAssumption
<1>3. IsFiniteSet(S) BY <1>1, <1>2, FS_Product
<1>4. f \in Surjection(S, T) BY DEF Surjection
<1>5. IsFiniteSet(T)
  <2> HIDE DEF f, S, T
  <2> QED BY <1>3, <1>4, FS_Surjection
<1>6. ASSUME NEW doc \in DOMAIN docs PROVE doc \in T /\ doc \in Nat
  <2>1. PICK p \in Imported : doc = DetailDoc(p) \/ doc \in ReferenceDocs(p, live[p]) BY DEF DocInv
  <2>2. p \in Policies BY LiveIsEdition
  <2>3. PICK n \in Places : doc = DocId(p, n) BY <2>1, DocPolicy
  <2>4. <<p, n>> \in S /\ f[<<p, n>>] = doc BY <2>2, <2>3
  <2>5. doc \in Nat BY <2>1, DocPolicy
  <2> HIDE DEF S, f
  <2> QED BY <2>4, <2>5
<1> HIDE DEF T
<1>7. DOMAIN docs \in SUBSET T BY <1>6
<1> QED BY <1>5, <1>6, <1>7, FS_Subset

LEMMA FormUrl ==
  ASSUME PolicyInv, DocInv, NEW doc \in DOMAIN docs, IsReference(doc)
  PROVE  Form(doc).url \in {None} \cup DOMAIN Downloads
<1>1. PICK p \in Imported : doc = DetailDoc(p) \/ doc \in ReferenceDocs(p, live[p]) BY DEF DocInv
<1>2. PolicyOf(doc) = p /\ (doc % 10000) - 3000 \in DOMAIN Details[live[p]].forms BY <1>1, DocPolicy
<1>3. live[p] \in DOMAIN Details BY LiveIsEdition
<1>4. Details[live[p]].forms[(doc % 10000) - 3000].url \in {None} \cup DOMAIN Downloads
  BY <1>2, <1>3, PortalAssumption
<1> QED BY <1>2, <1>4 DEF Form

LEMMA WithType ==
  ASSUME NEW s, NEW S, s \in Seq(S), NEW T, NEW t, t = [i \in DOMAIN s |-> t[i]],
         \A i \in DOMAIN s : s[i] \in S => t[i] \in T
  PROVE  t \in Seq(T)
<1>1. DOMAIN s = 1..Len(s) /\ Len(s) \in Nat /\ \A i \in 1..Len(s) : s[i] \in S OBVIOUS
<1>2. t = [i \in 1..Len(s) |-> t[i]] /\ \A i \in 1..Len(s) : t[i] \in T BY <1>1
<1> QED BY <1>1, <1>2, SequenceType

\* Whatever is to be read has a URL that may be fetched.
LEMMA TargetsTyped ==
  ASSUME PolicyInv, DocInv, NEW c, c.limit \in Nat
  PROVE  With(ReferenceTargets(c), LAMBDA doc : Form(doc).url) \in Seq(Nat \X (DOMAIN Downloads \ {None}))
<1> DEFINE open == {doc \in DOMAIN docs : IsReference(doc) /\ (c.rebuild \/ docs[doc] = NoText)}
           named == {doc \in open : Form(doc).url # None /\ Form(doc).pdf}
           leads(doc) == \A e \in named : Form(e).url = Form(doc).url => doc <= e
           L == {doc \in named : leads(doc)}
           leaders == ValuesOf(First(L, c.limit))
           shares(doc, l) == Form(doc).url = Form(l).url
           S == {doc \in open : \E l \in leaders : shares(doc, l)}
           leader(doc) == CHOOSE l \in leaders : shares(doc, l)
           before(doc) == {e \in S : \/ leader(e) < leader(doc)
                                     \/ leader(e) = leader(doc) /\ e < doc}
           m == Cardinality(S)
           s == ReferenceTargets(c)
<1>1. s = [i \in 1..m |-> CHOOSE doc \in S : Cardinality(before(doc)) = i - 1]
  BY DEF ReferenceTargets
<1>2. \A doc \in S : doc \in open /\ \E l \in leaders : shares(doc, l) OBVIOUS
<1>3. leaders \subseteq L
  <2>1. IsFiniteSet(L) /\ L \subseteq Int
    <3>1. L \in SUBSET DOMAIN docs OBVIOUS
    <3> HIDE DEF L
    <3> QED BY <3>1, FewDocs, FS_Subset
  <2> HIDE DEF L
  <2>2. First(L, c.limit) \in Seq(L) BY <2>1, FirstType
  <2> QED BY <2>2 DEF ValuesOf
<1>4. leaders \subseteq DOMAIN docs /\ \A l \in leaders : Form(l).url # None BY <1>3
<1>5. \A doc \in open : doc \in DOMAIN docs /\ IsReference(doc) OBVIOUS
<1> HIDE DEF open, leaders
<1>6. \A doc \in S : leader(doc) \in leaders /\ shares(doc, leader(doc)) BY <1>2
<1>7. \A doc \in S : leader(doc) \in Int BY <1>4, <1>6, FewDocs
<1>8. \A doc \in S : doc \in Nat /\ Form(doc).url \in DOMAIN Downloads \ {None}
  BY <1>2, <1>4, <1>5, <1>6, FormUrl, FewDocs
<1>9. S \in SUBSET DOMAIN docs BY <1>2, <1>5
<1> HIDE DEF S, leader, shares
<1>10. IsFiniteSet(S) BY <1>9, FewDocs, FS_Subset
<1>11. m \in Nat /\ m <= Cardinality(S) BY <1>10, FS_CardinalityType
<1> DEFINE B == [doc \in S |-> before(doc)]
<1>12. B \in [S -> SUBSET S] OBVIOUS
<1>13. \A x, y \in S : y \in B[x] <=> leader(y) < leader(x) \/ (leader(y) = leader(x) /\ y < x) OBVIOUS
<1>14. \A doc \in S : B[doc] = before(doc) /\ B[doc] \subseteq S OBVIOUS
<1>15. s = [i \in 1..m |-> s[i]] BY <1>1
<1>16. \A i \in 1..m : (\E doc \in S : Cardinality(before(doc)) = i - 1) => s[i] \in S BY <1>1
<1> HIDE DEF B, s, m, before
<1>17. \A i \in 1..m : (\E doc \in S : Cardinality(B[doc]) = i - 1) => s[i] \in S BY <1>14, <1>16
<1>18. \A p \in S : p \notin B[p] BY <1>7, <1>8, <1>13
<1>19. \A p \in S : \A q \in B[p] : B[q] \subseteq B[p]
  <2> SUFFICES ASSUME NEW p \in S, NEW q \in B[p], NEW r \in B[q] PROVE r \in B[p] OBVIOUS
  <2>1. q \in S /\ r \in S BY <1>14
  <2> DEFINE a == leader(p)
             b == leader(q)
             d == leader(r)
  <2>2. a \in Int /\ b \in Int /\ d \in Int /\ p \in Int /\ q \in Int /\ r \in Int BY <1>7, <1>8, <2>1
  <2>3. (b < a \/ (b = a /\ q < p)) /\ (d < b \/ (d = b /\ r < q)) BY <1>13, <2>1
  <2> HIDE DEF a, b, d
  <2>4. d < a \/ (d = a /\ r < p) BY ONLY <2>2, <2>3
  <2> QED BY <1>13, <2>1, <2>4 DEF a, d
<1>20. \A p, q \in S : p = q \/ q \in B[p] \/ p \in B[q]
  <2> SUFFICES ASSUME NEW p \in S, NEW q \in S PROVE p = q \/ q \in B[p] \/ p \in B[q] OBVIOUS
  <2> DEFINE a == leader(p)
             b == leader(q)
  <2>1. a \in Int /\ b \in Int /\ p \in Int /\ q \in Int BY <1>7, <1>8
  <2>2. /\ (b < a \/ (b = a /\ q < p)) => q \in B[p]
        /\ (a < b \/ (a = b /\ p < q)) => p \in B[q]
    BY <1>13
  <2> HIDE DEF a, b
  <2> QED BY <2>1, <2>2
<1>21. s \in Seq(S)
  BY <1>10, <1>11, <1>12, <1>15, <1>17, <1>18, <1>19, <1>20, RankedType
<1> DEFINE todo == With(s, LAMBDA doc : Form(doc).url)
<1>22. todo = [i \in DOMAIN s |-> <<s[i], Form(s[i]).url>>] BY DEF With
<1> HIDE DEF todo
<1>23. todo = [i \in DOMAIN s |-> todo[i]] BY <1>22
<1>24. \A i \in DOMAIN s : s[i] \in S => todo[i] \in Nat \X (DOMAIN Downloads \ {None}) BY <1>8, <1>22
<1>25. todo \in Seq(Nat \X (DOMAIN Downloads \ {None})) BY <1>21, <1>23, <1>24, WithType
<1> QED BY <1>25 DEF todo, s
LEMMA ReplaceTyped ==
  ASSUME DocInv, live' = live, Imported' = Imported, NEW doc, NEW text \in Texts, Replace(doc, text),
         \E p \in Imported : doc = DetailDoc(p) \/ doc \in ReferenceDocs(p, live[p])
  PROVE  DocInv'
<1> SUFFICES ASSUME NEW d \in DOMAIN docs'
             PROVE  /\ docs'[d] \in Texts
                    /\ \E p \in Imported' : d = DetailDoc(p) \/ d \in ReferenceDocs(p, live'[p])
  BY DEF DocInv
<1>1. d \in DOMAIN docs \cup {doc} /\ docs'[d] = IF d = doc THEN text ELSE docs[d] BY DEF Replace
<1>2. CASE d = doc BY <1>1, <1>2
<1>3. CASE d # doc BY <1>1, <1>3 DEF DocInv
<1> QED BY <1>2, <1>3

LEMMA WithoutTyped ==
  ASSUME VectorInv, NEW doc, vectors' = Without(doc) PROVE VectorInv'
BY DEF VectorInv, Without

LEMMA DocumentsTypes == ASSUME DataInv, Documents PROVE DataInv'
<1>0. /\ Imported' = Imported /\ live' = live /\ RawInv' /\ PolicyInv'
      /\ (UNCHANGED <<docs, vectors>> => DocInv' /\ VectorInv')
  BY DocsSame, PoliciesSame DEF Documents, DataInv, RawInv
<1>1. ASSUME NEW c \in Calls("detail_chunks"), DetailStart(c) PROVE DocInv' /\ VectorInv' /\ JobsInv'
  <2> DEFINE targets == {p \in Policies : /\ profile[p] # 0 /\ live[p] # 0
                                          /\ c.rebuild \/ DetailDoc(p) \notin DOMAIN docs}
             s == First(targets, c.limit)
             text(p) == <<"detail", profile[p], live[p]>>
             todo == With(s, LAMBDA p : <<"detail", profile[p], live[p]>>)
  <2>1. Make(c, todo) /\ UNCHANGED <<docs, vectors>> BY <1>1 DEF DetailStart
  <2>2. c.op = "detail_chunks" /\ c.limit \in Nat BY DEF Calls, DataInv, JobsInv, CallTyped
  <2>3. \A p \in targets : p \in Policies /\ p \in Imported /\ text(p) \in Texts \ {NoText}
    <3> SUFFICES ASSUME NEW p \in targets
                 PROVE  p \in Policies /\ p \in Imported /\ text(p) \in Texts \ {NoText}
      OBVIOUS
    <3>1. p \in Policies /\ profile[p] # 0 /\ p \in Imported BY DEF Imported
    <3>2. profile[p] \in DOMAIN Extractions BY <3>1 DEF DataInv, PolicyInv
    <3>3. live[p] \in DOMAIN Details BY <3>1, LiveIsEdition DEF DataInv
    <3> QED BY <3>1, <3>2, <3>3 DEF Texts, NoText
  <2>4. todo = [i \in DOMAIN s |-> <<s[i], text(s[i])>>] BY DEF With
  <2> HIDE DEF targets, s, text, todo
  <2>5. targets \subseteq Policies BY <2>3
  <2>6. s \in Seq(targets) BY <2>2, <2>5, FewPolicies, FirstType DEF s
  <2>7. todo = [i \in DOMAIN s |-> todo[i]] BY <2>4
  <2>8. \A i \in DOMAIN s : s[i] \in targets => todo[i] \in Imported \X (Texts \ {NoText})
    BY <2>3, <2>4
  <2>9. todo \in Seq(Imported \X (Texts \ {NoText})) BY <2>6, <2>7, <2>8, WithType
  <2>10. Tasks(c.op, Imported') = Imported \X (Texts \ {NoText}) BY <1>0, <2>2 DEF Tasks
  <2>11. JobsInv' BY <1>0, <2>1, <2>9, <2>10, MakeTyped DEF DataInv
  <2> QED BY <1>0, <2>1, <2>11
<1>2. ASSUME NEW id \in Busy("detail_chunks"), DetailWrite(id) PROVE DocInv' /\ VectorInv' /\ JobsInv'
  <2> DEFINE p == Current(id)[1]
             text == Current(id)[2]
  <2>1. /\ IF ChunkCount(text) = 0 THEN UNCHANGED <<docs, vectors>>
           ELSE Replace(DetailDoc(p), text) /\ vectors' = Without(DetailDoc(p))
        /\ Go(id, Onward(id))
    BY <1>2 DEF DetailWrite
  <2>2. id \in CallIds /\ job[id].op = "detail_chunks" /\ job[id].op # None BY DEF Busy, None
  <2>3. JobTyped(job[id], Imported) BY <2>2 DEF DataInv, JobsInv
  <2>4. Current(id) \in Tasks("detail_chunks", Imported) /\ JobTyped(Onward(id), Imported)
    BY <2>2, <2>3, OnwardTyped
  <2>5. p \in Imported /\ text \in Texts BY <2>4 DEF Tasks
  <2>6. JobsInv' BY <1>0, <2>1, <2>4, GoTyped DEF DataInv
  <2> HIDE DEF p, text
  <2>7. CASE ChunkCount(text) = 0 BY <1>0, <2>1, <2>6, <2>7
  <2>8. CASE ChunkCount(text) # 0
    <3>1. Replace(DetailDoc(p), text) /\ vectors' = Without(DetailDoc(p)) BY <2>1, <2>8
    <3>2. DocInv' BY <1>0, <2>5, <3>1, ReplaceTyped DEF DataInv
    <3>3. VectorInv' BY <3>1, WithoutTyped DEF DataInv
    <3> QED BY <2>6, <3>2, <3>3
  <2> QED BY <2>7, <2>8
<1>3. ASSUME NEW c \in Calls("references") \cup Calls("vision"), ReferenceStart(c)
      PROVE  DocInv' /\ VectorInv' /\ JobsInv'
  <2> DEFINE todo == With(ReferenceTargets(c), LAMBDA doc : Form(doc).url)
  <2>1. Make(c, todo) /\ UNCHANGED <<docs, vectors>> BY <1>3 DEF ReferenceStart
  <2>2. c.op \in {"references", "vision"} /\ c.limit \in Nat
    BY DEF Calls, DataInv, JobsInv, CallTyped
  <2>3. todo \in Seq(Nat \X (DOMAIN Downloads \ {None})) BY <2>2, TargetsTyped DEF DataInv
  <2>4. Tasks(c.op, Imported') = Nat \X (DOMAIN Downloads \ {None}) BY <2>2 DEF Tasks
  <2> HIDE DEF todo
  <2>5. JobsInv' BY <1>0, <2>1, <2>3, <2>4, MakeTyped DEF DataInv
  <2> QED BY <1>0, <2>1, <2>5
<1>4. ASSUME NEW id \in Busy("references") \cup Busy("vision")
      PROVE  /\ JobTyped(job[id], Imported) /\ JobTyped(Onward(id), Imported)
             /\ JobTyped(NextUrl(id), Imported) /\ job[id].op \in {"references", "vision"}
             /\ Current(id)[2] \in DOMAIN Downloads \ {None}
  <2>1. id \in CallIds /\ job[id].op \in {"references", "vision"} /\ job[id].op # None BY DEF Busy, None
  <2>2. JobTyped(job[id], Imported) BY <2>1 DEF DataInv, JobsInv
  <2>3. Current(id) \in Tasks(job[id].op, Imported) /\ JobTyped(Onward(id), Imported)
    BY <2>1, <2>2, OnwardTyped
  <2>4. Tasks(job[id].op, Imported) = Nat \X (DOMAIN Downloads \ {None}) BY <2>1 DEF Tasks
  <2>5. JobTyped(NextUrl(id), Imported) BY <2>2, NextUrlTyped
  <2> QED BY <2>1, <2>2, <2>3, <2>4, <2>5
<1>5. ASSUME NEW id \in Busy("references") \cup Busy("vision"), ReferenceFetch(id)
      PROVE  DocInv' /\ VectorInv' /\ JobsInv'
  <2> DEFINE url == Current(id)[2]
             reading(k) == [job[id] EXCEPT !.url = url, !.got = k]
  <2>1. PICK k \in Downloads[url] : Go(id, IF Readable(job[id].op, k) THEN reading(k) ELSE NextUrl(id))
    BY <1>5 DEF ReferenceFetch
  <2>2. UNCHANGED <<docs, vectors>> BY <1>5 DEF ReferenceFetch
  <2>3. CASE Readable(job[id].op, k)
    <3>1. k \in DOMAIN Contents BY <1>4, <2>1, <2>3, PortalAssumption DEF Readable
    <3>2. JobTyped(reading(k), Imported) BY <1>4, <3>1, ReadingTyped
    <3> HIDE DEF reading
    <3>3. JobsInv' BY <1>0, <2>1, <2>3, <3>2, GoTyped DEF DataInv
    <3> QED BY <1>0, <2>2, <3>3
  <2>4. CASE ~Readable(job[id].op, k)
    <3>1. JobsInv' BY <1>0, <1>4, <2>1, <2>4, GoTyped DEF DataInv
    <3> QED BY <1>0, <2>2, <3>1
  <2> QED BY <2>3, <2>4
<1>6. ASSUME NEW id \in Busy("references") \cup Busy("vision"), ReferenceWrite(id)
      PROVE  DocInv' /\ VectorInv' /\ JobsInv'
  <2> DEFINE doc == Current(id)[1]
             text == TextOf(job[id].op, job[id].got)
             reading == [Onward(id) EXCEPT !.url = job[id].url, !.got = job[id].got]
  <2>1. job[id].got \in DOMAIN Contents
    <3>1. job[id].url # None BY <1>4, <1>6 DEF ReferenceWrite
    <3> QED BY <1>4, <3>1 DEF JobTyped
  <2>2. text \in Texts BY <2>1 DEF TextOf, Texts
  <2>3. JobTyped(reading, Imported) BY <1>4, <2>1, ReadingTyped
  <2>4. Go(id, Onward(id)) \/ Go(id, NextUrl(id)) \/ Go(id, reading) BY <1>6 DEF ReferenceWrite
  <2>5. CASE doc \in DOMAIN docs
    <3>1. Replace(doc, text) /\ (vectors' = vectors \/ vectors' = Without(doc))
      BY <1>6, <2>5 DEF ReferenceWrite
    <3>2. \E p \in Imported : doc = DetailDoc(p) \/ doc \in ReferenceDocs(p, live[p])
      BY <2>5 DEF DataInv, DocInv
    <3> HIDE DEF doc, text
    <3>3. DocInv' BY <1>0, <2>2, <3>1, <3>2, ReplaceTyped DEF DataInv
    <3>4. VectorInv'
      <4>1. CASE vectors' = vectors BY <4>1 DEF DataInv, VectorInv
      <4>2. CASE vectors' = Without(doc) BY <4>2, WithoutTyped DEF DataInv
      <4> QED BY <3>1, <4>1, <4>2
    <3> HIDE DEF reading
    <3>5. JobsInv' BY <1>0, <1>4, <2>3, <2>4, GoTyped DEF DataInv
    <3> QED BY <3>3, <3>4, <3>5
  <2>6. CASE doc \notin DOMAIN docs
    <3>1. Go(id, NextUrl(id)) /\ UNCHANGED <<docs, vectors>> BY <1>6, <2>6 DEF ReferenceWrite
    <3>2. JobsInv' BY <1>0, <1>4, <3>1, GoTyped DEF DataInv
    <3> QED BY <1>0, <3>1, <3>2
  <2> QED BY <2>5, <2>6
<1> QED BY <1>0, <1>1, <1>2, <1>3, <1>5, <1>6 DEF Documents, DataInv

(***************************************************************************)
(* Vectors.                                                                *)
(***************************************************************************)
\* A chunk belongs to a document that has a text.
LEMMA ChunkTyped ==
  ASSUME PolicyInv, DocInv, NEW id \in Chunks
  PROVE  id \in Nat /\ DocOf(id) \in DOMAIN docs /\ docs[DocOf(id)] \in Texts \ {NoText}
<1>1. PICK doc \in DOMAIN docs : id \in ChunkIds(doc, docs[doc]) BY DEF Chunks
<1>2. doc \in Nat /\ docs[doc] \in Texts BY FewDocs DEF DocInv
<1>3. id \in Nat /\ DocOf(id) = doc BY <1>1, <1>2, ChunkNumber
<1>4. docs[doc] # NoText
  <2> SUFFICES ASSUME docs[doc] = NoText PROVE FALSE OBVIOUS
  <2>1. ChunkCount(docs[doc]) = 0 BY DEF ChunkCount
  <2> QED BY <1>1, <2>1 DEF ChunkIds
<1> QED BY <1>2, <1>3, <1>4

LEMMA FewChunks == ASSUME PolicyInv, DocInv PROVE IsFiniteSet(Chunks)
<1> DEFINE D == DOMAIN docs
           f == [doc \in D |-> ChunkIds(doc, docs[doc])]
           W == {ChunkIds(doc, docs[doc]) : doc \in D}
<1>1. f \in Surjection(D, W) BY DEF Surjection
<1>2. IsFiniteSet(D) BY FewDocs
<1>3. IsFiniteSet(W)
  <2> HIDE DEF f, W, D
  <2> QED BY <1>1, <1>2, FS_Surjection
<1>4. ASSUME NEW doc \in D PROVE IsFiniteSet(ChunkIds(doc, docs[doc]))
  <2> DEFINE m == ChunkCount(docs[doc])
             g == [i \in 1..m |-> doc * 10000 + i - 1]
             T == {doc * 10000 + i - 1 : i \in 1..m}
  <2>1. g \in Surjection(1..m, T) BY DEF Surjection
  <2>2. m \in Nat
    <3> DEFINE text == docs[doc]
    <3>1. text \in Texts BY DEF DocInv
    <3> HIDE DEF text
    <3>2. ChunkCount(text) \in Nat BY ONLY <3>1, ChunkAssumption
    <3> QED BY <3>2 DEF text
  <2> HIDE DEF m
  <2>3. IsFiniteSet(1..m)
    <3>1. m \in Int BY <2>2
    <3> QED BY <3>1, FS_Interval
  <2> HIDE DEF g, T
  <2>4. IsFiniteSet(T) BY <2>1, <2>3, FS_Surjection
  <2> QED BY <2>4 DEF T, m, ChunkIds
<1>5. Chunks = UNION W BY DEF Chunks
<1> HIDE DEF D
<1>6. \A T \in W : IsFiniteSet(T) BY <1>4
<1> HIDE DEF W
<1> QED BY <1>3, <1>5, <1>6, FS_UNION

LEMMA EmbeddingTypes == ASSUME DataInv, Embedding PROVE DataInv'
<1>0. Imported' = Imported /\ RawInv' /\ PolicyInv' /\ DocInv'
  BY PoliciesSame DEF Embedding, DataInv, RawInv, DocInv
<1>1. ASSUME NEW c \in Calls("embeddings"), EmbedStart(c) PROVE VectorInv' /\ JobsInv'
  <2> DEFINE ofType(id) == c.source = "ALL" \/ (c.source = "POLICY_REFERENCE") = IsReference(DocOf(id))
             targets == {id \in Chunks : ofType(id) /\ (id \in DOMAIN vectors => vectors[id] # docs[DocOf(id)])}
             s == First(targets, c.limit)
             todo == With(s, LAMBDA id : docs[DocOf(id)])
  <2>1. Make(c, todo) /\ vectors' = vectors BY <1>1 DEF EmbedStart
  <2>2. c.op = "embeddings" /\ c.limit \in Nat BY DEF Calls, DataInv, JobsInv, CallTyped
  <2>3. targets \in SUBSET Chunks OBVIOUS
  <2>4. todo = [i \in DOMAIN s |-> <<s[i], docs[DocOf(s[i])]>>] BY DEF With
  <2> HIDE DEF targets, s, todo
  <2>5. IsFiniteSet(targets) BY <2>3, FewChunks, FS_Subset DEF DataInv
  <2>6. \A id \in targets : id \in Nat /\ docs[DocOf(id)] \in Texts \ {NoText}
    BY <2>3, ChunkTyped DEF DataInv
  <2>7. s \in Seq(targets) BY <2>2, <2>5, <2>6, FirstType DEF s
  <2>8. todo = [i \in DOMAIN s |-> todo[i]] BY <2>4
  <2>9. \A i \in DOMAIN s : s[i] \in targets => todo[i] \in Nat \X (Texts \ {NoText}) BY <2>4, <2>6
  <2>10. todo \in Seq(Nat \X (Texts \ {NoText})) BY <2>7, <2>8, <2>9, WithType
  <2>11. Tasks(c.op, Imported') = Nat \X (Texts \ {NoText}) BY <2>2 DEF Tasks
  <2>12. JobsInv' BY <1>0, <2>1, <2>10, <2>11, MakeTyped DEF DataInv
  <2> QED BY <2>1, <2>12 DEF DataInv, VectorInv
<1>2. ASSUME NEW id \in Busy("embeddings"), EmbedWrite(id) PROVE VectorInv' /\ JobsInv'
  <2> DEFINE todo == ValuesOf(job[id].todo)
             texts == [v \in {t[1] : t \in todo} |-> (CHOOSE t \in todo : t[1] = v)[2]]
  <2>1. /\ vectors' = [v \in DOMAIN vectors \cup DOMAIN texts |->
                         IF v \in DOMAIN texts THEN texts[v] ELSE vectors[v]]
        /\ Go(id, Idle)
    BY <1>2 DEF EmbedWrite
  <2>2. id \in CallIds /\ job[id].op = "embeddings" BY ONLY id \in Busy("embeddings") DEF Busy
  <2>3. JobTyped(job[id], Imported) BY <2>2 DEF DataInv, JobsInv
  <2>4. job[id].todo \in Seq(Nat \X (Texts \ {NoText})) BY <2>2, <2>3 DEF JobTyped, Tasks
  <2>5. \A t \in todo : t[2] \in Texts \ {NoText} BY <2>4 DEF ValuesOf
  <2>6. \A v \in DOMAIN texts : \E t \in todo : texts[v] = t[2]
    <3> SUFFICES ASSUME NEW v \in DOMAIN texts PROVE \E t \in todo : texts[v] = t[2] OBVIOUS
    <3>1. \E t \in todo : t[1] = v OBVIOUS
    <3> HIDE DEF todo
    <3> QED BY <3>1
  <2> HIDE DEF todo, texts
  <2>7. \A v \in DOMAIN texts : texts[v] \in Texts \ {NoText} BY <2>5, <2>6
  <2>8. VectorInv' BY <2>1, <2>7 DEF DataInv, VectorInv
  <2>9. JobsInv' BY <1>0, <2>1, IdleTyped, GoTyped DEF DataInv
  <2> QED BY <2>8, <2>9
<1> QED BY <1>0, <1>1, <1>2 DEF Embedding, DataInv

LEMMA AbandonTypes == ASSUME DataInv, Abandon PROVE DataInv'
<1>1. PICK id \in CallIds : Go(id, Idle) BY DEF Abandon
<1>2. UNCHANGED <<raw, live, profile, rules, docs, vectors, strayed, templates>> BY DEF Abandon
<1>3. PolicyInv' /\ Imported' = Imported /\ DocInv' /\ VectorInv' /\ RawInv'
  BY <1>2, PoliciesSame, DocsSame DEF DataInv, RawInv
<1> QED BY <1>1, <1>3, IdleTyped, GoTyped DEF DataInv

LEMMA InitTypes == ASSUME NEW s \in Scenarios, DataInit(s) PROVE DataInv
<1>1. RawInv BY ScenarioAssumption DEF DataInit, RawInv
<1>2. PolicyInv BY DEF DataInit, PolicyInv
<1>3. DocInv /\ VectorInv BY DEF DataInit, DocInv, VectorInv
<1>4. JobsInv
  <2>1. \A c \in pending : CallTyped(c) BY ScenarioAssumption DEF DataInit, CallTyped
  <2>2. job = [id \in CallIds |-> Idle] BY DEF DataInit
  <2> QED BY <2>1, <2>2, IdleTyped DEF JobsInv
<1> QED BY <1>1, <1>2, <1>3, <1>4 DEF DataInv

\* A user's call leaves the administrative data alone, and only takes a call.
LEMMA UserTypesSame ==
  ASSUME DataInv, UNCHANGED <<raw, live, profile, rules, docs, vectors, templates, job>>,
         pending' \subseteq pending
  PROVE  DataInv'
<1>1. PolicyInv' /\ Imported' = Imported /\ DocInv' /\ VectorInv' /\ RawInv'
  BY PoliciesSame, DocsSame DEF DataInv, RawInv
<1> QED BY <1>1 DEF DataInv, JobsInv

LEMMA StepTypes == DataInv /\ [Next]_vars => DataInv'
<1> SUFFICES ASSUME DataInv, [Next]_vars PROVE DataInv' OBVIOUS
<1>1. CASE DataNext
  BY <1>1, FetchTypes, ImportTypes, ProfilingTypes, RuleIngestingTypes, DocumentsTypes,
     EmbeddingTypes, AbandonTypes DEF DataNext
<1>2. CASE UserCall
  <2>1. pending' \subseteq pending BY <1>2 DEF UserCall, UserBegin, UserFinish, UserAbort
  <2> QED BY <1>2, <2>1, UserTypesSame DEF UserCall
<1>3. CASE UNCHANGED vars BY <1>3, UserTypesSame DEF vars, dataVars
<1> QED BY <1>1, <1>2, <1>3 DEF Next

LEMMA DataIsTyped == DataInv => DataTypeOK
<1> SUFFICES ASSUME DataInv PROVE DataTypeOK OBVIOUS
<1>1. \A p \in Policies :
        /\ live[p] \in {0} \cup Editions[p]
        /\ profile[p] # 0 => live[p] # 0 /\ profile[p] \in DOMAIN Extractions
        /\ rules[p] # {} \/ DOMAIN templates[p] # {} => live[p] # 0
  BY DEF DataInv, PolicyInv, Imported
<1>2. ASSUME NEW doc \in DOMAIN docs PROVE live[PolicyOf(doc)] # 0 /\ docs[doc] \in Texts
  <2>1. PICK p \in Imported : doc = DetailDoc(p) \/ doc \in ReferenceDocs(p, live[p])
    BY DEF DataInv, DocInv
  <2>2. PolicyOf(doc) = p BY <2>1, DocPolicy DEF DataInv
  <2> QED BY <2>2 DEF DataInv, DocInv, Imported
<1> QED BY <1>1, <1>2 DEF DataInv, RawInv, VectorInv, DataTypeOK

(***************************************************************************)
(* The rules of a policy.                                                  *)
(***************************************************************************)
\* A call has all its fields.
Whole(j) == {"todo", "writing", "doomed"} \subseteq DOMAIN j /\ j.writing \in BOOLEAN

\* What a call that replaces rules does not delete was inserted by calls like it:
\* no import has come between its deletion and its commit.
Replaces(id, p) ==
  job[id].writing /\ Current(id)[1] = p =>
    \A b \in rules[p] : b \in job[id].doomed \/ b.by = "condition_profile"

JobsOK == job = [id \in CallIds |-> job[id]] /\ \A id \in CallIds : Whole(job[id])

RulesInv ==
  /\ JobsOK
  /\ rules = [p \in Policies |-> rules[p]]
  /\ OneSource
  /\ \A id \in CallIds : \A p \in Policies : Replaces(id, p)

LEMMA IdleIsWhole == Whole(Idle) /\ ~Idle.writing
BY DEF Whole, Idle

LEMMA JobIsWhole ==
  ASSUME NEW op, NEW todo PROVE Whole(Job(op, todo)) /\ ~Job(op, todo).writing
<1>1. CASE todo = <<>>
  BY <1>1, IdleIsWhole DEF Job
<1>2. CASE todo # <<>>
  BY <1>2 DEF Job, Whole, Idle
<1> QED BY <1>1, <1>2

\* What changing two fields of a call leaves.
Refetched(j, u, g) == [j EXCEPT !.url = u, !.got = g]
Started(j, d) == [j EXCEPT !.writing = TRUE, !.doomed = d]

LEMMA RefetchedKeeps ==
  ASSUME NEW j, Whole(j), NEW u, NEW g
  PROVE  /\ Whole(Refetched(j, u, g)) /\ Refetched(j, u, g).writing = j.writing
         /\ Refetched(j, u, g).doomed = j.doomed /\ Refetched(j, u, g).todo = j.todo
<1> DEFINE k == Refetched(j, u, g)
<1>1. k = [j EXCEPT !.url = u, !.got = g]
  BY DEF Refetched
<1> HIDE DEF k
<1>2. Whole(k) /\ k.writing = j.writing /\ k.doomed = j.doomed /\ k.todo = j.todo
  BY <1>1 DEF Whole
<1> QED BY <1>2 DEF k

LEMMA StartedWrites ==
  ASSUME NEW j, Whole(j), NEW d
  PROVE  /\ Whole(Started(j, d)) /\ Started(j, d).writing
         /\ Started(j, d).doomed = d /\ Started(j, d).todo = j.todo
<1> DEFINE k == Started(j, d)
<1>1. k = [j EXCEPT !.writing = TRUE, !.doomed = d]
  BY DEF Started
<1> HIDE DEF k
<1>2. Whole(k) /\ k.writing /\ k.doomed = d /\ k.todo = j.todo
  BY <1>1 DEF Whole
<1> QED BY <1>2 DEF k

\* A call that begins, or goes on, and writes no rules disturbs nothing.
LEMMA QuietKeeps ==
  ASSUME RulesInv, UNCHANGED rules, NEW id, NEW j,
         job' = [job EXCEPT ![id] = j], Whole(j),
         j.writing => id \in CallIds /\ job[id].writing /\ j.doomed = job[id].doomed /\ j.todo = job[id].todo
  PROVE  RulesInv'
<1>1. \A k \in CallIds : job'[k] = IF k = id THEN j ELSE job[k]
  BY DEF RulesInv, JobsOK
<1>2. JobsOK'
  <2>1. job' = [k \in CallIds |-> job'[k]]
    BY DEF RulesInv, JobsOK
  <2>2. ASSUME NEW k \in CallIds PROVE Whole(job[k])'
    BY <1>1 DEF RulesInv, JobsOK, Whole
  <2> QED BY <2>1, <2>2 DEF JobsOK
<1>3. OneSource' /\ rules' = [p \in Policies |-> rules'[p]]
  BY DEF RulesInv, OneSource
<1>4. ASSUME NEW k \in CallIds, NEW p \in Policies PROVE Replaces(k, p)'
  <2>1. CASE k = id /\ ~j.writing
    BY <2>1, <1>1 DEF Replaces
  <2>2. CASE k = id /\ j.writing
    BY <2>2, <1>1 DEF RulesInv, Replaces, Current
  <2>3. CASE k # id
    BY <2>3, <1>1 DEF RulesInv, Replaces, Current
  <2> QED BY <2>1, <2>2, <2>3 DEF RulesInv, JobsOK, Whole
<1> QED BY <1>2, <1>3, <1>4 DEF RulesInv

LEMMA MakeKeeps ==
  ASSUME RulesInv, UNCHANGED rules, NEW c, NEW todo, Make(c, todo) PROVE RulesInv'
BY QuietKeeps, JobIsWhole DEF Make

LEMMA IdleKeeps ==
  ASSUME RulesInv, UNCHANGED rules, NEW id, Go(id, Idle) PROVE RulesInv'
BY QuietKeeps, IdleIsWhole DEF Go

LEMMA OnwardKeeps ==
  ASSUME RulesInv, UNCHANGED rules, NEW id, Go(id, Onward(id)) PROVE RulesInv'
BY QuietKeeps, JobIsWhole DEF Go, Onward

\* Only imports and rule ingests touch the rules.
LEMMA FetchKeeps == ASSUME RulesInv, Fetch PROVE RulesInv'
<1>1. ASSUME NEW c, SaveList(c) PROVE RulesInv'
  BY <1>1, MakeKeeps DEF SaveList, Fetch
<1>2. ASSUME NEW c, SaveDetail(c) PROVE RulesInv'
  BY <1>2, MakeKeeps DEF SaveDetail, Fetch
<1>3. ASSUME NEW c, PendingStart(c) PROVE RulesInv'
  BY <1>3, MakeKeeps DEF PendingStart, Fetch
<1>4. ASSUME NEW id, PendingFinish(id) PROVE RulesInv'
  BY <1>4, IdleKeeps DEF PendingFinish, Fetch
<1> QED BY <1>1, <1>2, <1>3, <1>4 DEF Fetch

\* Nobody is between deleting and inserting when an import replaces the rules.
LEMMA ImportKeeps == ASSUME RulesInv, Import PROVE RulesInv'
<1>1. PICK c \in Calls("import") : RulesUnlocked /\ rules' = ImportedRules(c) /\ Make(c, <<>>)
  BY DEF Import
<1>2. \A id \in CallIds : ~job[id].writing
  BY <1>1 DEF RulesUnlocked
<1>3. JobsOK' /\ \A id \in CallIds : ~job'[id].writing
  <2>1. Whole(Job(c.op, <<>>)) /\ ~Job(c.op, <<>>).writing
    BY JobIsWhole
  <2>2. \A id \in CallIds : job'[id] = job[id] \/ job'[id] = Job(c.op, <<>>)
    BY <1>1 DEF Make, RulesInv, JobsOK
  <2>3. job' = [id \in CallIds |-> job'[id]]
    BY <1>1 DEF Make, RulesInv, JobsOK
  <2> QED BY <1>2, <2>1, <2>2, <2>3 DEF RulesInv, JobsOK, Whole
<1>4. rules' = [p \in Policies |-> rules'[p]]
  BY <1>1 DEF ImportedRules
<1>5. OneSource'
  BY <1>1 DEF ImportedRules, OneSource, RulesInv
<1> QED BY <1>3, <1>4, <1>5 DEF RulesInv, Replaces

LEMMA ProfilingKeeps == ASSUME RulesInv, Profiling PROVE RulesInv'
<1>1. ASSUME NEW c, ProfileStart(c) PROVE RulesInv'
  BY <1>1, MakeKeeps DEF ProfileStart, Profiling
<1>2. ASSUME NEW id, ProfileStep(id) PROVE RulesInv'
  BY <1>2, OnwardKeeps DEF ProfileStep, Profiling
<1> QED BY <1>1, <1>2 DEF Profiling

\* Of the rules of the policy a call begins with, all are to be deleted.
LEMMA BeginKeeps == ASSUME RulesInv, NEW id \in CallIds, RulesBegin(id) PROVE RulesInv'
<1> DEFINE j == [job[id] EXCEPT !.writing = TRUE, !.doomed = rules[Current(id)[1]]]
<1>1. job' = [job EXCEPT ![id] = j] /\ rules' = rules
  BY DEF RulesBegin, Go
<1>2. Whole(job[id]) /\ j = Started(job[id], rules[Current(id)[1]])
  BY DEF RulesInv, JobsOK, Started
<1> HIDE DEF j
<1>3. Whole(j) /\ j.writing /\ j.doomed = rules[Current(id)[1]] /\ j.todo = job[id].todo
  BY <1>2, StartedWrites
<1>4. \A k \in CallIds : job'[k] = IF k = id THEN j ELSE job[k]
  BY <1>1 DEF RulesInv, JobsOK
<1>5. job' = [k \in CallIds |-> job'[k]]
  BY <1>1 DEF RulesInv, JobsOK
<1>6. JobsOK'
  BY <1>3, <1>4, <1>5 DEF RulesInv, JobsOK, Whole
<1>7. OneSource' /\ rules' = [p \in Policies |-> rules'[p]]
  BY <1>1 DEF RulesInv, OneSource
<1>8. ASSUME NEW k \in CallIds, NEW p \in Policies PROVE Replaces(k, p)'
  <2>1. CASE k = id
    BY <2>1, <1>1, <1>3, <1>4 DEF Replaces, Current
  <2>2. CASE k # id
    BY <2>2, <1>1, <1>4 DEF RulesInv, Replaces, Current
  <2> QED BY <2>1, <2>2
<1> QED BY <1>6, <1>7, <1>8 DEF RulesInv

\* What is left beside the inserted batch was inserted by other ingests.
LEMMA CommitKeeps == ASSUME RulesInv, NEW id \in CallIds, RulesCommit(id) PROVE RulesInv'
<1> DEFINE p == Current(id)[1]
           new == Batch("condition_profile", id, <<Current(id)[2], 0>>)
<1>1. /\ rules' = [rules EXCEPT ![p] = (rules[p] \ job[id].doomed) \cup {new}]
      /\ job[id].writing /\ job' = [job EXCEPT ![id] = Onward(id)]
  BY DEF RulesCommit, Go
<1>2. new.by = "condition_profile"
  BY DEF Batch
<1> HIDE DEF new
<1>3. Whole(Onward(id)) /\ ~Onward(id).writing
  BY JobIsWhole DEF Onward
<1>4. \A k \in CallIds : job'[k] = IF k = id THEN Onward(id) ELSE job[k]
  BY <1>1 DEF RulesInv, JobsOK
<1>5. job' = [k \in CallIds |-> job'[k]]
  BY <1>1 DEF RulesInv, JobsOK
<1>6. JobsOK'
  BY <1>3, <1>4, <1>5 DEF RulesInv, JobsOK, Whole
<1>7. /\ rules' = [q \in Policies |-> rules'[q]]
      /\ \A q \in Policies : rules'[q] = IF q = p THEN (rules[p] \ job[id].doomed) \cup {new} ELSE rules[q]
  BY <1>1 DEF RulesInv
<1>8. p \in Policies => \A b \in rules'[p] : b.by = "condition_profile"
  BY <1>1, <1>2, <1>7 DEF RulesInv, Replaces
<1>9. OneSource'
  BY <1>7, <1>8 DEF RulesInv, OneSource
<1>10. ASSUME NEW k \in CallIds, NEW q \in Policies PROVE Replaces(k, q)'
  <2>1. CASE k = id
    BY <2>1, <1>3, <1>4 DEF Replaces
  <2>2. CASE k # id /\ q = p
    BY <2>2, <1>8 DEF Replaces
  <2>3. CASE k # id /\ q # p
    BY <2>3, <1>4, <1>7 DEF RulesInv, Replaces, Current
  <2> QED BY <2>1, <2>2, <2>3
<1> QED BY <1>6, <1>7, <1>9, <1>10 DEF RulesInv

LEMMA RuleIngestingKeeps == ASSUME RulesInv, RuleIngesting PROVE RulesInv'
<1>1. ASSUME NEW c, RulesStart(c) PROVE RulesInv'
  BY <1>1, MakeKeeps DEF RulesStart
<1>2. ASSUME NEW id, RulesSkip(id) PROVE RulesInv'
  BY <1>2, OnwardKeeps DEF RulesSkip
<1> QED BY <1>1, <1>2, BeginKeeps, CommitKeeps DEF RuleIngesting, Busy

\* A call that has read a file, or goes on with it, writes no rules.
LEMMA DocumentsKeep == ASSUME RulesInv, Documents PROVE RulesInv'
<1> USE DEF Documents
<1>1. ASSUME NEW c, DetailStart(c) PROVE RulesInv'
  BY <1>1, MakeKeeps DEF DetailStart
<1>2. ASSUME NEW id, DetailWrite(id) PROVE RulesInv'
  BY <1>2, OnwardKeeps DEF DetailWrite
<1>3. ASSUME NEW c, ReferenceStart(c) PROVE RulesInv'
  BY <1>3, MakeKeeps DEF ReferenceStart
<1>4. ASSUME NEW id \in CallIds, ReferenceFetch(id) PROVE RulesInv'
  <2>1. PICK k : Go(id, IF Readable(job[id].op, k)
                        THEN [job[id] EXCEPT !.url = Current(id)[2], !.got = k] ELSE NextUrl(id))
    BY <1>4 DEF ReferenceFetch
  <2>2. CASE ~Readable(job[id].op, k)
    BY <2>1, <2>2, QuietKeeps, JobIsWhole DEF Go, NextUrl
  <2>3. CASE Readable(job[id].op, k)
    <3> DEFINE j == [job[id] EXCEPT !.url = Current(id)[2], !.got = k]
    <3>0. Whole(job[id]) /\ j = Refetched(job[id], Current(id)[2], k)
      BY DEF RulesInv, JobsOK, Refetched
    <3>2. job' = [job EXCEPT ![id] = j]
      BY <2>1, <2>3 DEF Go
    <3> HIDE DEF j
    <3>1. Whole(j) /\ j.writing = job[id].writing /\ j.doomed = job[id].doomed /\ j.todo = job[id].todo
      BY <3>0, RefetchedKeeps
    <3> QED BY <3>1, <3>2, QuietKeeps
  <2> QED BY <2>2, <2>3
<1>5. ASSUME NEW id \in CallIds, ReferenceWrite(id) PROVE RulesInv'
  <2> DEFINE j == [Onward(id) EXCEPT !.url = job[id].url, !.got = job[id].got]
  <2>1. Go(id, Onward(id)) \/ Go(id, NextUrl(id)) \/ Go(id, j)
    BY <1>5 DEF ReferenceWrite
  <2>2. CASE Go(id, NextUrl(id))
    BY <2>2, QuietKeeps, JobIsWhole DEF Go, NextUrl
  <2>3. CASE Go(id, j)
    <3>1. Whole(Onward(id)) /\ ~Onward(id).writing
      BY JobIsWhole DEF Onward
    <3>3. j = Refetched(Onward(id), job[id].url, job[id].got)
      BY DEF Refetched
    <3> HIDE DEF j
    <3>2. Whole(j) /\ ~j.writing
      BY <3>1, <3>3, RefetchedKeeps
    <3> QED BY <2>3, <3>2, QuietKeeps DEF Go
  <2> QED BY <2>1, <2>2, <2>3, OnwardKeeps
<1> QED BY <1>1, <1>2, <1>3, <1>4, <1>5 DEF Busy

LEMMA EmbeddingKeeps == ASSUME RulesInv, Embedding PROVE RulesInv'
<1>1. ASSUME NEW c, EmbedStart(c) PROVE RulesInv'
  BY <1>1, MakeKeeps DEF EmbedStart, Embedding
<1>2. ASSUME NEW id, EmbedWrite(id) PROVE RulesInv'
  BY <1>2, IdleKeeps DEF EmbedWrite, Embedding
<1> QED BY <1>1, <1>2 DEF Embedding

LEMMA AbandonKeeps == ASSUME RulesInv, Abandon PROVE RulesInv'
BY IdleKeeps DEF Abandon

LEMMA InitRules == Init => RulesInv
BY IdleIsWhole DEF Init, DataInit, RulesInv, JobsOK, OneSource, Replaces

LEMMA StepRules == RulesInv /\ [Next]_vars => RulesInv'
<1> SUFFICES ASSUME RulesInv, [Next]_vars PROVE RulesInv'
  OBVIOUS
<1>1. CASE DataNext
  BY <1>1, FetchKeeps, ImportKeeps, ProfilingKeeps, RuleIngestingKeeps, DocumentsKeep,
     EmbeddingKeeps, AbandonKeeps DEF DataNext
<1>2. CASE UserCall \/ UNCHANGED vars
  <2>1. rules' = rules /\ job' = job
    BY <1>2 DEF UserCall, vars, dataVars
  <2> QED BY <2>1 DEF RulesInv, JobsOK, OneSource, Replaces, Current
<1> QED BY <1>1, <1>2 DEF Next

\* The rules of a policy are never those of an import and of a profile at once,
\* however imports and rule ingests overlap.
THEOREM RulesHaveOneSource == Spec => []OneSource
<1>1. RulesInv => OneSource
  BY DEF RulesInv
<1> QED BY InitRules, StepRules, <1>1, PTL DEF Spec

(***************************************************************************)
(* What the search finds.  The invariant is inductive as it stands.        *)
(***************************************************************************)
\* What may be said of one vector.
Explained(id) ==
  \/ IsChunk(id, vectors[id]) \/ <<id, vectors[id]>> \in strayed
  \/ DocOf(id) \notin DOMAIN docs
  \/ docs[DocOf(id)] = NoText \/ docs[DocOf(id)][1] = "seen"

\* While its document stays what it is, a vector keeps its explanation.
LEMMA ExplainedStays ==
  ASSUME NEW id, Explained(id), vectors'[id] = vectors[id], strayed \subseteq strayed',
         DocOf(id) \in DOMAIN docs' => DocOf(id) \in DOMAIN docs /\ docs'[DocOf(id)] = docs[DocOf(id)]
  PROVE  Explained(id)'
BY DEF Explained, IsChunk, ChunkIds, DocOf

\* With its text a document loses its vectors.
LEMMA ReplacedKeeps ==
  ASSUME VectorsHaveTheirChunk, NEW doc, NEW text, Replace(doc, text), vectors' = Without(doc),
         UNCHANGED strayed
  PROVE  VectorsHaveTheirChunk'
<1> SUFFICES ASSUME NEW id \in DOMAIN vectors' PROVE Explained(id)'
  BY DEF VectorsHaveTheirChunk, Explained
<1>1. id \in DOMAIN vectors /\ DocOf(id) # doc /\ vectors'[id] = vectors[id]
  BY DEF Without
<1>2. Explained(id)
  BY <1>1 DEF VectorsHaveTheirChunk, Explained
<1>3. DocOf(id) \in DOMAIN docs' => DocOf(id) \in DOMAIN docs /\ docs'[DocOf(id)] = docs[DocOf(id)]
  BY <1>1 DEF Replace
<1> QED BY <1>1, <1>2, <1>3, ExplainedStays

LEMMA SameKeeps ==
  ASSUME VectorsHaveTheirChunk, UNCHANGED <<docs, vectors, strayed>> PROVE VectorsHaveTheirChunk'
BY DEF VectorsHaveTheirChunk, IsChunk, ChunkIds

\* The documents an import makes have no text, and those it deletes are gone.
LEMMA ImportExplains == ASSUME VectorsHaveTheirChunk, Import PROVE VectorsHaveTheirChunk'
<1> SUFFICES ASSUME NEW id \in DOMAIN vectors' PROVE Explained(id)'
  BY DEF VectorsHaveTheirChunk, Explained
<1>1. docs' = ImportedDocs /\ vectors' = vectors /\ strayed' = strayed
  BY DEF Import
<1>2. Explained(id)
  BY <1>1 DEF VectorsHaveTheirChunk, Explained
<1>3. CASE DocOf(id) \notin DOMAIN docs'
  BY <1>3 DEF Explained, DocOf
<1>4. CASE DocOf(id) \in DOMAIN docs' /\ docs'[DocOf(id)] = NoText
  BY <1>4 DEF Explained, DocOf
<1>5. CASE DocOf(id) \in DOMAIN docs' /\ docs'[DocOf(id)] # NoText
  <2>1. DocOf(id) \in DOMAIN docs /\ docs'[DocOf(id)] = docs[DocOf(id)]
    BY <1>1, <1>5 DEF ImportedDocs
  <2> QED BY <1>1, <1>2, <2>1, ExplainedStays
<1> QED BY <1>3, <1>4, <1>5

LEMMA DocumentsExplain == ASSUME VectorsHaveTheirChunk, Documents PROVE VectorsHaveTheirChunk'
<1> USE DEF Documents
<1>1. ASSUME NEW c, DetailStart(c) PROVE VectorsHaveTheirChunk'
  BY <1>1, SameKeeps DEF DetailStart
<1>2. ASSUME NEW id, DetailWrite(id) PROVE VectorsHaveTheirChunk'
  BY <1>2, SameKeeps, ReplacedKeeps DEF DetailWrite
<1>3. ASSUME NEW c, ReferenceStart(c) PROVE VectorsHaveTheirChunk'
  BY <1>3, SameKeeps DEF ReferenceStart
<1>4. ASSUME NEW id, ReferenceFetch(id) PROVE VectorsHaveTheirChunk'
  BY <1>4, SameKeeps DEF ReferenceFetch
<1>5. ASSUME NEW id, ReferenceWrite(id) PROVE VectorsHaveTheirChunk'
  <2> DEFINE doc == Current(id)[1]
             text == TextOf(job[id].op, job[id].got)
  <2>1. CASE doc \notin DOMAIN docs
    BY <1>5, <2>1, SameKeeps DEF ReferenceWrite
  <2>2. CASE doc \in DOMAIN docs /\ job[id].op # "vision"
    <3>1. Replace(doc, text) /\ vectors' = Without(doc) /\ strayed' = strayed
      BY <1>5, <2>2 DEF ReferenceWrite
    <3> QED BY <3>1, ReplacedKeeps
  <2>3. CASE doc \in DOMAIN docs /\ job[id].op = "vision"
    <3>1. Replace(doc, text) /\ vectors' = vectors /\ strayed' = strayed
      BY <1>5, <2>3 DEF ReferenceWrite
    <3>2. text[1] = "seen"
      BY <2>3 DEF TextOf
    <3> HIDE DEF text, doc
    <3> SUFFICES ASSUME NEW v \in DOMAIN vectors' PROVE Explained(v)'
      BY DEF VectorsHaveTheirChunk, Explained
    <3>3. CASE DocOf(v) = doc
      <4>1. docs'[DocOf(v)] = text
        BY <3>1, <3>3 DEF Replace
      <4>2. docs'[DocOf(v)][1] = "seen"
        BY <3>2, <4>1
      <4> QED BY <4>2 DEF Explained, DocOf
    <3>4. CASE DocOf(v) # doc
      <4>1. Explained(v)
        BY <3>1 DEF VectorsHaveTheirChunk, Explained
      <4>2. DocOf(v) \in DOMAIN docs' => DocOf(v) \in DOMAIN docs /\ docs'[DocOf(v)] = docs[DocOf(v)]
        BY <3>1, <3>4 DEF Replace
      <4> QED BY <3>1, <4>1, <4>2, ExplainedStays
    <3> QED BY <3>3, <3>4
  <2> QED BY <2>1, <2>2, <2>3
<1> QED BY <1>1, <1>2, <1>3, <1>4, <1>5

\* What is written is a chunk as it is now, or counted as strayed.
LEMMA EmbeddingExplains == ASSUME VectorsHaveTheirChunk, Embedding PROVE VectorsHaveTheirChunk'
<1>1. ASSUME NEW c, EmbedStart(c) PROVE VectorsHaveTheirChunk'
  BY <1>1, SameKeeps DEF EmbedStart, Embedding
<1>2. ASSUME NEW id, EmbedWrite(id) PROVE VectorsHaveTheirChunk'
  <2> DEFINE todo == ValuesOf(job[id].todo)
             texts == [v \in {t[1] : t \in todo} |-> (CHOOSE t \in todo : t[1] = v)[2]]
  <2>1. /\ vectors' = [v \in DOMAIN vectors \cup DOMAIN texts |->
                         IF v \in DOMAIN texts THEN texts[v] ELSE vectors[v]]
        /\ strayed' = strayed \cup {<<t[1], t[2]>> : t \in {u \in todo : ~IsChunk(u[1], u[2])}}
        /\ docs' = docs
    BY <1>2 DEF EmbedWrite, Embedding
  <2> SUFFICES ASSUME NEW v \in DOMAIN vectors' PROVE Explained(v)'
    BY DEF VectorsHaveTheirChunk, Explained
  <2>2. CASE v \in DOMAIN texts
    <3>1. PICK t \in todo : t[1] = v /\ texts[v] = t[2]
      BY <2>2
    <3>2. vectors'[v] = t[2]
      BY <2>1, <2>2, <3>1
    <3>3. CASE IsChunk(t[1], t[2])
      <4>1. docs' = docs
        BY <2>1
      <4>2. IsChunk(v, t[2])
        BY <3>1, <3>3
      <4>3. IsChunk(v, t[2])'
        BY <4>1, <4>2 DEF IsChunk, ChunkIds, DocOf
      <4>4. IsChunk(v, vectors[v])'
        BY <3>2, <4>3
      <4> QED BY <4>4 DEF Explained
    <3>4. CASE ~IsChunk(t[1], t[2])
      <4>1. <<t[1], t[2]>> \in strayed'
        BY <2>1, <3>4
      <4> QED BY <3>1, <3>2, <4>1 DEF Explained
    <3> QED BY <3>3, <3>4
  <2>3. CASE v \notin DOMAIN texts
    <3>1. v \in DOMAIN vectors /\ vectors'[v] = vectors[v]
      BY <2>1, <2>3
    <3>2. Explained(v)
      BY <3>1 DEF VectorsHaveTheirChunk, Explained
    <3> QED BY <2>1, <3>1, <3>2, ExplainedStays
  <2> QED BY <2>2, <2>3
<1> QED BY <1>1, <1>2 DEF Embedding

\* A vector that the search serves belongs to a chunk as it is now, unless it was
\* written late, or its document was deleted, emptied or seen by the vision model.
THEOREM SearchFindsChunks == Spec => []VectorsHaveTheirChunk
<1>1. Init => VectorsHaveTheirChunk
  BY DEF Init, DataInit, VectorsHaveTheirChunk
<1>2. ASSUME VectorsHaveTheirChunk, [Next]_vars PROVE VectorsHaveTheirChunk'
  <2>1. CASE Fetch \/ Profiling \/ RuleIngesting \/ Abandon \/ UserCall \/ UNCHANGED vars
    BY <1>2, <2>1, SameKeeps
    DEF Fetch, Profiling, RuleIngesting, Abandon, UserCall, vars, dataVars
  <2> QED BY <1>2, <2>1, ImportExplains, DocumentsExplain, EmbeddingExplains DEF Next, DataNext
<1> QED BY <1>1, <1>2, PTL DEF Spec

(***************************************************************************)
(* The records of users.                                                   *)
(***************************************************************************)
AccountsInv ==
  \A u \in DOMAIN accounts :
    /\ {"email", "nickname"} \subseteq DOMAIN accounts[u]
    /\ \A v \in DOMAIN accounts :
         accounts[u].email = accounts[v].email \/ accounts[u].nickname = accounts[v].nickname => u = v

FamilyInv ==
  /\ \A r \in family, q \in family : r.user = q.user => r = q
  /\ \A r \in members, q \in members : r.user = q.user => r = q
  /\ \A r \in members : \E q \in family : q.user = r.user /\ q.answers["stage"] = r.stage

ProgressUnique ==
  /\ \A r \in progress, q \in progress : r.user = q.user /\ r.policy = q.policy => r = q
  /\ \A r \in progress : {"id", "user", "policy"} \subseteq DOMAIN r /\ r.policy \in Policies

ItemsUnique ==
  /\ \A i \in items, j \in items : i.progress = j.progress /\ i.template = j.template => i = j
  /\ \A i \in items : {"progress", "template"} \subseteq DOMAIN i

\* The item's template is one the policy of its checklist has had.
Anchored(i) ==
  \E r \in progress :
    /\ r.id = i.progress /\ r.policy = PolicyOf(i.template)
    /\ i.template \in {TemplateId(r.policy, n) : n \in DOMAIN templates[r.policy]}

\* One call at a time holds the lock, and what it has found is still so.
LockInv ==
  /\ \A v \in inside, w \in inside : v = w
  /\ \A v \in inside : v.found = Found(v.call) /\ v.call.policy \in Policies

RecordsInv ==
  /\ AccountsInv /\ FamilyInv /\ ProgressUnique /\ ItemsUnique /\ LockInv
  /\ \A i \in items : Anchored(i)

LEMMA RecordsFromInv == RecordsInv => RecordsAreUnique
BY DEF RecordsInv, AccountsInv, FamilyInv, ProgressUnique, ItemsUnique, Anchored, RecordsAreUnique

LEMMA InitRecords == Init => RecordsInv
<1> SUFFICES ASSUME Init PROVE RecordsInv
  OBVIOUS
<1>1. PICK s \in Scenarios : /\ DataInit(s) /\ accounts = s.accounts /\ inside = {}
                             /\ favorites = {} /\ progress = {} /\ items = {} /\ family = {} /\ members = {}
  BY DEF Init
<1>2. AccountsInv
  BY <1>1, AccountAssumption DEF AccountsInv
<1>3. FamilyInv /\ ProgressUnique /\ ItemsUnique /\ \A i \in items : Anchored(i)
  BY <1>1 DEF FamilyInv, ProgressUnique, ItemsUnique
<1>4. LockInv
  BY <1>1 DEF LockInv
<1> QED BY <1>2, <1>3, <1>4 DEF RecordsInv

\* An import keeps the positions there were.
LEMMA ImportGrows ==
  ASSUME DataNext PROVE \A p \in Policies : DOMAIN templates[p] \subseteq DOMAIN templates'[p]
<1>1. CASE Import BY <1>1 DEF Import, ImportedTemplates
<1>2. CASE ~Import
  BY <1>2 DEF DataNext, Fetch, Profiling, RuleIngesting, Documents, Embedding, Abandon
<1> QED BY <1>1, <1>2

LEMMA DataKeepsRecords == ASSUME RecordsInv, DataNext, UNCHANGED userVars PROVE RecordsInv'
<1>0. UNCHANGED <<accounts, favorites, progress, items, family, members, inside>>
  BY DEF userVars
<1>1. AccountsInv' /\ FamilyInv' /\ ProgressUnique' /\ ItemsUnique'
  BY <1>0 DEF RecordsInv, AccountsInv, FamilyInv, ProgressUnique, ItemsUnique
<1>2. LockInv'
  <2>1. \A c : Found(c)' = Found(c)
    BY <1>0 DEF Found, ProgressOf, FamilyOf, HoldsEmail, HoldsNickname
  <2> QED BY <1>0, <2>1 DEF RecordsInv, LockInv
<1>3. \A i \in items' : Anchored(i)'
  <2> SUFFICES ASSUME NEW i \in items PROVE Anchored(i)'
    BY <1>0
  <2>1. PICK r \in progress :
          /\ r.id = i.progress /\ r.policy = PolicyOf(i.template)
          /\ i.template \in {TemplateId(r.policy, n) : n \in DOMAIN templates[r.policy]}
    BY DEF RecordsInv, Anchored
  <2>2. DOMAIN templates[r.policy] \subseteq DOMAIN templates'[r.policy]
    BY ImportGrows DEF RecordsInv, ProgressUnique
  <2> QED BY <1>0, <2>1, <2>2 DEF Anchored
<1> QED BY <1>1, <1>2, <1>3 DEF RecordsInv

\* Taking the lock, or giving it back without a write.
LEMMA LockKeepsRecords ==
  ASSUME DataInv, RecordsInv,
         UNCHANGED <<templates, accounts, favorites, progress, items, family, members>>,
         \/ \E c \in pending : UserBegin(c)
         \/ \E v \in inside : UserAbort(v)
  PROVE  RecordsInv'
<1>1. \A c : Found(c)' = Found(c)
  BY DEF Found, ProgressOf, FamilyOf, HoldsEmail, HoldsNickname
<1>2. LockInv'
  <2>1. ASSUME NEW c \in pending, UserBegin(c) PROVE LockInv'
    <3>1. NobodyInside /\ pending' = pending \ {c}
      BY <2>1 DEF UserBegin
    <3>2. CASE Refuses(c)
      BY <1>1, <2>1, <3>1, <3>2 DEF UserBegin, RecordsInv, LockInv
    <3>3. CASE ~Refuses(c)
      <4>1. inside' = {[call |-> c, found |-> Found(c)]}
        BY <2>1, <3>1, <3>3 DEF UserBegin, NobodyInside
      <4>2. c.policy \in Policies
        BY DEF DataInv, JobsInv, CallTyped
      <4> QED BY <1>1, <3>1, <4>1, <4>2 DEF RecordsInv, LockInv
    <3> QED BY <3>2, <3>3
  <2>2. ASSUME NEW v \in inside, UserAbort(v) PROVE LockInv'
    BY <1>1, <2>2 DEF UserAbort, RecordsInv, LockInv
  <2> QED BY <2>1, <2>2
<1>3. AccountsInv' /\ FamilyInv' /\ ProgressUnique' /\ ItemsUnique'
  BY DEF RecordsInv, AccountsInv, FamilyInv, ProgressUnique, ItemsUnique
<1>4. \A i \in items' : Anchored(i)'
  BY DEF RecordsInv, Anchored
<1> QED BY <1>2, <1>3, <1>4 DEF RecordsInv

\* Accounts: an address and a name are looked for once more under the lock.
LEMMA AccountsKeep ==
  ASSUME AccountsInv, NEW c, SignUp(c) \/ Rename(c) \/ ChangePassword(c) PROVE AccountsInv'
<1>1. ASSUME SignUp(c) PROVE AccountsInv'
  <2> DEFINE id == 1 + Cardinality(DOMAIN accounts)
             new == [email |-> c.email, nickname |-> c.nickname, password |-> c.password]
  <2>1. CASE HoldsEmail(c.email) = {} /\ HoldsNickname(c.nickname) = {}
    <3>1. accounts' = [u \in DOMAIN accounts \cup {id} |-> IF u = id THEN new ELSE accounts[u]]
      BY <1>1, <2>1 DEF SignUp
    <3> HIDE DEF id
    <3>2. \A u \in DOMAIN accounts : accounts[u].email # new.email /\ accounts[u].nickname # new.nickname
      BY <2>1 DEF HoldsEmail, HoldsNickname
    <3>3. {"email", "nickname"} \subseteq DOMAIN new
      OBVIOUS
    <3> HIDE DEF new
    <3> QED BY <3>1, <3>2, <3>3 DEF AccountsInv
  <2>2. CASE ~(HoldsEmail(c.email) = {} /\ HoldsNickname(c.nickname) = {})
    BY <1>1, <2>2 DEF SignUp, AccountsInv
  <2> QED BY <2>1, <2>2
<1>2. ASSUME Rename(c) PROVE AccountsInv'
  <2>1. CASE HoldsNickname(c.nickname) \ {c.user} # {}
    BY <1>2, <2>1 DEF Rename, AccountsInv
  <2>2. CASE HoldsNickname(c.nickname) \ {c.user} = {}
    <3> DEFINE old == accounts[c.user]
               new == [old EXCEPT !.nickname = c.nickname]
    <3>1. accounts' = [accounts EXCEPT ![c.user] = new]
      BY <1>2, <2>2 DEF Rename
    <3>2. \A u \in DOMAIN accounts : u # c.user => accounts[u].nickname # c.nickname
      BY <2>2 DEF HoldsNickname
    <3>3. c.user \in DOMAIN accounts =>
            {"email", "nickname"} \subseteq DOMAIN old
      BY DEF AccountsInv
    <3>4. new = [old EXCEPT !.nickname = c.nickname]
      OBVIOUS
    <3>6. old = accounts[c.user]
      OBVIOUS
    <3> HIDE DEF new, old
    <3>5. c.user \in DOMAIN accounts =>
            /\ {"email", "nickname"} \subseteq DOMAIN new
            /\ new.email = old.email /\ new.nickname = c.nickname
      BY <3>3, <3>4
    <3> QED BY <3>1, <3>2, <3>5, <3>6 DEF AccountsInv
  <2> QED BY <2>1, <2>2
<1>3. ASSUME ChangePassword(c) PROVE AccountsInv'
  <2> DEFINE old == accounts[c.user]
             new == [old EXCEPT !.password = c.password]
  <2>1. accounts' = [accounts EXCEPT ![c.user] = new]
    BY <1>3 DEF ChangePassword
  <2>2. c.user \in DOMAIN accounts => {"email", "nickname"} \subseteq DOMAIN old
    BY DEF AccountsInv
  <2>3. new = [old EXCEPT !.password = c.password]
    OBVIOUS
  <2>4. old = accounts[c.user]
    OBVIOUS
  <2> HIDE DEF new, old
  <2>5. c.user \in DOMAIN accounts =>
          /\ {"email", "nickname"} \subseteq DOMAIN new
          /\ new.email = old.email /\ new.nickname = old.nickname
    BY <2>2, <2>3
  <2> QED BY <2>1, <2>4, <2>5 DEF AccountsInv
<1> QED BY <1>1, <1>2, <1>3

\* The profile that is found is the only one, and its family goes with it.
LEMMA FamilyKeeps ==
  ASSUME FamilyInv, NEW c, NEW found, found = {r.by : r \in FamilyOf(c.user)}, SaveFamily(c, found)
  PROVE  FamilyInv'
<1> DEFINE own == FamilyOf(c.user)
           new(by) == [by |-> by, user |-> c.user, answers |-> c.answers]
           others == {r \in family : r.user # c.user}
           child == [by |-> c.id, user |-> c.user, stage |-> c.answers["stage"]]
<1>1. \E by : family' = others \cup {new(by)}
  <2>1. CASE found = {}
    <3>1. own = {}
      BY <2>1
    <3>2. family' = family \cup {new(c.id)}
      BY <2>1 DEF SaveFamily
    <3>3. others = family
      BY <3>1 DEF FamilyOf
    <3> QED BY <3>2, <3>3
  <2>2. CASE found # {}
    <3>1. PICK q \in own : TRUE
      BY <2>2
    <3>2. own = {q} /\ found = {q.by}
      BY <3>1 DEF FamilyOf, FamilyInv
    <3>3. family' = (family \ {r \in own : r.by \in found}) \cup {new(b) : b \in found}
      BY <2>2 DEF SaveFamily
    <3>4. family \ {r \in own : r.by \in found} = others
      BY <3>2 DEF FamilyOf
    <3> QED BY <3>2, <3>3, <3>4
  <2> QED BY <2>1, <2>2
<1>2. members' = {m \in members : m.user # c.user} \cup {child}
  BY DEF SaveFamily
<1>3. PICK by : family' = others \cup {new(by)}
  BY <1>1
<1>4. new(by).user = c.user /\ new(by).answers = c.answers /\ child.user = c.user /\ child.stage = c.answers["stage"]
  OBVIOUS
<1> HIDE DEF new, child
<1>5. \A r \in family', q \in family' : r.user = q.user => r = q
  BY <1>3, <1>4 DEF FamilyInv
<1>6. \A r \in members', q \in members' : r.user = q.user => r = q
  BY <1>2, <1>4 DEF FamilyInv
<1>7. \A r \in members' : \E q \in family' : q.user = r.user /\ q.answers["stage"] = r.stage
  BY <1>2, <1>3, <1>4 DEF FamilyInv
<1> QED BY <1>5, <1>6, <1>7 DEF FamilyInv

\* A checklist that is prepared is the one that was found, or the first.
LEMMA PrepareKeeps ==
  ASSUME DataInv, ProgressUnique, ItemsUnique, \A i \in items : Anchored(i), UNCHANGED templates,
         NEW c, c.policy \in Policies,
         NEW found, found = {r.id : r \in ProgressOf(c.user, c.policy)}, Prepare(c, found)
  PROVE  ProgressUnique' /\ ItemsUnique' /\ \A i \in items' : Anchored(i)'
<1> DEFINE id == IF found = {} THEN NewId ELSE CHOOSE i \in found : TRUE
           there == {i.template : i \in {j \in items : j.progress = id}}
           new(t) == [by |-> c.id, progress |-> id, template |-> t, done |-> FALSE]
           first == [id |-> id, user |-> c.user, policy |-> c.policy, percent |-> 0]
<1>1. /\ progress' = IF found # {} THEN progress ELSE progress \cup {first}
      /\ items' = items \cup {new(t) : t \in ActiveTemplates(c.policy) \ there}
  BY DEF Prepare
<1>2. /\ first.id = id /\ first.user = c.user /\ first.policy = c.policy
      /\ {"id", "user", "policy"} \subseteq DOMAIN first
  OBVIOUS
<1>3. \A t : /\ new(t).progress = id /\ new(t).template = t
             /\ {"progress", "template"} \subseteq DOMAIN new(t)
  OBVIOUS
<1>4. progress \subseteq progress' /\ \E r \in progress' : r.id = id /\ r.policy = c.policy
  <2>1. CASE found = {}
    BY <1>1, <1>2, <2>1
  <2>2. CASE found # {}
    <3>1. id \in found
      BY <2>2
    <3> QED BY <1>1, <2>2, <3>1 DEF ProgressOf
  <2> QED BY <2>1, <2>2
<1> HIDE DEF id, new, first
<1>5. ProgressUnique'
  <2>1. CASE found # {}
    BY <1>1, <2>1 DEF ProgressUnique
  <2>2. CASE found = {}
    <3>1. \A r \in progress : ~(r.user = c.user /\ r.policy = c.policy)
      BY <2>2 DEF ProgressOf
    <3> QED BY <1>1, <1>2, <2>2, <3>1 DEF ProgressUnique
  <2> QED BY <2>1, <2>2
<1>6. ItemsUnique'
  BY <1>1, <1>3 DEF ItemsUnique
<1>7. ASSUME NEW i \in items' PROVE Anchored(i)'
  <2>1. CASE i \in items
    BY <1>4, <2>1 DEF Anchored
  <2>2. CASE i \notin items
    <3>1. PICK t \in ActiveTemplates(c.policy) : i = new(t)
      BY <1>1, <2>2
    <3>2. PICK n \in DOMAIN templates[c.policy] : t = TemplateId(c.policy, n)
      BY <3>1 DEF ActiveTemplates
    <3>3. n \in Places
      BY <3>2 DEF DataInv, PolicyInv, Places
    <3>4. PolicyOf(t) = c.policy
      BY <3>2, <3>3, DocNumber DEF TemplateId
    <3>5. i.progress = id /\ i.template = t
      BY <1>3, <3>1
    <3> QED BY <1>4, <3>2, <3>4, <3>5 DEF Anchored
  <2> QED BY <2>1, <2>2
<1> QED BY <1>5, <1>6, <1>7

\* A tick leaves what makes items and checklists what they are.
LEMMA TickKeeps ==
  ASSUME ProgressUnique, ItemsUnique, \A i \in items : Anchored(i), UNCHANGED templates,
         NEW c, NEW found, Tick(c, found)
  PROVE  ProgressUnique' /\ ItemsUnique' /\ \A i \in items' : Anchored(i)'
<1>1. PICK id \in found :
        LET own == {i \in items : i.progress = id}
            ticked == {i \in own : i.template = TemplateId(c.policy, c.position)}
            after == (own \ ticked) \cup {[i EXCEPT !.done = c.done] : i \in ticked} IN
        /\ items' = (items \ ticked) \cup {[i EXCEPT !.done = c.done] : i \in ticked}
        /\ progress' = IF ticked = {} THEN progress
                       ELSE {IF r.id = id
                             THEN [r EXCEPT !.percent = Round(Cardinality({i \in after : i.done}), Cardinality(own))]
                             ELSE r : r \in progress}
  BY DEF Tick
<1> DEFINE own == {i \in items : i.progress = id}
           ticked == {i \in own : i.template = TemplateId(c.policy, c.position)}
           mark(i) == [i EXCEPT !.done = c.done]
<1>2. items' = (items \ ticked) \cup {mark(i) : i \in ticked}
  BY <1>1
<1>3. \A i : /\ {"progress", "template"} \subseteq DOMAIN i
             => /\ {"progress", "template"} \subseteq DOMAIN mark(i)
                /\ mark(i).progress = i.progress /\ mark(i).template = i.template
  <2> TAKE i
  <2> DEFINE k == mark(i)
  <2>1. k = [i EXCEPT !.done = c.done]
    OBVIOUS
  <2> HIDE DEF k
  <2>2. {"progress", "template"} \subseteq DOMAIN i
           => /\ {"progress", "template"} \subseteq DOMAIN k
              /\ k.progress = i.progress /\ k.template = i.template
    BY <2>1
  <2> QED BY <2>2 DEF k
<1>4. \E percent : \/ progress' = progress
                   \/ progress' = {IF r.id = id THEN [r EXCEPT !.percent = percent] ELSE r : r \in progress}
  BY <1>1
<1>5. PICK percent : \/ progress' = progress
                     \/ progress' = {IF r.id = id THEN [r EXCEPT !.percent = percent] ELSE r : r \in progress}
  BY <1>4
<1> DEFINE same(r) == IF r.id = id THEN [r EXCEPT !.percent = percent] ELSE r
<1>6. \A r : {"id", "user", "policy"} \subseteq DOMAIN r
             => /\ {"id", "user", "policy"} \subseteq DOMAIN same(r)
                /\ same(r).id = r.id /\ same(r).user = r.user /\ same(r).policy = r.policy
  <2> TAKE r
  <2> DEFINE k == [r EXCEPT !.percent = percent]
  <2>1. k = [r EXCEPT !.percent = percent]
    OBVIOUS
  <2> HIDE DEF k
  <2>2. {"id", "user", "policy"} \subseteq DOMAIN r
           => /\ {"id", "user", "policy"} \subseteq DOMAIN k
              /\ k.id = r.id /\ k.user = r.user /\ k.policy = r.policy
    BY <2>1
  <2>3. same(r) = r \/ same(r) = k
    BY DEF k
  <2> HIDE DEF same
  <2> QED BY <2>2, <2>3
<1>7. progress' = progress \/ progress' = {same(r) : r \in progress}
  BY <1>5
<1> HIDE DEF mark, same, ticked
<1>8. ProgressUnique'
  BY <1>6, <1>7 DEF ProgressUnique
<1>9. ItemsUnique'
  <2>1. \A i \in items' : \E j \in items :
          /\ i.progress = j.progress /\ i.template = j.template
          /\ {"progress", "template"} \subseteq DOMAIN i
          /\ i = IF j \in ticked THEN mark(j) ELSE j
    BY <1>2, <1>3 DEF ItemsUnique, ticked
  <2> QED BY <2>1 DEF ItemsUnique
<1>10. ASSUME NEW i \in items' PROVE Anchored(i)'
  <2>1. PICK j \in items : i.progress = j.progress /\ i.template = j.template
    BY <1>2, <1>3 DEF ItemsUnique, ticked
  <2>2. PICK r \in progress :
          /\ r.id = j.progress /\ r.policy = PolicyOf(j.template)
          /\ j.template \in {TemplateId(r.policy, n) : n \in DOMAIN templates[r.policy]}
    BY DEF Anchored
  <2>3. \E q \in progress' : q.id = r.id /\ q.policy = r.policy
    BY <1>6, <1>7 DEF ProgressUnique
  <2> QED BY <2>1, <2>2, <2>3 DEF Anchored
<1> QED BY <1>8, <1>9, <1>10

LEMMA FinishKeepsRecords ==
  ASSUME DataInv, RecordsInv, UNCHANGED templates, NEW v \in inside, UserFinish(v) PROVE RecordsInv'
<1> DEFINE c == v.call
<1>1. v.found = Found(c) /\ c.policy \in Policies
  BY DEF RecordsInv, LockInv
<1>2. LockInv'
  BY DEF UserFinish, RecordsInv, LockInv
<1>3. CASE SignUp(c) \/ Rename(c) \/ ChangePassword(c)
  <2>1. UNCHANGED <<progress, items, family, members>>
    BY <1>3 DEF SignUp, Rename, ChangePassword
  <2>2. FamilyInv' /\ ProgressUnique' /\ ItemsUnique' /\ \A i \in items' : Anchored(i)'
    BY <2>1 DEF RecordsInv, FamilyInv, ProgressUnique, ItemsUnique, Anchored
  <2> QED BY <1>2, <1>3, <2>2, AccountsKeep DEF RecordsInv
<1>4. CASE AddFavorite(c) \/ RemoveFavorite(c)
  <2>1. UNCHANGED <<accounts, progress, items, family, members>>
    BY <1>4 DEF AddFavorite, RemoveFavorite
  <2>2. /\ AccountsInv' /\ FamilyInv' /\ ProgressUnique' /\ ItemsUnique'
        /\ \A i \in items' : Anchored(i)'
    BY <2>1 DEF RecordsInv, AccountsInv, FamilyInv, ProgressUnique, ItemsUnique, Anchored
  <2> QED BY <1>2, <2>2 DEF RecordsInv
<1>5. CASE c.op = "family" /\ SaveFamily(c, v.found)
  <2>1. v.found = {r.by : r \in FamilyOf(c.user)}
    BY <1>1, <1>5 DEF Found
  <2>2. FamilyInv'
    BY <1>5, <2>1, FamilyKeeps DEF RecordsInv
  <2>3. UNCHANGED <<accounts, progress, items>>
    BY <1>5 DEF SaveFamily
  <2>4. AccountsInv' /\ ProgressUnique' /\ ItemsUnique' /\ \A i \in items' : Anchored(i)'
    BY <2>3 DEF RecordsInv, AccountsInv, ProgressUnique, ItemsUnique, Anchored
  <2> QED BY <1>2, <2>2, <2>4 DEF RecordsInv
<1>6. CASE \/ c.op = "prepare" /\ Prepare(c, v.found)
           \/ c.op = "tick" /\ Tick(c, v.found)
  <2>1. v.found = {r.id : r \in ProgressOf(c.user, c.policy)}
    BY <1>1, <1>6 DEF Found
  <2>2. ProgressUnique' /\ ItemsUnique' /\ \A i \in items' : Anchored(i)'
    BY <1>1, <1>6, <2>1, PrepareKeeps, TickKeeps DEF RecordsInv
  <2>3. UNCHANGED <<accounts, family, members>>
    BY <1>6 DEF Prepare, Tick
  <2>4. AccountsInv' /\ FamilyInv'
    BY <2>3 DEF RecordsInv, AccountsInv, FamilyInv
  <2> QED BY <1>2, <2>2, <2>4 DEF RecordsInv
<1> QED BY <1>3, <1>4, <1>5, <1>6 DEF UserFinish

LEMMA StepRecords == DataInv /\ RecordsInv /\ [Next]_vars => RecordsInv'
<1> SUFFICES ASSUME DataInv, RecordsInv, [Next]_vars PROVE RecordsInv'
  OBVIOUS
<1>1. CASE DataNext /\ UNCHANGED userVars
  BY <1>1, DataKeepsRecords
<1>2. CASE UserCall
  <2>1. UNCHANGED templates
    BY <1>2 DEF UserCall
  <2>2. ASSUME NEW c \in pending, UserBegin(c) PROVE RecordsInv'
    <3>1. UNCHANGED <<accounts, favorites, progress, items, family, members>>
      BY <2>2 DEF UserBegin
    <3> QED BY <2>1, <2>2, <3>1, LockKeepsRecords
  <2>3. ASSUME NEW v \in inside, UserAbort(v) PROVE RecordsInv'
    <3>1. UNCHANGED <<accounts, favorites, progress, items, family, members>>
      BY <2>3 DEF UserAbort
    <3> QED BY <2>1, <2>3, <3>1, LockKeepsRecords
  <2> QED BY <1>2, <2>1, <2>2, <2>3, FinishKeepsRecords DEF UserCall, Calls
<1>3. CASE UNCHANGED vars
  <2>1. UNCHANGED <<templates, accounts, favorites, progress, items, family, members, inside>>
    BY <1>3 DEF vars, dataVars, userVars
  <2>2. \A c : Found(c)' = Found(c)
    BY <2>1 DEF Found, ProgressOf, FamilyOf, HoldsEmail, HoldsNickname
  <2>3. AccountsInv' /\ FamilyInv' /\ ProgressUnique' /\ ItemsUnique' /\ LockInv'
    BY <2>1, <2>2
    DEF RecordsInv, AccountsInv, FamilyInv, ProgressUnique, ItemsUnique, LockInv
  <2>4. \A i \in items' : Anchored(i)'
    BY <2>1 DEF RecordsInv, Anchored
  <2> QED BY <2>3, <2>4 DEF RecordsInv
<1> QED BY <1>1, <1>2, <1>3 DEF Next

\* However the calls of users and the imports fall together, no record is there twice.
THEOREM RecordsStayUnique == Spec => []RecordsAreUnique
<1>1. Init => DataInv
  BY InitTypes DEF Init
<1> QED BY <1>1, StepTypes, InitRecords, StepRecords, RecordsFromInv, PTL DEF Spec

(***************************************************************************)
(* The types of the records of users.                                      *)
(***************************************************************************)
TemplateIds == {TemplateId(p, n) : p \in Policies, n \in 100..299}

\* A call that was let in is of a user, and for a policy, there is.
Admitted(c) ==
  /\ c.policy \in Policies
  /\ c.op # "sign_up" => c.user \in DOMAIN accounts
  /\ c.op \in {"favorite", "prepare"} => c.policy \in Imported

ProgressTyped(r) ==
  /\ DOMAIN r = {"id", "user", "policy", "percent"}
  /\ r.user \in DOMAIN accounts /\ r.policy \in Imported /\ r.percent \in 0..100

UsersInv ==
  /\ favorites \subseteq (DOMAIN accounts) \X Policies
  /\ \A r \in progress : ProgressTyped(r)
  /\ IsFiniteSet(items) /\ \A i \in items : "template" \in DOMAIN i /\ i.template \in TemplateIds
  /\ \A r \in family \cup members : r.user \in DOMAIN accounts
  /\ \A v \in inside : Admitted(v.call)

\* Nobody's account is deleted, and no policy.
LEMMA UsersStay ==
  ASSUME UsersInv, Imported \subseteq Imported', DOMAIN accounts \subseteq DOMAIN accounts',
         UNCHANGED <<favorites, progress, items, family, members>>,
         \A v \in inside' : v \in inside \/ Admitted(v.call)'
  PROVE  UsersInv'
<1>1. \A r \in progress' : ProgressTyped(r)' BY DEF UsersInv, ProgressTyped
<1>2. \A v \in inside' : Admitted(v.call)' BY DEF UsersInv, Admitted
<1> QED BY <1>1, <1>2 DEF UsersInv

LEMMA Product == ASSUME NEW t \in Nat, NEW q \in Nat, q >= 101 PROVE t * q >= t * 101
<1> DEFINE k == q - 101
<1>1. k \in Nat /\ q = 101 + k OBVIOUS
<1>2. t * k >= 0 BY <1>1
<1>3. t * q = t * 101 + t * k BY <1>1
<1> QED BY <1>2, <1>3

LEMMA Rounded ==
  ASSUME NEW done \in Nat, NEW total \in Nat, done <= total PROVE Round(done, total) \in 0..100
<1>1. CASE total = 0 BY <1>1 DEF Round
<1>2. CASE total # 0
  <2> DEFINE a == 100 * done
             q == a \div total
             r == a % total
  <2>1. a \in Nat /\ a <= total * 100 OBVIOUS
  <2>2. Round(done, total) = q + (IF 2 * r > total \/ (2 * r = total /\ q % 2 = 1) THEN 1 ELSE 0)
    BY <1>2 DEF Round
  <2> HIDE DEF a
  <2>3. q \in Nat /\ r \in Nat /\ r < total /\ a = total * q + r BY ONLY <1>2, <2>1, total \in Nat
  <2> HIDE DEF q, r
  <2>4. ~(q >= 101)
    <3> SUFFICES ASSUME q >= 101 PROVE FALSE OBVIOUS
    <3>1. total * q >= total * 101 BY <2>3, Product
    <3> DEFINE b == total * q
    <3>2. b \in Nat BY <2>3
    <3> HIDE DEF b
    <3> QED BY <1>2, <2>1, <2>3, <3>1, <3>2 DEF b
  <2>5. q = 100 => r = 0
    <3> SUFFICES ASSUME q = 100 PROVE r = 0 OBVIOUS
    <3>1. a = total * 100 + r BY <2>3
    <3> QED BY <2>1, <2>3, <3>1
  <2> QED BY <1>2, <2>2, <2>3, <2>4, <2>5
<1> QED BY <1>1, <1>2

LEMMA BeginTypes ==
  ASSUME DataInv, UsersInv, NEW c \in pending, UserBegin(c), UNCHANGED <<live, accounts>>
  PROVE  UsersInv'
<1>1. Imported' = Imported BY DEF Imported
<1>2. UNCHANGED <<favorites, progress, items, family, members>> BY DEF UserBegin
<1>3. ASSUME NEW v \in inside', v \notin inside PROVE Admitted(v.call)'
  <2>1. ~Refuses(c) /\ v.call = c BY <1>3 DEF UserBegin
  <2>2. c.policy \in Policies BY DEF DataInv, JobsInv, CallTyped
  <2>3. Admitted(c) BY <2>1, <2>2 DEF Refuses, Admitted, Imported
  <2> QED BY <1>1, <2>1, <2>3 DEF Admitted
<1> QED BY <1>1, <1>2, <1>3, UsersStay

LEMMA PrepareTypes ==
  ASSUME DataInv, UsersInv, NEW c, NEW found, c.policy \in Imported, c.user \in DOMAIN accounts,
         Prepare(c, found)
  PROVE  /\ \A r \in progress' : ProgressTyped(r)
         /\ IsFiniteSet(items') /\ \A i \in items' : "template" \in DOMAIN i /\ i.template \in TemplateIds
<1> DEFINE id == IF found = {} THEN NewId ELSE CHOOSE i \in found : TRUE
           there == {i.template : i \in {j \in items : j.progress = id}}
           first == [id |-> id, user |-> c.user, policy |-> c.policy, percent |-> 0]
           T == ActiveTemplates(c.policy) \ there
           new(t) == [by |-> c.id, progress |-> id, template |-> t, done |-> FALSE]
           N == {new(t) : t \in T}
<1>1. /\ progress' = IF found # {} THEN progress ELSE progress \cup {first}
      /\ items' = items \cup N
  BY DEF Prepare
<1>2. ProgressTyped(first) BY DEF ProgressTyped
<1>3. \A t : "template" \in DOMAIN new(t) /\ new(t).template = t OBVIOUS
<1>4. c.policy \in Policies /\ DOMAIN templates[c.policy] \subseteq 100..299
  BY DEF DataInv, PolicyInv, Imported
<1> DEFINE M == {m \in DOMAIN templates[c.policy] : templates[c.policy][m].active}
           A == {TemplateId(c.policy, n) : n \in M}
<1>5. ActiveTemplates(c.policy) = A BY DEF ActiveTemplates
<1>6. IsFiniteSet(A) /\ A \subseteq TemplateIds
  <2> DEFINE f == [n \in M |-> TemplateId(c.policy, n)]
  <2>1. M \in SUBSET (100..299) BY <1>4
  <2>2. f \in Surjection(M, A) BY DEF Surjection
  <2>3. M \in SUBSET Places BY <2>1 DEF Places
  <2>4. A \subseteq TemplateIds BY <1>4, <2>1 DEF TemplateIds
  <2> HIDE DEF f, M, A
  <2>5. IsFiniteSet(M) BY <2>3, FewPlaces, FS_Subset
  <2> QED BY <2>2, <2>4, <2>5, FS_Surjection
<1>7. T \in SUBSET A BY <1>5
<1> DEFINE g == [t \in T |-> new(t)]
<1>8. g \in Surjection(T, N) BY DEF Surjection
<1>9. \A i \in N : \E t \in T : i = new(t) OBVIOUS
<1> HIDE DEF A, T, N, new, g, first
<1>10. IsFiniteSet(T) BY <1>6, <1>7, FS_Subset
<1>11. IsFiniteSet(N) BY <1>8, <1>10, FS_Surjection
<1>12. IsFiniteSet(items') BY <1>1, <1>11, FS_Union DEF UsersInv
<1>13. \A i \in N : "template" \in DOMAIN i /\ i.template \in TemplateIds BY <1>3, <1>6, <1>7, <1>9
<1> QED BY <1>1, <1>2, <1>12, <1>13 DEF UsersInv

LEMMA TickTypes ==
  ASSUME UsersInv, NEW c, NEW found, Tick(c, found)
  PROVE  /\ \A r \in progress' : ProgressTyped(r)
         /\ IsFiniteSet(items') /\ \A i \in items' : "template" \in DOMAIN i /\ i.template \in TemplateIds
<1>1. PICK id \in found :
        LET own == {i \in items : i.progress = id}
            ticked == {i \in own : i.template = TemplateId(c.policy, c.position)}
            after == (own \ ticked) \cup {[i EXCEPT !.done = c.done] : i \in ticked} IN
        /\ items' = (items \ ticked) \cup {[i EXCEPT !.done = c.done] : i \in ticked}
        /\ progress' = IF ticked = {} THEN progress
                       ELSE {IF r.id = id
                             THEN [r EXCEPT !.percent = Round(Cardinality({i \in after : i.done}), Cardinality(own))]
                             ELSE r : r \in progress}
  BY DEF Tick
<1> DEFINE own == {i \in items : i.progress = id}
           ticked == {i \in own : i.template = TemplateId(c.policy, c.position)}
           mark(i) == [i EXCEPT !.done = c.done]
           marked == {mark(i) : i \in ticked}
           after == (own \ ticked) \cup marked
           done == {i \in after : i.done}
           percent == Round(Cardinality(done), Cardinality(own))
           same(r) == IF r.id = id THEN [r EXCEPT !.percent = percent] ELSE r
           h == [i \in own |-> IF i \in ticked THEN mark(i) ELSE i]
           g == [i \in ticked |-> mark(i)]
<1>2. /\ items' = (items \ ticked) \cup marked
      /\ progress' = progress \/ progress' = {same(r) : r \in progress}
  BY <1>1
<1>3. \A i : "template" \in DOMAIN i => "template" \in DOMAIN mark(i) /\ mark(i).template = i.template
  <2> TAKE i
  <2> DEFINE k == mark(i)
  <2>1. k = [i EXCEPT !.done = c.done] OBVIOUS
  <2> HIDE DEF k
  <2>2. "template" \in DOMAIN i => "template" \in DOMAIN k /\ k.template = i.template BY <2>1
  <2> QED BY <2>2 DEF k
<1>4. own \in SUBSET items /\ ticked \in SUBSET own /\ done \in SUBSET after OBVIOUS
<1>5. \A i \in marked : \E j \in ticked : i = mark(j) OBVIOUS
<1> HIDE DEF mark, own, ticked
<1>6. h \in Surjection(own, after) BY <1>4 DEF Surjection
<1>7. g \in Surjection(ticked, marked) BY DEF Surjection
<1> HIDE DEF h, g, marked, after, done
<1>8. IsFiniteSet(own) BY <1>4, FS_Subset DEF UsersInv
<1>9. IsFiniteSet(ticked) BY <1>4, <1>8, FS_Subset
<1>10. IsFiniteSet(marked) BY <1>7, <1>9, FS_Surjection
<1>11. IsFiniteSet(after) /\ Cardinality(after) <= Cardinality(own) BY <1>6, <1>8, FS_Surjection
<1>12. IsFiniteSet(done) /\ Cardinality(done) <= Cardinality(after) BY <1>4, <1>11, FS_Subset
<1>13. percent \in 0..100
  <2> DEFINE a == Cardinality(done)
             b == Cardinality(own)
  <2>1. a \in Nat /\ b \in Nat /\ Cardinality(after) \in Nat BY <1>8, <1>11, <1>12, FS_CardinalityType
  <2>2. a <= b BY <1>11, <1>12, <2>1
  <2> HIDE DEF a, b
  <2>3. Round(a, b) \in 0..100 BY <2>1, <2>2, Rounded
  <2> QED BY <2>3 DEF a, b
<1> HIDE DEF percent
<1>14. \A r \in progress : ProgressTyped(same(r))
  <2> SUFFICES ASSUME NEW r \in progress PROVE ProgressTyped(same(r)) OBVIOUS
  <2>1. ProgressTyped(r) BY DEF UsersInv
  <2> DEFINE k == [r EXCEPT !.percent = percent]
  <2>2. /\ DOMAIN k = DOMAIN r /\ k.user = r.user /\ k.policy = r.policy /\ k.percent = percent
    BY <2>1 DEF ProgressTyped
  <2>3. same(r) = r \/ same(r) = k OBVIOUS
  <2> HIDE DEF k, same
  <2>4. ProgressTyped(k) BY <1>13, <2>1, <2>2 DEF ProgressTyped
  <2> QED BY <2>1, <2>3, <2>4
<1> HIDE DEF same
<1>15. \A r \in progress' : ProgressTyped(r) BY <1>2, <1>14 DEF UsersInv
<1>16. IsFiniteSet(items')
  <2>1. items \ ticked \in SUBSET items OBVIOUS
  <2>2. IsFiniteSet(items \ ticked) BY <2>1, FS_Subset DEF UsersInv
  <2> QED BY <1>2, <1>10, <2>2, FS_Union
<1>17. \A i \in items' : "template" \in DOMAIN i /\ i.template \in TemplateIds
  BY <1>2, <1>3, <1>4, <1>5 DEF UsersInv
<1> QED BY <1>15, <1>16, <1>17

LEMMA FinishTypes ==
  ASSUME DataInv, UsersInv, NEW v \in inside, UserFinish(v), UNCHANGED <<live, templates>>
  PROVE  UsersInv'
<1> DEFINE c == v.call
<1>0. Imported' = Imported /\ inside' \subseteq inside /\ Admitted(c)
  BY DEF Imported, UserFinish, UsersInv
<1>1. CASE SignUp(c) \/ Rename(c) \/ ChangePassword(c)
  <2>1. UNCHANGED <<favorites, progress, items, family, members>>
    BY <1>1 DEF SignUp, Rename, ChangePassword
  <2>2. DOMAIN accounts \subseteq DOMAIN accounts' BY <1>1 DEF SignUp, Rename, ChangePassword
  <2> QED BY <1>0, <2>1, <2>2, UsersStay
<1>2. CASE c.op = "favorite" /\ AddFavorite(c)
  <2>1. UNCHANGED <<accounts, progress, items, family, members>> BY <1>2 DEF AddFavorite
  <2>2. favorites' \subseteq (DOMAIN accounts) \X Policies
    BY <1>0, <1>2 DEF AddFavorite, Admitted, UsersInv
  <2> QED BY <1>0, <2>1, <2>2 DEF UsersInv, ProgressTyped, Admitted
<1>3. CASE RemoveFavorite(c)
  <2>1. UNCHANGED <<accounts, progress, items, family, members>> BY <1>3 DEF RemoveFavorite
  <2>2. favorites' \subseteq (DOMAIN accounts) \X Policies BY <1>3 DEF RemoveFavorite, UsersInv
  <2> QED BY <1>0, <2>1, <2>2 DEF UsersInv, ProgressTyped, Admitted
<1>4. CASE \/ c.op = "prepare" /\ Prepare(c, v.found)
           \/ c.op = "tick" /\ Tick(c, v.found)
  <2>1. UNCHANGED <<accounts, favorites, family, members>> BY <1>4 DEF Prepare, Tick
  <2>2. /\ \A r \in progress' : ProgressTyped(r)
        /\ IsFiniteSet(items') /\ \A i \in items' : "template" \in DOMAIN i /\ i.template \in TemplateIds
    BY <1>0, <1>4, PrepareTypes, TickTypes DEF Admitted
  <2>3. \A r \in progress' : ProgressTyped(r)' BY <1>0, <2>1, <2>2 DEF ProgressTyped
  <2>4. \A w \in inside' : Admitted(w.call)' BY <1>0, <2>1 DEF UsersInv, Admitted
  <2> QED BY <2>1, <2>2, <2>3, <2>4 DEF UsersInv
<1>5. CASE c.op = "family" /\ SaveFamily(c, v.found)
  <2>1. UNCHANGED <<accounts, favorites, progress, items>> BY <1>5 DEF SaveFamily
  <2>2. c.user \in DOMAIN accounts BY <1>0, <1>5 DEF Admitted
  <2>3. \A r \in family' \cup members' : r.user \in DOMAIN accounts
    <3> DEFINE new(by) == [by |-> by, user |-> c.user, answers |-> c.answers]
               child == [by |-> c.id, user |-> c.user, stage |-> c.answers["stage"]]
    <3>1. /\ \A r \in family' : r \in family \/ \E by : r = new(by)
          /\ \A m \in members' : m \in members \/ m = child
      BY <1>5 DEF SaveFamily
    <3>2. child.user = c.user /\ \A by : new(by).user = c.user OBVIOUS
    <3> HIDE DEF new, child
    <3> QED BY <2>2, <3>1, <3>2 DEF UsersInv
  <2> QED BY <1>0, <2>1, <2>3 DEF UsersInv, ProgressTyped, Admitted
<1> QED BY <1>1, <1>2, <1>3, <1>4, <1>5 DEF UserFinish

LEMMA StepUsers == DataInv /\ UsersInv /\ [Next]_vars => UsersInv'
<1> SUFFICES ASSUME DataInv, UsersInv, [Next]_vars PROVE UsersInv' OBVIOUS
<1>1. CASE UNCHANGED userVars
  <2>1. UNCHANGED <<accounts, favorites, progress, items, family, members, inside>>
    BY <1>1 DEF userVars
  <2> QED BY <2>1, ImportedGrows, UsersStay
<1>2. CASE UserCall
  <2>1. UNCHANGED <<live, templates>> /\ Imported' = Imported BY <1>2 DEF UserCall, Imported
  <2>2. ASSUME NEW c \in pending, UserBegin(c) PROVE UsersInv'
    <3>1. UNCHANGED accounts BY <2>2 DEF UserBegin
    <3> QED BY <2>1, <2>2, <3>1, BeginTypes
  <2>3. ASSUME NEW v \in inside, UserAbort(v) PROVE UsersInv'
    BY <2>1, <2>3, UsersStay DEF UserAbort
  <2> QED BY <1>2, <2>1, <2>2, <2>3, FinishTypes DEF UserCall, Calls
<1>3. CASE UNCHANGED vars BY <1>1, <1>3 DEF vars
<1> QED BY <1>1, <1>2, <1>3 DEF Next

\* Whatever calls overlap, and wherever one stops: what is stored refers to policies
\* that have been imported, to users there are and to texts that some portal's detail or
\* file gives, no vector is of a document without text, and a percentage is one.
THEOREM EverythingTyped == Spec => []TypeOK
<1>1. Init => DataInv /\ UsersInv
  <2> SUFFICES ASSUME Init PROVE DataInv /\ UsersInv OBVIOUS
  <2>1. PICK s \in Scenarios : /\ DataInit(s) /\ inside = {} /\ favorites = {} /\ progress = {}
                               /\ items = {} /\ family = {} /\ members = {}
    BY DEF Init
  <2>2. DataInv BY <2>1, InitTypes
  <2>3. UsersInv BY <2>1, FS_EmptySet DEF UsersInv
  <2> QED BY <2>2, <2>3
<1>2. DataInv /\ UsersInv /\ [Next]_vars => DataInv' /\ UsersInv' BY StepTypes, StepUsers
<1>3. DataInv /\ UsersInv => TypeOK
  <2> SUFFICES ASSUME DataInv, UsersInv PROVE TypeOK OBVIOUS
  <2>1. \A r \in progress : r.user \in DOMAIN accounts /\ live[r.policy] # 0 /\ r.percent \in 0..100
    BY DEF UsersInv, ProgressTyped, Imported
  <2> QED BY <2>1, DataIsTyped DEF UsersInv, TypeOK, TemplateIds
<1> QED BY <1>1, <1>2, <1>3, PTL DEF Spec
(***************************************************************************)
(* Refusals by rules of profiles.                                          *)
(***************************************************************************)
\* The rules of a profile say what it was read from.
ReadingsInv == \A p \in Policies : \A b \in ByProfile(p) : b.of[1] \in DOMAIN Extractions

\* An import inserts rules of the portal's data.
LEMMA ImportKeepsReadings == ASSUME ReadingsInv, Import PROVE ReadingsInv'
<1>1. PICK c : rules' = ImportedRules(c) BY DEF Import
<1>2. ASSUME NEW p \in Policies, NEW b \in rules'[p], b.by = "condition_profile"
      PROVE  b \in rules[p]
  BY <1>1, <1>2 DEF ImportedRules, Batch
<1> QED BY <1>2 DEF ReadingsInv, ByProfile

\* An ingest inserts rules of a profile that it found when it began.
LEMMA IngestKeepsReadings ==
  ASSUME DataInv, ReadingsInv, NEW id \in Busy("rules"), RulesCommit(id) PROVE ReadingsInv'
<1> DEFINE p == Current(id)[1]
           new == Batch("condition_profile", id, <<Current(id)[2], 0>>)
<1>1. rules' = [rules EXCEPT ![p] = (rules[p] \ job[id].doomed) \cup {new}] BY DEF RulesCommit
<1>2. id \in CallIds /\ job[id].op = "rules" /\ job[id].op # None BY DEF Busy, None
<1>3. JobTyped(job[id], Imported) BY <1>2 DEF DataInv, JobsInv
<1>4. Current(id) \in Tasks("rules", Imported) BY <1>2, <1>3, OnwardTyped
<1>5. Current(id)[2] \in DOMAIN Extractions BY <1>4 DEF Tasks
<1>6. new.of[1] \in DOMAIN Extractions BY <1>5 DEF Batch
<1> HIDE DEF new, p
<1>7. rules = [q \in Policies |-> rules[q]] BY DEF DataInv, PolicyInv
<1>8. \A q \in Policies : rules'[q] \subseteq rules[q] \cup {new} BY <1>1, <1>7
<1> QED BY <1>6, <1>8 DEF ReadingsInv, ByProfile

LEMMA StepReadings == DataInv /\ ReadingsInv /\ [Next]_vars => ReadingsInv'
<1> SUFFICES ASSUME DataInv, ReadingsInv, [Next]_vars PROVE ReadingsInv' OBVIOUS
<1>1. CASE UNCHANGED rules BY <1>1 DEF ReadingsInv, ByProfile
<1>2. CASE RuleIngesting
  <2>1. ASSUME NEW c, RulesStart(c) PROVE UNCHANGED rules BY <2>1 DEF RulesStart
  <2>2. ASSUME NEW id, RulesSkip(id) \/ RulesBegin(id) PROVE UNCHANGED rules
    BY <2>2 DEF RulesSkip, RulesBegin
  <2> QED BY <1>1, <1>2, <2>1, <2>2, IngestKeepsReadings DEF RuleIngesting
<1>3. CASE Fetch \/ Profiling \/ Documents \/ Embedding \/ Abandon
  BY <1>1, <1>3 DEF Fetch, Profiling, Documents, Embedding, Abandon
<1>4. CASE UserCall \/ UNCHANGED vars BY <1>1, <1>4 DEF UserCall, vars, dataVars
<1> QED BY <1>2, <1>3, <1>4, ImportKeepsReadings DEF Next, DataNext

\* Whatever calls overlap, and for any extractions and answers: whom the rules of a
\* profile refuse, the sentence behind the profile does not admit, unless the sentence
\* is of a kind that is known to lose its meaning on the way to the rules.
THEOREM RefusalsHaveCause == Spec => []RefusalHasCause
<1>1. Init => DataInv /\ ReadingsInv
  <2> SUFFICES ASSUME Init PROVE DataInv /\ ReadingsInv OBVIOUS
  <2>1. PICK s \in Scenarios : DataInit(s) BY DEF Init
  <2>2. DataInv BY <2>1, InitTypes
  <2>3. \A p \in Policies : rules[p] = {} BY <2>1 DEF DataInit
  <2> QED BY <2>2, <2>3 DEF ReadingsInv, ByProfile
<1>2. DataInv /\ ReadingsInv /\ [Next]_vars => DataInv' /\ ReadingsInv'
  BY StepTypes, StepReadings
<1>3. ReadingsInv => RefusalHasCause
  BY NobodyRefusedWrongly DEF ReadingsInv, RefusalHasCause
<1> QED BY <1>1, <1>2, <1>3, PTL DEF Spec
=============================================================================
