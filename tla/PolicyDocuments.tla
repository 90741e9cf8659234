-------------------------- MODULE PolicyDocuments --------------------------
(***************************************************************************)
(* From a document to the passages that are searched.  Pure operators.     *)
(*                                                                         *)
(* A text is a sequence of lines [header, size]; sizes are in hundreds of  *)
(* characters.  What a URL gives is a record [type, readers] where readers *)
(* are the texts that the ways to read a PDF find in it, each a record     *)
(* [text, good, score].                                                    *)
(***************************************************************************)
EXTENDS PolicyImport

SectionTarget == 18
ReferenceChunk == 18
DetailChunk == 12

(***************************************************************************)
(* Reading a PDF.                                                          *)
(***************************************************************************)
Readers == <<"pypdfium2", "pymupdf", "pdfplumber">>
IsGood(result) == result.text # <<>> /\ result.good

\* The third way is tried only when one of the others has found any text.
Tried(readers) ==
  LET found(i) == readers[Readers[i]].text # <<>> IN
  IF IsGood(readers[Readers[1]]) THEN {1} ELSE IF IsGood(readers[Readers[2]]) THEN {1, 2}
  ELSE IF found(1) \/ found(2) THEN {1, 2, 3} ELSE {1, 2}

\* The first good one; failing that the one of the best score; or nothing.
ExtractPdfText(readers) ==
  LET good == {i \in Tried(readers) : IsGood(readers[Readers[i]])}
      any == {i \in Tried(readers) : readers[Readers[i]].text # <<>>}
      best == {i \in any : \A j \in any : readers[Readers[j]].score <= readers[Readers[i]].score}
      choice == IF good # {} THEN good ELSE best
  IN IF choice = {} THEN <<>>
     ELSE readers[Readers[CHOOSE i \in choice : \A j \in choice : i <= j]].text

\* A document of another type is left out.
ExtractText(content) == IF content.type = "PDF" THEN ExtractPdfText(content.readers) ELSE <<>>

(***************************************************************************)
(* Sections and chunks.                                                    *)
(***************************************************************************)
\* A header starts a section; sections are sizes.
ReferenceSections(text) ==
  FoldLeft(LAMBDA done, line : IF line.header \/ done = <<>> THEN Append(done, line.size)
                               ELSE [done EXCEPT ![Len(done)] = @ + line.size],
           <<>>, text)

\* Small sections are put together until the next would not fit.
PackSections(sections) ==
  FoldLeft(LAMBDA done, size : IF done # <<>> /\ done[Len(done)] + size <= SectionTarget
                               THEN [done EXCEPT ![Len(done)] = @ + size] ELSE Append(done, size),
           <<>>, sections)

\* How many chunks the text splitter makes of a text.
Pieces(size, limit) == IF size <= limit THEN 1 ELSE (size + limit - 1) \div limit

\* A chunk is a record of the section and of the piece of it.
Split(sections, limit) ==
  FoldLeft(LAMBDA done, i : done \o [k \in 1..Pieces(sections[i], limit) |-> <<i, k>>],
           <<>>, [i \in DOMAIN sections |-> i])

ReferenceChunks(text) == Split(PackSections(ReferenceSections(text)), ReferenceChunk)

(***************************************************************************)
(* The document made of a policy's own data.                               *)
(***************************************************************************)
\* json: its condition profile; d: its detail, with the sizes of its texts.
SectionValues(json, d) ==
  << [section |-> "condition_tree", size |-> Cardinality(Leaves(json.tree)), whole |-> TRUE],
     [section |-> "exclusions", size |-> Cardinality(json.exclusions), whole |-> TRUE],
     [section |-> "manual_check", size |-> Cardinality(json.unknowns \cup json.unsupported), whole |-> TRUE],
     [section |-> "official_target_text", size |-> d.target, whole |-> FALSE],
     [section |-> "benefit", size |-> d.benefit, whole |-> FALSE],
     [section |-> "application", size |-> Len(d.steps), whole |-> FALSE] >>

DetailSections(json, d) == SelectSeq(SectionValues(json, d), LAMBDA s : s.size > 0)

\* What the profile says stays in one piece.
DetailChunks(json, d) ==
  LET sections == DetailSections(json, d) IN
  FoldLeft(LAMBDA done, i : done \o [k \in 1..(IF sections[i].whole THEN 1
                                               ELSE Pieces(sections[i].size, DetailChunk)) |->
                                       <<sections[i].section, k>>],
           <<>>, [i \in DOMAIN sections |-> i])
=============================================================================
