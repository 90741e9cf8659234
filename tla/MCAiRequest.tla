---------------------------- MODULE MCAiRequest ----------------------------
(* Instances of AiRequest for TLC: which request the answers and reads name. *)
EXTENDS AiRequest, TLC

CONSTANTS r1, r2, e1, a1, a2, g1, g2

\* Answers go to the first recommendation, reads to the first eligibility request.
Racing == [c \in Answers \cup Reads |-> IF c \in Answers THEN r1 ELSE e1]

\* Racing answers are interchangeable.
CallSymmetry == Permutations(Answers)
=============================================================================
