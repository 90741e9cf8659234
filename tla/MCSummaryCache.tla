--------------------------- MODULE MCSummaryCache ---------------------------
(* Instances of SummaryCache for TLC: which policy each call asks for.       *)
EXTENDS SummaryCache, TLC

CONSTANTS g1, g2, g3, p1

\* Everybody asks for one policy.
OnePolicy == [g \in Gets |-> p1]
=============================================================================
