--------------------------- MODULE SummaryPromise ---------------------------
(***************************************************************************)
(* What the summary cache promises, without calls, tasks, locks or         *)
(* failures: each policy has a cell that is filled for a version of its    *)
(* condition profile, and never with anything made from an older one.  A   *)
(* filled cell is emptied only for a newer version.                        *)
(***************************************************************************)
EXTENDS Naturals

CONSTANT Policies

VARIABLES status, tag, source, profile

vars == <<status, tag, source, profile>>

Init ==
  /\ status = [p \in Policies |-> "none"]
  /\ tag = [p \in Policies |-> 0] /\ source = [p \in Policies |-> 0]
  /\ profile \in [Policies -> Nat]

\* A reader starts it for the version it saw.  A cell that is being filled may
\* be started over, its task may be lost.
Begin(p, v) ==
  /\ \/ status[p] = "none"
     \/ status[p] = "PROCESSING" /\ v >= tag[p]
     \/ v > tag[p]
  /\ status' = [status EXCEPT ![p] = "PROCESSING"]
  /\ tag' = [tag EXCEPT ![p] = v] /\ source' = [source EXCEPT ![p] = 0]
  /\ UNCHANGED profile

Fill(p, v) ==
  /\ status[p] = "PROCESSING" /\ v >= tag[p]
  /\ status' = [status EXCEPT ![p] = "COMPLETED"]
  /\ source' = [source EXCEPT ![p] = v]
  /\ UNCHANGED <<tag, profile>>

GiveUp(p) ==
  /\ status[p] = "PROCESSING" /\ status' = [status EXCEPT ![p] = "FAILED"]
  /\ UNCHANGED <<tag, source, profile>>

Change(p) ==
  /\ profile' = [profile EXCEPT ![p] = @ + 1]
  /\ UNCHANGED <<status, tag, source>>

Next == \E p \in Policies :
  \/ \E v \in 0..profile[p] : Begin(p, v) \/ Fill(p, v)
  \/ GiveUp(p) \/ Change(p)

Spec == Init /\ [][Next]_vars
=============================================================================
