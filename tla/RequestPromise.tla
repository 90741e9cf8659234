--------------------------- MODULE RequestPromise ---------------------------
(***************************************************************************)
(* What a recommendation or eligibility request goes through, as clients   *)
(* see it: it is processed, may ask for further information once, and      *)
(* once it is completed or failed it stays so.                             *)
(***************************************************************************)
CONSTANT Requests

VARIABLES status, resolved

vars == <<status, resolved>>

Init ==
  /\ status = [r \in Requests |-> "none"]
  /\ resolved = [r \in Requests |-> FALSE]

\* Either seen while it is processed, or only with its outcome.
Create(r, s) ==
  /\ status[r] = "none" /\ s \in {"PROCESSING", "FOLLOW_UP_REQUIRED", "COMPLETED"}
  /\ status' = [status EXCEPT ![r] = s]
  /\ \E b \in BOOLEAN :
       /\ s = "FOLLOW_UP_REQUIRED" => ~b
       /\ resolved' = [resolved EXCEPT ![r] = b]

Ask(r) ==
  /\ status[r] = "PROCESSING" /\ ~resolved[r]
  /\ status' = [status EXCEPT ![r] = "FOLLOW_UP_REQUIRED"]
  /\ UNCHANGED resolved

Answer(r) ==
  /\ status[r] = "FOLLOW_UP_REQUIRED" /\ ~resolved[r]
  /\ status' = [status EXCEPT ![r] = "PROCESSING"]
  /\ resolved' = [resolved EXCEPT ![r] = TRUE]

Settle(r, s) ==
  /\ status[r] = "PROCESSING" /\ s \in {"COMPLETED", "FAILED"}
  /\ status' = [status EXCEPT ![r] = s]
  /\ UNCHANGED resolved

Next == \E r \in Requests :
  \/ Ask(r) \/ Answer(r)
  \/ \E s \in {"PROCESSING", "FOLLOW_UP_REQUIRED", "COMPLETED", "FAILED"} :
       Create(r, s) \/ Settle(r, s)

Spec == Init /\ [][Next]_vars
=============================================================================
