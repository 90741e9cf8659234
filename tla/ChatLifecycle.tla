---------------------------- MODULE ChatLifecycle ----------------------------
(***************************************************************************)
(* What the chat request lifecycle promises, without handlers, locks,      *)
(* tasks or a server: a request is accepted once per idempotency key, gets *)
(* one final status, and has an answer exactly if that status is           *)
(* "completed".  The one weakness is stated openly: a request whose commit *)
(* overtook its recovery (raced) may be completed over a final status.     *)
(***************************************************************************)
EXTENDS Naturals

CONSTANTS Requests, Sessions, SessionOf, Keys, NoKey, KeyOf

VARIABLES status, answers, asked, raced, open

vars == <<status, answers, asked, raced, open>>

Final == {"completed", "failed", "cancelled"}

Clash(q, r) == /\ SessionOf[q] = SessionOf[r] /\ KeyOf[q] = KeyOf[r]
               /\ KeyOf[r] # NoKey

Init ==
  /\ status = [r \in Requests |-> "none"]
  /\ answers = [r \in Requests |-> 0]
  /\ asked = [r \in Requests |-> FALSE]
  /\ raced = [r \in Requests |-> FALSE]
  /\ open = [s \in Sessions |-> TRUE]

SetTo(r, st) ==
  /\ status' = [status EXCEPT ![r] = st]
  /\ answers' = [answers EXCEPT ![r] = IF st = "completed" THEN @ + 1 ELSE @]

\* An accepted commit may race with the end of its recovery, too.
Accept(r) ==
  /\ status[r] = "none" /\ open[SessionOf[r]]
  /\ \A q \in Requests : Clash(q, r) => status[q] \in {"none", "deleted"}
  /\ SetTo(r, "processing")
  /\ raced' \in {raced, [raced EXCEPT ![r] = TRUE]}
  /\ UNCHANGED <<asked, open>>

\* Only a request somebody asked to cancel is cancelled.
Settle(r, st) ==
  /\ status[r] = "processing" /\ (st = "cancelled" => asked[r])
  /\ SetTo(r, st)
  /\ raced' \in {raced, [raced EXCEPT ![r] = TRUE]}
  /\ UNCHANGED <<asked, open>>

Overwrite(r) ==
  /\ raced[r] /\ status[r] \in Final /\ SetTo(r, "completed")
  /\ UNCHANGED <<asked, raced, open>>

\* Stale requests are failed together.
Expire(R) ==
  /\ \A r \in R : status[r] = "processing"
  /\ status' = [r \in Requests |-> IF r \in R THEN "failed" ELSE status[r]]
  /\ UNCHANGED <<answers, asked, raced, open>>

Ask(R) ==
  /\ asked' = [r \in Requests |-> asked[r] \/ r \in R]
  /\ UNCHANGED <<status, answers, raced, open>>

Close(S) ==
  /\ open' = [s \in Sessions |-> open[s] /\ s \notin S]
  /\ status' = [r \in Requests |->
       IF SessionOf[r] \in S /\ status[r] # "none" THEN "deleted" ELSE status[r]]
  /\ answers' = [r \in Requests |->
       IF SessionOf[r] \in S THEN 0 ELSE answers[r]]
  /\ UNCHANGED <<asked, raced>>

Next ==
  \/ \E r \in Requests : \/ Accept(r) \/ Overwrite(r)
                         \/ \E st \in Final : Settle(r, st)
  \/ \E R \in SUBSET Requests : Expire(R) \/ Ask(R)
  \/ \E S \in SUBSET Sessions : Close(S)

Spec == Init /\ [][Next]_vars
=============================================================================
