----------------------------- MODULE AiRequest -----------------------------
(***************************************************************************)
(* Recommendation and eligibility requests: the calls that create, answer  *)
(* and read them, the runs that process them in the background, the        *)
(* transactions that mark a failed run, and the table locks they meet at.  *)
(*                                                                         *)
(* A request has at most three transactions: "make" creates its row, "run" *)
(* processes it, "mark" records that the run failed.  It comes in by       *)
(*   post   POST /requests: the run is a background task,                  *)
(*   sse    POST /recommendations/requests/stream,                         *)
(*   chat   run_recommendation_lifecycle, in a chat turn,                  *)
(*   graph  EligibilityGraphRunner, for the stream and the chat branch:    *)
(*          "make" also runs the request, in the same transaction.         *)
(*                                                                         *)
(* A transaction takes table locks in the order of its program and keeps   *)
(* them until it ends.  PostgreSQL locks what ALTER TABLE ... IF NOT       *)
(* EXISTS (AE) and CREATE INDEX IF NOT EXISTS (S) name also when there is  *)
(* nothing to do; queries take AS, and inserts and updates RE.             *)
(***************************************************************************)
EXTENDS Naturals, Sequences

CONSTANTS Recs, Eligs,    \* the recommendation and eligibility requests
          Answers, Reads, \* calls of submit_recommendation_answers and of GET
          About,          \* the request an answer or a read is about
          MaxFaults,      \* bound: failing statements, model calls, time limits
          MaxCrashes      \* bound: crashes of the server process

Requests == Recs \cup Eligs

ASSUME RequestAssumption ==
  /\ Recs \cap Eligs = {} /\ "none" \notin Requests
  /\ About \in [Answers \cup Reads -> Requests]
  /\ \A a \in Answers : About[a] \in Recs

ASSUME BoundAssumption == MaxFaults \in Nat /\ MaxCrashes \in Nat

Makes == {"make"} \X Requests
Runs  == {"run"} \X Requests
Marks == {"mark"} \X Requests
AnswerCalls == {"answer"} \X Answers
ReadCalls   == {"read"} \X Reads
Calls == Makes \cup AnswerCalls \cup ReadCalls
Transactions == Calls \cup Runs \cup Marks

VARIABLES
  tx, at,           \* a transaction, and how many locks of its program it has
  saw, found,       \* the status a call has read; is there a message already?
  via,              \* how the request came in
  status, resolved, \* the request's row: request_status, follow_up_resolved
  saved,            \* is there an assessment for it?
  posts,            \* result messages in its chat session
  faults, crashes

rowVars == <<via, status, resolved, saved, posts>>
vars == <<tx, at, saw, found, via, status, resolved, saved, posts, faults, crashes>>

\* READY, the status of a new row, is overwritten before the row is committed.
Statuses == {"none", "PROCESSING", "FOLLOW_UP_REQUIRED", "COMPLETED", "FAILED"}

TypeOK ==
  /\ tx \in [Transactions -> {"idle", "ready", "open", "ended"}]
  /\ at \in [Transactions -> 0..7]
  /\ saw \in [AnswerCalls \cup ReadCalls -> Statuses]
  /\ found \in [ReadCalls -> BOOLEAN]
  /\ via \in [Requests -> {"none", "post", "sse", "chat", "graph"}]
  /\ status \in [Requests -> Statuses] /\ resolved \in [Requests -> BOOLEAN]
  /\ saved \in [Requests -> BOOLEAN] /\ posts \in [Requests -> Nat]
  /\ faults \in 0..MaxFaults /\ crashes \in 0..MaxCrashes

Init ==
  /\ tx = [t \in Transactions |-> "idle"] /\ at = [t \in Transactions |-> 0]
  /\ saw = [t \in AnswerCalls \cup ReadCalls |-> "none"]
  /\ found = [t \in ReadCalls |-> FALSE]
  /\ via = [r \in Requests |-> "none"]
  /\ status = [r \in Requests |-> "none"] /\ resolved = [r \in Requests |-> FALSE]
  /\ saved = [r \in Requests |-> FALSE] /\ posts = [r \in Requests |-> 0]
  /\ faults = 0 /\ crashes = 0

Subject(t) == IF t \in AnswerCalls \cup ReadCalls THEN About[t[2]] ELSE t[2]

(***************************************************************************)
(* Table locks.                                                            *)
(***************************************************************************)
Own(r) == IF r \in Recs THEN "recommendation_request" ELSE "eligibility_request"

\* Mutant: ensure_user_schema runs nothing but queries.
SchemaUnlocked == << <<"users", "AS">>,
  <<"recommendation_request", "S">>, <<"eligibility_request", "S">>,
  <<"recommendation_request", "AE">>, <<"eligibility_request", "AE">> >>

\* What CurrentUserDep and ensure_request_schema lock before a row is inserted.
Schema == << <<"users", "AE">>,
             <<"recommendation_request", "S">>, <<"eligibility_request", "S">>,
             <<"recommendation_request", "AE">>, <<"eligibility_request", "AE">> >>

\* save_assessment, on a connection of its own that commits every statement.
Aside == <<"policy_assessment", "aside">>

\* Mutant: the assessment is looked up before it is saved.
MakeProgramLooks(r) ==
  IF via[r] = "graph" THEN Schema \o << <<"policy_assessment", "AS">>, Aside>>
                      ELSE Schema

MakeProgram(r) ==
  IF via[r] = "graph" THEN Schema \o <<Aside, <<"policy_assessment", "AS">> >>
                      ELSE Schema

RunProgram(r) ==
  IF r \in Recs
  THEN << <<Own(r), "AS">>, <<Own(r), "RE">>,
          <<"recommendation_candidate", "S">>, <<"recommendation_candidate", "RE">>,
          <<"policy_assessment", "AE">> >>
  ELSE << <<Own(r), "AS">>, <<Own(r), "RE">>, Aside >>

MarkProgram(r) == << <<Own(r), "AS">>, <<Own(r), "RE">> >>

\* Mutant: authentication only reads users.
AnswerProgramUnlocked(r) == << <<"users", "AS">>, <<Own(r), "AS">>, <<Own(r), "RE">> >>

AnswerProgram(r) == << <<"users", "AE">>, <<Own(r), "AS">>, <<Own(r), "RE">> >>

\* Mutant: authentication only reads users.
ReadProgramUnlocked(r) ==
  << <<"users", "AS">>, <<Own(r), "AS">>, <<"policy_assessment", "AS">>,
     <<"chat_message", "AS">>, <<"chat_message", "RE">> >>

ReadProgram(r) ==
  IF r \in Recs
  THEN << <<"users", "AE">>, <<Own(r), "AS">> >>
  ELSE << <<"users", "AE">>, <<Own(r), "AS">>, <<"policy_assessment", "AS">>,
          <<"chat_message", "AS">>, <<"chat_message", "RE">> >>

Program(t) ==
  LET r == Subject(t) IN
  CASE t \in Makes -> MakeProgram(r)
    [] t \in Runs -> RunProgram(r)
    [] t \in Marks -> MarkProgram(r)
    [] t \in AnswerCalls -> AnswerProgram(r)
    [] t \in ReadCalls -> ReadProgram(r)

Compatible == { {"AS"}, {"AS", "RE"}, {"AS", "S"}, {"RE"}, {"S"} }

Active(t) == tx[t] \in {"ready", "open"}
Finished(t) == tx[t] = "open" /\ at[t] = Len(Program(t))
Wanted(t) == Program(t)[at[t] + 1]
Holds(t) == LET p == Program(t) IN {p[i] : i \in 1..at[t]} \ {Aside}

\* Whose locks keep t from the next one.  A second connection finds those of
\* the first one in its way, too.
Blockers(t) == LET w == Wanted(t) IN { u \in Transactions :
  /\ at[u] > 0 /\ (u # t \/ w = Aside)
  /\ \E l \in Holds(u) : l[1] = w[1] /\ {l[2], w[2]} \notin Compatible }

Waiting(t) == Active(t) /\ at[t] < Len(Program(t)) /\ Blockers(t) # {}

\* PostgreSQL sees who waits for whom, but not what a client does on another
\* connection.
WaitsFor(t, u) == Waiting(t) /\ Wanted(t) # Aside /\ u \in Blockers(t)
Deadlocked(S) == S # {} /\ \A t \in S : \E u \in S : WaitsFor(t, u)
InDeadlock(t) == at[t] > 0 /\ Waiting(t) /\
  \E S \in SUBSET {u \in Transactions : at[u] > 0 /\ Waiting(u)} :
    t \in S /\ Deadlocked(S)

(***************************************************************************)
(* Locks are taken one at a time; what is read, is read with its lock.     *)
(***************************************************************************)
\* The selected conditions may have answered every question beforehand.
Start(r) ==
  /\ tx[<<"make", r>>] = "idle"
  /\ tx' = [tx EXCEPT ![<<"make", r>>] = "ready"]
  /\ \E v \in IF r \in Recs THEN {"post", "sse", "chat"} ELSE {"post", "graph"} :
       via' = [via EXCEPT ![r] = v]
  /\ \E b \in BOOLEAN : resolved' = [resolved EXCEPT ![r] = b]
  /\ UNCHANGED <<at, saw, found, status, saved, posts, faults, crashes>>

Call(t) ==
  /\ t \in AnswerCalls \cup ReadCalls /\ tx[t] = "idle"
  /\ tx' = [tx EXCEPT ![t] = "ready"]
  /\ UNCHANGED <<at, saw, found, faults, crashes, rowVars>>

\* A call goes on only if the row is there, an answer only if it is asked for,
\* a read only if there is a result the chat session does not have yet.
MayGoOn(t) ==
  \/ t \in Makes \cup Runs \cup Marks \/ at[t] < 2
  \/ t \in AnswerCalls /\ saw[t] = "FOLLOW_UP_REQUIRED"
  \/ /\ t \in ReadCalls /\ saw[t] # "none"
     /\ at[t] >= 3 => saw[t] # "PROCESSING"
     /\ ~found[t]

Acquire(t) ==
  /\ Active(t) /\ at[t] < Len(Program(t)) /\ MayGoOn(t) /\ Blockers(t) = {}
  /\ at' = [at EXCEPT ![t] = @ + 1] /\ tx' = [tx EXCEPT ![t] = "open"]
  /\ saw' = IF t \in AnswerCalls \cup ReadCalls /\ at[t] = 1
            THEN [saw EXCEPT ![t] = status[Subject(t)]] ELSE saw
  /\ found' = IF t \in ReadCalls /\ at[t] = 3
              THEN [found EXCEPT ![t] = posts[Subject(t)] > 0] ELSE found
  /\ saved' = IF Wanted(t) = Aside THEN [saved EXCEPT ![Subject(t)] = TRUE] ELSE saved
  /\ UNCHANGED <<via, status, resolved, posts, faults, crashes>>

\* The input alone raises a question: nothing is assessed.
AskUnassessed(r) ==
  LET t == <<"make", r>> IN
  /\ tx[t] = "open" /\ ~resolved[r]
  /\ at[t] < Len(Program(t)) /\ Wanted(t) = Aside
  /\ at' = [at EXCEPT ![t] = @ + 1]
  /\ UNCHANGED <<tx, saw, found, faults, crashes, rowVars>>

(***************************************************************************)
(* Commits.                                                                *)
(***************************************************************************)
\* t is over; u, if there is one, is queued.
Ends(t, queued) ==
  /\ tx' = [u \in Transactions |->
              IF u = t THEN "ended" ELSE IF u \in queued THEN "ready" ELSE tx[u]]
  /\ at' = [at EXCEPT ![t] = 0]
  /\ UNCHANGED <<saw, found, crashes>>

\* Mutant: mark_processing is left out.
InsertReady(r) ==
  /\ via[r] # "graph" /\ Finished(<<"make", r>>)
  /\ Ends(<<"make", r>>, {<<"run", r>>})
  /\ status' = [status EXCEPT ![r] = "READY"]
  /\ UNCHANGED <<via, resolved, saved, posts, faults>>

Insert(r) ==
  /\ via[r] # "graph" /\ Finished(<<"make", r>>)
  /\ Ends(<<"make", r>>, {<<"run", r>>})
  /\ status' = [status EXCEPT ![r] = "PROCESSING"]
  /\ UNCHANGED <<via, resolved, saved, posts, faults>>

Runner(r) == IF via[r] = "graph" THEN <<"make", r>> ELSE <<"run", r>>

\* Mutant: a request may ask again after its question was answered.
AskAgain(r) ==
  /\ Finished(Runner(r)) /\ Ends(Runner(r), {})
  /\ status' = [status EXCEPT ![r] = "FOLLOW_UP_REQUIRED"]
  /\ UNCHANGED <<via, resolved, saved, posts, faults>>

\* The gates: a question about the input, or about what the assessment misses.
Ask(r) ==
  /\ ~resolved[r]
  /\ \/ Finished(Runner(r))
     \/ via[r] # "graph" /\ tx[Runner(r)] = "open" /\ at[Runner(r)] = 2
  /\ Ends(Runner(r), {})
  /\ status' = [status EXCEPT ![r] = "FOLLOW_UP_REQUIRED"]
  /\ UNCHANGED <<via, resolved, saved, posts, faults>>

Complete(r) ==
  /\ Finished(Runner(r)) /\ (via[r] = "graph" => saved[r])
  /\ Ends(Runner(r), {})
  /\ status' = [status EXCEPT ![r] = "COMPLETED"]
  /\ UNCHANGED <<via, resolved, saved, posts, faults>>

MarkFailed(r) ==
  /\ Finished(<<"mark", r>>) /\ Ends(<<"mark", r>>, {})
  /\ status' = [status EXCEPT ![r] = "FAILED"]
  /\ UNCHANGED <<via, resolved, saved, posts, faults>>

\* The new run is a background task, however the request came in.
Answer(a) ==
  LET r == About[a] IN
  /\ Finished(<<"answer", a>>) /\ Ends(<<"answer", a>>, {<<"run", r>>})
  /\ status' = [status EXCEPT ![r] = "PROCESSING"]
  /\ resolved' = [resolved EXCEPT ![r] = TRUE]
  /\ via' = [via EXCEPT ![r] = "post"]
  /\ UNCHANGED <<saved, posts, faults>>

\* GET puts the result of an eligibility request into its chat session.
Reply(g) ==
  LET r == About[g] IN
  /\ Finished(<<"read", g>>) /\ Ends(<<"read", g>>, {})
  /\ posts' = IF r \in Eligs THEN [posts EXCEPT ![r] = @ + 1] ELSE posts
  /\ UNCHANGED <<via, status, resolved, saved, faults>>

Refuse(t) ==
  /\ tx[t] = "open" /\ ~MayGoOn(t) /\ Ends(t, {})
  /\ UNCHANGED <<rowVars, faults>>

(***************************************************************************)
(* Failures.                                                               *)
(***************************************************************************)
\* Mutant: background tasks do not mark what failed.
RollbackUnmarked(t) ==
  LET r == Subject(t) IN
  /\ Ends(t, IF t \in Runs /\ via[r] = "chat" THEN {<<"mark", r>>} ELSE {})
  /\ UNCHANGED rowVars

\* A failed run is marked, unless it belongs to an event stream.
Rollback(t) ==
  LET r == Subject(t) IN
  /\ Ends(t, IF t \in Runs /\ via[r] \in {"post", "chat"} THEN {<<"mark", r>>} ELSE {})
  /\ UNCHANGED rowVars

Fail(t) ==
  /\ Active(t) /\ faults < MaxFaults /\ faults' = faults + 1
  /\ Rollback(t)

\* SET LOCAL lock_timeout = '5s'
LockTimeout(t) ==
  /\ Waiting(t) /\ Wanted(t) # Aside
  /\ \/ t \in Runs /\ via[Subject(t)] \in {"post", "chat"}
     \/ t \in Makes /\ via[Subject(t)] \in {"chat", "graph"}
  /\ Rollback(t) /\ UNCHANGED faults

\* PostgreSQL ends one of those who wait for each other.
Deadlock(t) == InDeadlock(t) /\ Rollback(t) /\ UNCHANGED faults

\* The chat turn is cancelled; CancelledError is no Exception, nobody marks.
Cut(r) ==
  /\ via[r] \in {"chat", "graph"}
  /\ \E t \in {<<"make", r>>, <<"run", r>>, <<"mark", r>>} : Active(t) /\ Ends(t, {})
  /\ UNCHANGED <<rowVars, faults>>

\* The process dies and is started again; nothing looks for what it left.
Crash ==
  /\ crashes < MaxCrashes /\ crashes' = crashes + 1
  /\ tx' = [t \in Transactions |-> IF Active(t) THEN "ended" ELSE tx[t]]
  /\ at' = [t \in Transactions |-> 0]
  /\ UNCHANGED <<saw, found, faults, rowVars>>

Goes(t) ==
  \/ Acquire(t) \/ Refuse(t)
  \/ \E r \in Requests :
       \/ t = <<"make", r>> /\ Insert(r)
       \/ t = Runner(r) /\ (AskUnassessed(r) \/ Ask(r) \/ Complete(r))
       \/ t = <<"mark", r>> /\ MarkFailed(r)
  \/ \E a \in Answers : t = <<"answer", a>> /\ Answer(a)
  \/ \E g \in Reads : t = <<"read", g>> /\ Reply(g)

Next ==
  \/ \E r \in Requests : Start(r) \/ Cut(r)
  \/ \E t \in Transactions : Call(t) \/ Goes(t) \/ Fail(t) \/ LockTimeout(t) \/ Deadlock(t)
  \/ Crash

Spec == Init /\ [][Next]_vars

\* A transaction that can go on does; the deadlock detector wakes up.
FairSpec ==
  /\ Spec /\ WF_vars(\E t \in Transactions : Deadlock(t))
  /\ \A t \in Transactions : WF_vars(Goes(t))

(***************************************************************************)
(* Properties.                                                             *)
(***************************************************************************)
\* A question an answer was admitted for is still the request's status until
\* the answer commits: answers that race are not both run.
\* (submit_recommendation_answers checks the status without locking the row)
AnswerFindsQuestion == \A a \in Answers :
  tx[<<"answer", a>>] = "open" /\ saw[<<"answer", a>>] = "FOLLOW_UP_REQUIRED"
    => status[About[a]] = "FOLLOW_UP_REQUIRED"

\* However many clients poll it, a result is posted to the chat session once.
\* (persist_eligibility_result_message looks for the message, then inserts it)
PostedOnce == \A r \in Requests : posts[r] <= 1

\* Calls of clients do not deadlock with each other, only with runs and marks.
\* (ensure_request_schema upgrades S to AE: two creations would meet)
CallsNeverDeadlock == \A S \in SUBSET {t \in Calls : at[t] > 0} : ~Deadlocked(S)

Worked(r) == \E t \in {"make", "run", "mark"} \X {r} : Active(t)

\* A request that reads PROCESSING while nobody works on it has seen a crash, or its
\* mark did not get through, or it was asked for over an event stream or by a chat
\* turn.  Of these last two every request is excused: no failure of theirs is marked.
\* So a request of the form is never lost by races, deadlocks or failures alone.
StuckHasCause == \A r \in Requests :
  status[r] = "PROCESSING" /\ ~Worked(r) =>
    crashes > 0 \/ via[r] \in {"sse", "chat"} \/ tx[<<"mark", r>>] = "ended"

\* Every transaction ends, even if no time limit ends it: whoever waits, waits
\* for somebody who goes on or whom the deadlock detector finds.  Calls being
\* finitely many, that is to say that all of them are over again and again.
\* (save_assessment waits on a second connection, which PostgreSQL cannot see)
ComesToRest == []<>(\A t \in Transactions : ~Active(t))

\* The life of a request, without transactions and locks.
Promise == INSTANCE RequestPromise WITH
  resolved <- [r \in Requests |-> status[r] # "none" /\ resolved[r]]
PromiseSpec == Promise!Spec

(***************************************************************************)
(* The inductive invariant.                                                *)
(***************************************************************************)
OpenHolds == \A t \in Transactions : tx[t] = "open" <=> at[t] > 0

\* Every call locks users first, and keeps that lock.
OneCall == \A t, u \in Calls : at[t] > 0 /\ at[u] > 0 => t = u

NewUntilMade == \A r \in Requests :
  tx[<<"make", r>>] # "ended" => status[r] = "none"

WorkedIsProcessing == \A r \in Requests :
  /\ Active(<<"run", r>>) \/ Active(<<"mark", r>>) => status[r] = "PROCESSING"
  /\ ~(Active(<<"run", r>>) /\ Active(<<"mark", r>>))

ProcessingIsSourced == \A r \in Requests :
  /\ tx[<<"make", r>>] # "idle" => via[r] # "none"
  /\ status[r] = "PROCESSING" => via[r] \in {"post", "sse", "chat"}
  /\ status[r] = "FOLLOW_UP_REQUIRED" => ~resolved[r]

AnswerReads == \A t \in AnswerCalls :
  /\ tx[t] # "ended" /\ at[t] < 2 => saw[t] = "none"
  /\ at[t] > 2 => saw[t] = "FOLLOW_UP_REQUIRED"

ReadLooks == \A t \in ReadCalls :
  /\ at[t] > 3 /\ ~found[t] => posts[Subject(t)] = 0
  /\ at[t] > 4 => ~found[t]

IInv ==
  /\ OpenHolds /\ OneCall /\ NewUntilMade /\ WorkedIsProcessing
  /\ ProcessingIsSourced /\ AnswerReads /\ AnswerFindsQuestion
  /\ ReadLooks /\ PostedOnce /\ StuckHasCause

\* docs/FIELD_MAPPING.md:171, "PROCESSING: the agent is running"
ProcessingIsRunning == crashes > 0 \/ \A r \in Requests :
  status[r] = "PROCESSING" => Worked(r)
=============================================================================
