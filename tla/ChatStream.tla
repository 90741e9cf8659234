------------------------------ MODULE ChatStream ------------------------------
(***************************************************************************)
(* The life of one streamed chat request, POST                             *)
(* /chat/sessions/{id}/messages/stream: ChatService.send_message_stream,   *)
(* its disconnect recovery task, the cancel registry, session deletion and *)
(* the startup sweep of stale requests.                                    *)
(*                                                                         *)
(* A handler is one run of the async generator.  Its pc names the await it *)
(* stands at; other coroutines run, and a cancellation can be delivered,   *)
(* only there.  The request row a handler creates and the answers saved to *)
(* its user message are indexed by the handler itself.                     *)
(*                                                                         *)
(*   lookup  loading history, looking the idempotency key up               *)
(*   insert  saving the user message and the processing row                *)
(*   route   classifying a follow-up answer                                *)
(*   assess  re-running the eligibility pipeline for a follow-up answer    *)
(*   stream  waiting for the chat task (gone: in the CancelledError arm)   *)
(*   check   is_cancelled_or_deleted, before saving                        *)
(*   lock    _persist_success, waiting for the session row lock            *)
(*   save    _persist_success, lock held, up to and including the commit   *)
(*   fail    _mark_failed          cancel  _mark_cancelled                 *)
(*   reply   the last event is about to be yielded                         *)
(*   ended   the generator returned or raised                              *)
(*   lost    its handling of an error or a cancellation raised in turn, on *)
(*           the expired chat_request object: no mark, no recovery task    *)
(***************************************************************************)
EXTENDS Naturals, FiniteSets

CONSTANTS Handlers,    \* runs of send_message_stream
          Sessions,    \* chat sessions
          Keys, NoKey, \* idempotency keys, and none
          SessionOf,   \* the session a handler posts to
          KeyOf,       \* the key its client sent
          Deletes,     \* calls of delete_session / bulk_delete_sessions
          TargetsOf,   \* the sessions such a call names
          MaxFaults,   \* bound: failing database calls
          MaxCrashes   \* bound: crashes of the server process

ASSUME HandlerAssumption ==
  /\ SessionOf \in [Handlers -> Sessions]
  /\ KeyOf \in [Handlers -> Keys \cup {NoKey}]
  /\ NoKey \notin Keys

ASSUME DeleteAssumption == TargetsOf \in [Deletes -> (SUBSET Sessions) \ {{}}]

ASSUME BoundAssumption == MaxFaults \in Nat /\ MaxCrashes \in Nat

VARIABLES
  pc, gone, flow, sent,  \* the generators and what their clients were sent
  cancelled,             \* the cancel events of the registry
  rec,                   \* the recovery tasks
  delpc,                 \* the deleting calls
  row, answers, old,     \* chat_request.status, assistant messages, age
  inflight, late,        \* COMMITs whose client was cancelled meanwhile
  live, lock,            \* chat_session rows and their FOR UPDATE locks
  up, crashes, faults    \* the server process, and what went wrong so far

clientVars == <<gone, flow, sent>>
dbVars     == <<row, answers, old, inflight, late, live>>
envVars    == <<up, crashes>>
vars == <<pc, gone, flow, sent, cancelled, rec, delpc, row, answers, old,
          inflight, late, live, lock, up, crashes, faults>>

Final  == {"completed", "failed", "cancelled"}
Status == Final \cup {"processing"}
PCs == {"idle", "lookup", "insert", "route", "assess", "stream", "check",
        "lock", "save", "fail", "cancel", "reply", "ended", "lost"}
Inactive == {"idle", "ended", "lost"}
Recs     == {"none", "run", "read", "lock", "save", "mark", "ended"}
Events   == {"none", "accepted", "done", "cancelled", "error", "aborted"}
Holders  == Handlers \X {"stream", "recovery"}

TypeOK ==
  /\ pc \in [Handlers -> PCs] /\ gone \in [Handlers -> BOOLEAN]
  /\ flow \in [Handlers -> {"none", "general", "clarify", "chat"}]
  /\ sent \in [Handlers -> Events] /\ cancelled \in [Handlers -> BOOLEAN]
  /\ rec \in [Handlers -> Recs]
  /\ delpc \in [Deletes -> {"idle", "cancelled", "done", "rejected"}]
  /\ row \in [Handlers -> Status \cup {"none", "deleted"}]
  /\ answers \in [Handlers -> Nat] /\ old \in [Handlers -> BOOLEAN]
  /\ inflight \in [Handlers -> Status \cup {"none"}]
  /\ late \in [Handlers -> BOOLEAN] /\ live \in [Sessions -> BOOLEAN]
  /\ lock \in [Sessions -> SUBSET Holders]
  /\ up \in BOOLEAN /\ crashes \in Nat /\ faults \in Nat

Init ==
  /\ pc = [h \in Handlers |-> "idle"] /\ gone = [h \in Handlers |-> FALSE]
  /\ flow = [h \in Handlers |-> "none"] /\ sent = [h \in Handlers |-> "none"]
  /\ cancelled = [h \in Handlers |-> FALSE]
  /\ rec = [h \in Handlers |-> "none"]
  /\ delpc = [d \in Deletes |-> "idle"]
  /\ row = [h \in Handlers |-> "none"] /\ answers = [h \in Handlers |-> 0]
  /\ old = [h \in Handlers |-> FALSE]
  /\ inflight = [h \in Handlers |-> "none"]
  /\ late = [h \in Handlers |-> FALSE]
  /\ live = [s \in Sessions |-> TRUE] /\ lock = [s \in Sessions |-> {}]
  /\ up = TRUE /\ crashes = 0 /\ faults = 0

-----------------------------------------------------------------------------
(* Helpers. *)

Alive(h) == live[SessionOf[h]]

\* UNIQUE(chat_session_id, idempotency_key): NULL keys never conflict.
SameKey(g, h) == /\ SessionOf[g] = SessionOf[h] /\ KeyOf[g] = KeyOf[h]
                 /\ KeyOf[h] # NoKey

\* find_by_idempotency_key
Existing(h) == {g \in Handlers : SameKey(g, h) /\ row[g] \in Status}

\* The unique index makes an INSERT wait for an uncommitted equal key.
KeyBusy(h) == \E g \in Handlers : SameKey(g, h) /\ inflight[g] = "processing"

\* FOR UPDATE waits for the holder, and for the share locks on the session row
\* that an uncommitted insert of a message or request holds.
Lockable(s) == /\ lock[s] = {}
               /\ \A g \in Handlers : SessionOf[g] = s => inflight[g] # "processing"

Goto(h, p) == pc' = [pc EXCEPT ![h] = p]

\* The row takes status st in the transaction that also saves the answer.
Land(h, st) ==
  /\ row' = [row EXCEPT ![h] = st]
  /\ answers' = [answers EXCEPT ![h] = IF st = "completed" THEN @ + 1 ELSE @]

\* mark_failed / mark_cancelled write only a row that still reads processing.
Mark(h, st) == IF row[h] = "processing" THEN Land(h, st)
                                        ELSE UNCHANGED <<row, answers>>

Release(h, who) == lock' = [lock EXCEPT ![SessionOf[h]] = @ \ {<<h, who>>}]

\* Yield the last event, unless the client is gone.
Answer(h, event) ==
  IF gone[h] THEN Goto(h, "ended") /\ UNCHANGED sent
             ELSE Goto(h, "reply") /\ sent' = [sent EXCEPT ![h] = event]

\* The generator raises: the stream breaks off without a last event.
Break(h) == sent' = [sent EXCEPT ![h] = IF gone[h] THEN @ ELSE "aborted"]
Abort(h) == Goto(h, "ended") /\ Break(h)

Fault == faults < MaxFaults /\ faults' = faults + 1

-----------------------------------------------------------------------------
(* The generator, with nothing going wrong. *)

\* The body starts: a fresh cancel event is registered.
Open(h) ==
  /\ up /\ pc[h] = "idle" /\ Goto(h, "lookup")
  /\ cancelled' = [cancelled EXCEPT ![h] = FALSE]
  /\ UNCHANGED <<clientVars, rec, delpc, dbVars, lock, envVars, faults>>

\* _yield_existing_request
Replay(h, g) ==
  \/ row[g] = "completed"  /\ Answer(h, "done")
  \/ row[g] = "processing" /\ Answer(h, "accepted")
  \/ row[g] = "cancelled"  /\ Answer(h, "cancelled")
  \/ row[g] = "failed"     /\ Answer(h, "error")

Lookup(h) ==
  /\ up /\ pc[h] = "lookup"
  /\ IF Existing(h) = {} THEN Goto(h, "insert") /\ UNCHANGED sent
                         ELSE \E g \in Existing(h) : Replay(h, g)
  /\ UNCHANGED <<gone, flow, cancelled, rec, delpc, dbVars, lock, envVars,
                 faults>>

\* Mutant: no unique index behind the lookup.
InsertUnchecked(h) ==
  /\ up /\ pc[h] = "insert" /\ Alive(h) /\ lock[SessionOf[h]] = {}
  /\ Land(h, "processing") /\ Goto(h, "route")
  /\ UNCHANGED <<clientVars, cancelled, rec, delpc, old, inflight, late,
                 live, lock, envVars, faults>>

\* Mutant: no foreign key from the request to its session.
InsertAnywhere(h) ==
  /\ up /\ pc[h] = "insert" /\ lock[SessionOf[h]] = {}
  /\ Existing(h) = {} /\ ~KeyBusy(h)
  /\ Land(h, "processing") /\ Goto(h, "route")
  /\ UNCHANGED <<clientVars, cancelled, rec, delpc, old, inflight, late,
                 live, lock, envVars, faults>>

\* User message and processing row in one commit, then the accepted event.
\* The foreign key check shares the session row: it waits for its lock.
Insert(h) ==
  /\ up /\ pc[h] = "insert" /\ Alive(h) /\ lock[SessionOf[h]] = {}
  /\ Existing(h) = {} /\ ~KeyBusy(h)
  /\ Land(h, "processing") /\ Goto(h, "route")
  /\ UNCHANGED <<clientVars, cancelled, rec, delpc, old, inflight, late,
                 live, lock, envVars, faults>>

\* IntegrityError: an equal key was committed since the lookup, which is then
\* replayed, or the session was deleted, and the error goes up.
InsertRefused(h) ==
  /\ up /\ pc[h] = "insert"
  /\ \/ \E g \in Existing(h) : Replay(h, g)
     \/ ~Alive(h) /\ Abort(h)
  /\ UNCHANGED <<gone, flow, cancelled, rec, delpc, dbVars, lock, envVars,
                 faults>>

\* The slot read with the session decides whether there is an open follow-up,
\* the classifier what the message is: an answer to it, a question about it,
\* or anything else, which goes to the chat task.
Route(h) ==
  /\ up /\ pc[h] = "route"
  /\ \/ flow' = [flow EXCEPT ![h] = "general"] /\ Goto(h, "assess")
     \/ flow' = [flow EXCEPT ![h] = "clarify"] /\ Goto(h, "lock")
     \/ flow' = [flow EXCEPT ![h] = "chat"] /\ Goto(h, "stream")
  /\ UNCHANGED <<gone, sent, cancelled, rec, delpc, dbVars, lock, envVars,
                 faults>>

\* The eligibility pipeline returns a result, or None for any exception.
Assess(h) ==
  /\ up /\ pc[h] = "assess"
  /\ Goto(h, "lock") \/ Goto(h, "fail")
  /\ UNCHANGED <<clientVars, cancelled, rec, delpc, dbVars, lock, envVars,
                 faults>>

\* The loop looks at the cancel event before each wait on the queue.
Poll(h) ==
  /\ up /\ pc[h] = "stream" /\ cancelled[h] /\ ~gone[h] /\ Goto(h, "cancel")
  /\ UNCHANGED <<clientVars, cancelled, rec, delpc, dbVars, lock, envVars,
                 faults>>

\* The chat task ends with a payload, or without one.
StreamEnd(h) ==
  /\ up /\ pc[h] = "stream"
  /\ Goto(h, IF gone[h] THEN "lock" ELSE "check") \/ Goto(h, "fail")
  /\ UNCHANGED <<clientVars, cancelled, rec, delpc, dbVars, lock, envVars,
                 faults>>

Check(h) ==
  /\ up /\ pc[h] = "check"
  /\ Goto(h, IF cancelled[h] \/ ~Alive(h) THEN "cancel" ELSE "lock")
  /\ UNCHANGED <<clientVars, cancelled, rec, delpc, dbVars, lock, envVars,
                 faults>>

\* Mutant: a plain SELECT, which waits for nobody.
LockPlain(h) ==
  /\ up /\ pc[h] = "lock"
  /\ IF Alive(h)
     THEN /\ lock' = [lock EXCEPT ![SessionOf[h]] = @ \cup {<<h, "stream">>}]
          /\ Goto(h, "save")
     ELSE Goto(h, "fail") /\ UNCHANGED lock
  /\ UNCHANGED <<clientVars, cancelled, rec, delpc, dbVars, envVars, faults>>

\* Mutant: a missing session is not noticed.
LockBlind(h) ==
  /\ up /\ pc[h] = "lock" /\ Lockable(SessionOf[h]) /\ Goto(h, "save")
  /\ lock' = [lock EXCEPT ![SessionOf[h]] = {<<h, "stream">>}]
  /\ UNCHANGED <<clientVars, cancelled, rec, delpc, dbVars, envVars, faults>>

\* lock_session_for_slot_update: SELECT ... FOR UPDATE, None if it is gone.
Lock(h) ==
  /\ up /\ pc[h] = "lock" /\ Lockable(SessionOf[h])
  /\ IF Alive(h)
     THEN /\ lock' = [lock EXCEPT ![SessionOf[h]] = {<<h, "stream">>}]
          /\ Goto(h, "save")
     ELSE Goto(h, "fail") /\ UNCHANGED lock
  /\ UNCHANGED <<clientVars, cancelled, rec, delpc, dbVars, envVars, faults>>

\* CHECK (action_type IN (...)) on chat_message_policy, and the action types
\* of the policy links the branches hand to persist_assistant_outputs.  A link
\* whose policy is not in the database is dropped before the insert.
AllowedActionTypes ==
  {"RECOMMENDED", "COMPARED", "ELIGIBILITY_TARGET", "APPLY_TARGET"}

LinkSets(h) ==
  CASE flow[h] = "general" -> {{}, {"ELIGIBILITY"}}
    [] flow[h] = "chat"    -> {{}} \cup {{t} : t \in AllowedActionTypes}
    [] OTHER               -> {{}}

\* Answer, links, slot and status in one commit: the row is not re-read.
Save(h) ==
  /\ up /\ pc[h] = "save"
  /\ \E links \in LinkSets(h) : links \subseteq AllowedActionTypes
  /\ Land(h, "completed") /\ Release(h, "stream") /\ Answer(h, "done")
  /\ UNCHANGED <<gone, flow, cancelled, rec, delpc, old, inflight, late, live,
                 envVars, faults>>

\* The flush of the links fails and expires chat_request with everything else
\* in the session: the except clause reads its id for _mark_failed and raises.
SaveRejected(h) ==
  /\ up /\ pc[h] = "save"
  /\ \E links \in LinkSets(h) : ~(links \subseteq AllowedActionTypes)
  /\ Release(h, "stream") /\ Goto(h, "lost") /\ Break(h)
  /\ UNCHANGED <<gone, flow, cancelled, rec, delpc, dbVars, envVars, faults>>

\* Mutant: the event's name is stored for the status.
MarkEvent(h, st, event) ==
  /\ Mark(h, event) /\ Answer(h, event)
  /\ UNCHANGED <<gone, flow, cancelled, rec, delpc, old, inflight, late, live,
                 lock, envVars, faults>>

\* _mark_failed / _mark_cancelled: rollback, read again, mark, commit, event.
\* The rollback expires the ORM object and only a row that is still there
\* reloads it; without one the event cannot be built from it.
MarkAs(h, st, event) ==
  /\ Mark(h, st)
  /\ Answer(h, event) \/ (row[h] \notin Status /\ Abort(h))
  /\ UNCHANGED <<gone, flow, cancelled, rec, delpc, old, inflight, late, live,
                 lock, envVars, faults>>

MarkFailed(h)    == up /\ pc[h] = "fail"   /\ MarkAs(h, "failed", "error")
MarkCancelled(h) == up /\ pc[h] = "cancel" /\ MarkAs(h, "cancelled", "cancelled")

Reply(h) ==
  /\ up /\ pc[h] = "reply" /\ Goto(h, "ended")
  /\ UNCHANGED <<clientVars, cancelled, rec, delpc, dbVars, lock, envVars,
                 faults>>

-----------------------------------------------------------------------------
(* The client goes away: CancelledError at the await the handler stands at.  *)

\* Mutant: a lost connection is a cancellation.
DisconnectCancels(h) ==
  /\ up /\ pc[h] = "stream" /\ ~gone[h] /\ Goto(h, "cancel")
  /\ gone' = [gone EXCEPT ![h] = TRUE]
  /\ UNCHANGED <<flow, sent, cancelled, rec, delpc, dbVars, lock, envVars,
                 faults>>

\* In the queue loop it is caught: the handler goes on waiting for its task.
DisconnectStream(h) ==
  /\ up /\ pc[h] = "stream" /\ ~gone[h]
  /\ gone' = [gone EXCEPT ![h] = TRUE]
  /\ UNCHANGED <<pc, flow, sent, cancelled, rec, delpc, dbVars, lock, envVars,
                 faults>>

\* No request yet, or the last event is out of the generator's hands.
DisconnectQuiet(h) ==
  /\ up /\ pc[h] \in {"lookup", "insert", "reply"} /\ Goto(h, "ended")
  /\ sent' = [sent EXCEPT ![h] = "none"]
  /\ UNCHANGED <<gone, flow, cancelled, rec, delpc, dbVars, lock, envVars,
                 faults>>

\* The outer handler schedules the recovery task.  While the client's scope
\* stays cancelled this also cuts short the handling of a first cancellation.
Recover(h) == Goto(h, "ended") /\ rec' = [rec EXCEPT ![h] = "run"]

\* Mutant: no recovery task is scheduled.
DisconnectForgets(h) ==
  /\ up /\ pc[h] \in {"route", "assess", "check", "lock", "save", "fail", "cancel"}
  /\ Goto(h, "ended") /\ Release(h, "stream")
  /\ UNCHANGED <<clientVars, cancelled, rec, delpc, dbVars, envVars, faults>>

\* Mutant: the transaction is left open.
DisconnectHolds(h) ==
  /\ up /\ pc[h] \in {"route", "assess", "check", "lock", "save", "fail", "cancel"}
  /\ Recover(h)
  /\ UNCHANGED <<clientVars, cancelled, delpc, dbVars, lock, envVars, faults>>

Disconnect(h) ==
  /\ up /\ \/ pc[h] \in {"route", "assess", "check", "lock", "save", "fail", "cancel"}
           \/ pc[h] = "stream" /\ gone[h]
  /\ Recover(h) /\ Release(h, "stream")
  /\ UNCHANGED <<clientVars, cancelled, delpc, dbVars, envVars, faults>>

\* In a COMMIT: it took effect, or the server gets to it after the handler is
\* gone, still holding the transaction's locks.  (That it never does is
\* Disconnect, or for the first commit DisconnectInsert's last disjunct.)
CommitCut(h, st) ==
  \/ Land(h, st) /\ Release(h, "stream") /\ UNCHANGED inflight
  \/ inflight' = [inflight EXCEPT ![h] = st] /\ UNCHANGED <<row, answers, lock>>

DisconnectInsert(h) ==
  /\ up /\ pc[h] = "insert" /\ Alive(h) /\ lock[SessionOf[h]] = {}
  /\ Existing(h) = {} /\ ~KeyBusy(h)
  /\ Recover(h)
  /\ CommitCut(h, "processing") \/ UNCHANGED <<row, answers, lock, inflight>>
  /\ UNCHANGED <<clientVars, cancelled, delpc, old, late, live, envVars,
                 faults>>

DisconnectCommit(h) ==
  /\ up /\ Recover(h)
  /\ \/ /\ pc[h] = "save"
        /\ \E links \in LinkSets(h) : links \subseteq AllowedActionTypes
        /\ CommitCut(h, "completed")
     \/ pc[h] = "fail" /\ row[h] = "processing" /\ CommitCut(h, "failed")
     \/ pc[h] = "cancel" /\ row[h] = "processing" /\ CommitCut(h, "cancelled")
  /\ UNCHANGED <<clientVars, cancelled, delpc, old, late, live, envVars,
                 faults>>

\* Between a rollback, the one of a failed flush included, and the next read
\* of the row chat_request is expired: the outer handler's access to
\* chat_request.request_id raises, and no recovery is scheduled.
DisconnectExpired(h) ==
  /\ up /\ pc[h] \in {"save", "fail", "cancel"} /\ Goto(h, "lost")
  /\ Release(h, "stream")
  /\ UNCHANGED <<clientVars, cancelled, rec, delpc, dbVars, envVars, faults>>

-----------------------------------------------------------------------------
(* The recovery task: it runs the chat again and saves what comes out.  The  *)
(* chat never fails, run_chat turns exceptions into a fallback payload.      *)

\* _run_chat comes first, before anything is known of the request.
RecoveryChat(h) ==
  /\ up /\ rec[h] = "run" /\ rec' = [rec EXCEPT ![h] = "read"]
  /\ UNCHANGED <<pc, clientVars, cancelled, delpc, dbVars, lock, envVars,
                 faults>>

\* Mutant: the recovery does not look at the status.
RecoveryBlind(h) ==
  /\ up /\ rec[h] = "read" /\ rec' = [rec EXCEPT ![h] = "lock"]
  /\ UNCHANGED <<pc, clientVars, cancelled, delpc, dbVars, lock, envVars,
                 faults>>

\* Then the status: only a request that reads processing is saved.
RecoveryRead(h) ==
  /\ up /\ rec[h] = "read"
  /\ rec' = [rec EXCEPT ![h] = IF row[h] = "processing" THEN "lock" ELSE "ended"]
  /\ UNCHANGED <<pc, clientVars, cancelled, delpc, dbVars, lock, envVars,
                 faults>>

\* Without the session the row is gone too: marking it fails and is given up.
RecoveryLock(h) ==
  /\ up /\ rec[h] = "lock" /\ Lockable(SessionOf[h])
  /\ IF Alive(h)
     THEN /\ lock' = [lock EXCEPT ![SessionOf[h]] = {<<h, "recovery">>}]
          /\ rec' = [rec EXCEPT ![h] = "save"]
     ELSE rec' = [rec EXCEPT ![h] = "ended"] /\ UNCHANGED lock
  /\ UNCHANGED <<pc, clientVars, cancelled, delpc, dbVars, envVars, faults>>

\* Writes the row wait for a commit of the old handler that is in flight.
RecoverySave(h) ==
  /\ up /\ rec[h] = "save" /\ inflight[h] = "none"
  /\ Land(h, "completed") /\ Release(h, "recovery")
  /\ rec' = [rec EXCEPT ![h] = "ended"]
  /\ UNCHANGED <<pc, clientVars, cancelled, delpc, old, inflight, late, live,
                 envVars, faults>>

RecoveryMark(h) ==
  /\ up /\ rec[h] = "mark" /\ inflight[h] = "none"
  /\ Mark(h, "failed") /\ rec' = [rec EXCEPT ![h] = "ended"]
  /\ UNCHANGED <<pc, clientVars, cancelled, delpc, old, inflight, late, live,
                 lock, envVars, faults>>

-----------------------------------------------------------------------------
(* Deleting sessions. *)

\* Mutant: authentication does not lock the users table.
DeleteBeginUnlocked(d) ==
  /\ up /\ delpc[d] = "idle"
  /\ IF \A s \in TargetsOf[d] : live[s]
     THEN /\ delpc' = [delpc EXCEPT ![d] = "cancelled"]
          /\ cancelled' = [h \in Handlers |->
               cancelled[h] \/ (SessionOf[h] \in TargetsOf[d] /\ pc[h] \notin Inactive)]
     ELSE delpc' = [delpc EXCEPT ![d] = "rejected"] /\ UNCHANGED cancelled
  /\ UNCHANGED <<pc, clientVars, rec, dbVars, lock, envVars, faults>>

\* The caller is authenticated in the transaction of the deletion, and
\* ensure_user_schema's ALTER TABLE locks users until that ends: one deletion
\* at a time.  (A stream is authenticated in a transaction before its own.)
\* All named sessions must be found; then their streams' events are set.
DeleteBegin(d) ==
  /\ up /\ delpc[d] = "idle" /\ \A e \in Deletes : delpc[e] # "cancelled"
  /\ IF \A s \in TargetsOf[d] : live[s]
     THEN /\ delpc' = [delpc EXCEPT ![d] = "cancelled"]
          /\ cancelled' = [h \in Handlers |->
               cancelled[h] \/ (SessionOf[h] \in TargetsOf[d] /\ pc[h] \notin Inactive)]
     ELSE delpc' = [delpc EXCEPT ![d] = "rejected"] /\ UNCHANGED cancelled
  /\ UNCHANGED <<pc, clientVars, rec, dbVars, lock, envVars, faults>>

\* DELETE cascades to messages and requests, and waits for their locks.  A
\* bulk delete that finds a session gone meanwhile is rolled back as a whole;
\* the cancel events stay set.
DeleteEnd(d) ==
  /\ up /\ delpc[d] = "cancelled"
  /\ \A s \in TargetsOf[d] :
       /\ lock[s] = {}
       /\ \A h \in Handlers : SessionOf[h] = s => inflight[h] = "none"
  /\ IF \A s \in TargetsOf[d] : live[s]
     THEN /\ delpc' = [delpc EXCEPT ![d] = "done"]
          /\ live' = [s \in Sessions |-> live[s] /\ s \notin TargetsOf[d]]
          /\ row' = [h \in Handlers |->
               IF SessionOf[h] \in TargetsOf[d] /\ row[h] \in Status
               THEN "deleted" ELSE row[h]]
          /\ answers' = [h \in Handlers |->
               IF SessionOf[h] \in TargetsOf[d] THEN 0 ELSE answers[h]]
     ELSE /\ delpc' = [delpc EXCEPT ![d] = IF Cardinality(TargetsOf[d]) = 1
                                           THEN "done" ELSE "rejected"]
          /\ UNCHANGED <<live, row, answers>>
  /\ UNCHANGED <<pc, clientVars, cancelled, rec, old, inflight, late, lock,
                 envVars, faults>>

-----------------------------------------------------------------------------
(* Database errors.  Each is one failing call. *)

\* Outside every inner try: nothing marks the row.
FaultUnguarded(h) ==
  /\ up /\ Fault /\ pc[h] \in {"lookup", "insert", "assess", "check"}
  /\ Abort(h)
  /\ UNCHANGED <<gone, flow, cancelled, rec, delpc, dbVars, lock, envVars>>

\* Mutant: the message is committed before the slots and the status.
FaultSaveHalf(h) ==
  /\ up /\ Fault /\ pc[h] = "save"
  /\ Release(h, "stream") /\ Goto(h, "fail")
  /\ answers' = [answers EXCEPT ![h] = @ + 1]
  /\ UNCHANGED <<clientVars, cancelled, rec, delpc, row, old, inflight, late,
                 live, envVars>>

\* Mutant: done is sent without waiting for the commit.
FaultSaveTold(h) ==
  /\ up /\ Fault /\ pc[h] = "save"
  /\ Release(h, "stream") /\ Answer(h, "done")
  /\ UNCHANGED <<gone, flow, cancelled, rec, delpc, dbVars, envVars>>

\* A query or the commit fails.
FaultSave(h) ==
  /\ up /\ Fault /\ pc[h] \in {"lock", "save"}
  /\ Release(h, "stream") /\ Goto(h, "fail")
  /\ UNCHANGED <<clientVars, cancelled, rec, delpc, dbVars, envVars>>

\* A flush fails: see SaveRejected.
FaultFlush(h) ==
  /\ up /\ Fault /\ pc[h] = "save"
  /\ Release(h, "stream") /\ Goto(h, "lost") /\ Break(h)
  /\ UNCHANGED <<gone, flow, cancelled, rec, delpc, dbVars, envVars>>

\* Swallowed, but the rollback expires chat_request: there is no event.
FaultMark(h) ==
  /\ up /\ Fault /\ pc[h] \in {"fail", "cancel"} /\ Abort(h)
  /\ UNCHANGED <<gone, flow, cancelled, rec, delpc, dbVars, lock, envVars>>

FaultRecovery(h) ==
  /\ up /\ Fault /\ rec[h] \in {"read", "lock", "save", "mark"}
  /\ rec' = [rec EXCEPT ![h] = IF @ = "mark" THEN "ended" ELSE "mark"]
  /\ Release(h, "recovery")
  /\ UNCHANGED <<pc, clientVars, cancelled, delpc, dbVars, envVars>>

FaultDelete(d) ==
  /\ up /\ Fault /\ delpc[d] = "cancelled"
  /\ delpc' = [delpc EXCEPT ![d] = "rejected"]
  /\ UNCHANGED <<pc, clientVars, cancelled, rec, dbVars, lock, envVars>>

-----------------------------------------------------------------------------
(* The database and the server process. *)

\* The server gets to a COMMIT whose handler is gone.  late: the recovery
\* task has already read the row.
LateCommit(h) ==
  /\ inflight[h] # "none" /\ Land(h, inflight[h]) /\ Release(h, "stream")
  /\ inflight' = [inflight EXCEPT ![h] = "none"]
  /\ late' = [late EXCEPT ![h] = @ \/ rec[h] \notin {"run", "read"}]
  /\ UNCHANGED <<pc, clientVars, cancelled, rec, delpc, old, live, envVars,
                 faults>>

\* The broken connection is noticed first, and the transaction rolled back.
LateRollback(h) ==
  /\ inflight[h] # "none" /\ Release(h, "stream")
  /\ inflight' = [inflight EXCEPT ![h] = "none"]
  /\ UNCHANGED <<pc, clientVars, cancelled, rec, delpc, row, answers, old,
                 late, live, envVars, faults>>

\* STALE_PROCESSING_MINUTES pass.
Age(h) ==
  /\ row[h] = "processing" /\ ~old[h] /\ old' = [old EXCEPT ![h] = TRUE]
  /\ UNCHANGED <<pc, clientVars, cancelled, rec, delpc, row, answers, inflight,
                 late, live, lock, envVars, faults>>

\* The process dies; the database rolls its open transactions back.
Crash ==
  /\ up /\ crashes < MaxCrashes /\ up' = FALSE /\ crashes' = crashes + 1
  /\ pc' = [h \in Handlers |-> IF pc[h] \in Inactive THEN pc[h] ELSE "ended"]
  /\ sent' = [h \in Handlers |-> IF pc[h] = "reply" THEN "none" ELSE sent[h]]
  /\ rec' = [h \in Handlers |-> IF rec[h] = "none" THEN "none" ELSE "ended"]
  /\ delpc' = [d \in Deletes |->
       IF delpc[d] = "cancelled" THEN "rejected" ELSE delpc[d]]
  /\ lock' = [s \in Sessions |->
       {m \in lock[s] : m[2] = "stream" /\ inflight[m[1]] = "completed"}]
  /\ UNCHANGED <<gone, flow, cancelled, dbVars, faults>>

\* The lifespan hook sweeps once: mark_stale_processing_failed, then serves.
Restart ==
  /\ ~up /\ up' = TRUE
  /\ \A h \in Handlers : inflight[h] \in {"none", "processing"}
  /\ row' = [h \in Handlers |->
       IF row[h] = "processing" /\ old[h] THEN "failed" ELSE row[h]]
  /\ UNCHANGED <<pc, clientVars, cancelled, rec, delpc, answers, old, inflight,
                 late, live, lock, crashes, faults>>

-----------------------------------------------------------------------------
Progress(h) ==
  \/ Lookup(h) \/ Insert(h) \/ InsertRefused(h) \/ Route(h) \/ Assess(h)
  \/ Poll(h) \/ StreamEnd(h) \/ Check(h) \/ Lock(h) \/ Save(h)
  \/ SaveRejected(h) \/ MarkFailed(h) \/ MarkCancelled(h) \/ Reply(h)

Recovery(h) ==
  \/ RecoveryChat(h) \/ RecoveryRead(h) \/ RecoveryLock(h)
  \/ RecoverySave(h) \/ RecoveryMark(h)

Disconnection(h) ==
  \/ DisconnectStream(h) \/ DisconnectQuiet(h) \/ Disconnect(h)
  \/ DisconnectInsert(h) \/ DisconnectCommit(h) \/ DisconnectExpired(h)

Failure(h) ==
  \/ FaultUnguarded(h) \/ FaultSave(h) \/ FaultFlush(h) \/ FaultMark(h)
  \/ FaultRecovery(h)

Resolve(h) == LateCommit(h) \/ LateRollback(h)

Next ==
  \/ \E h \in Handlers :
       \/ Open(h) \/ Progress(h) \/ Recovery(h) \/ Disconnection(h)
       \/ Failure(h) \/ Resolve(h) \/ Age(h)
  \/ \E d \in Deletes : DeleteBegin(d) \/ DeleteEnd(d) \/ FaultDelete(d)
  \/ Crash \/ Restart

Spec == Init /\ [][Next]_vars

(* The event loop runs every coroutine that can go on, PostgreSQL resolves  *)
(* every commit, time passes, and a dead server is started again.  Clients  *)
(* need not come, disconnect or delete, and nothing has to fail.            *)
Fairness ==
  /\ \A h \in Handlers : /\ WF_vars(Progress(h)) /\ WF_vars(Recovery(h))
                         /\ WF_vars(Resolve(h)) /\ WF_vars(Age(h))
  /\ \A d \in Deletes : WF_vars(DeleteEnd(d))
  /\ WF_vars(Restart)

FairSpec == Spec /\ Fairness

-----------------------------------------------------------------------------
(* Safety. *)

Working == {"route", "assess", "stream", "check", "lock", "save", "fail", "cancel"}
Running(h) == pc[h] \in Working \/ rec[h] \in {"run", "read", "lock", "save"}

\* The recovery of a request whose insert was cut and rolled back: it runs the
\* chat and finds no row when it reads the status.
Phantom(h) == rec[h] \in {"run", "read"} /\ row[h] = "none" /\ inflight[h] = "none"

\* Two posts with one idempotency key to one session never work on the message
\* at the same time, in their generators or recovery tasks, however lookups and
\* commits interleave, with one exception: a recovery may run the chat for an
\* insert that was rolled back, beside the retry.  Past the read of the status,
\* where answers are saved, there is none.
OneRunPerKey ==
  \A g, h \in Handlers : g # h /\ SameKey(g, h) /\ Running(g) /\ Running(h)
    => Phantom(g) \/ Phantom(h)

Saving(h) == pc[h] = "save" \/ rec[h] = "save"

\* The slots of a session are read, merged with those of the answer and written
\* back by one save at a time, be it a generator's or a recovery task's: the
\* session row lock is held until the commit.
OneSaverPerSession ==
  \A g, h \in Handlers :
    g # h /\ SessionOf[g] = SessionOf[h] => ~(Saving(g) /\ Saving(h))

\* The answer and the completed status are one transaction: an assistant
\* message is in the database exactly if its request reads completed, after
\* crashes, cancelled commits, failed saves and sweeps as well.
AnswerIffCompleted ==
  \A h \in Handlers : answers[h] > 0 <=> row[h] = "completed"

\* A user message is answered once.  Only a commit that takes effect after the
\* recovery task has read the row makes it twice: neither _persist_success nor
\* the recovery reads the status again under the session lock.
AnsweredOnce == \A h \in Handlers : answers[h] > 1 => late[h]

\* What a client was told last agrees with the database: done only after the
\* commit of the answer, error and cancelled only after that of the status.  A
\* replay told another request's outcome.
Told(h, e, st) == sent[h] = e =>
  \E g \in Handlers :
    /\ g = h \/ SameKey(g, h)
    /\ row[g] \in {st, "deleted"} \/ late[g]

EventMatchesRow == \A h \in Handlers :
  Told(h, "done", "completed") /\ Told(h, "error", "failed")
                               /\ Told(h, "cancelled", "cancelled")

\* A lost connection is no cancellation: a request is recorded as cancelled
\* only if a session deletion set its stream's cancel event.
CancelledOnlyByEvent ==
  \A h \in Handlers : row[h] = "cancelled" => cancelled[h]

\* No message or request is left behind by, or written after, the deletion of
\* its session, whoever was about to save.
NothingOutlivesSession ==
  \A h \in Handlers : ~Alive(h) => row[h] \in {"none", "deleted"} /\ answers[h] = 0

\* The streams of a session are cancelled only for its deletion.  A bulk delete
\* sets the events before it knows whether its DELETE finds every session; only
\* the lock that authentication takes keeps other deletions out until then.
NoVainCancel == faults = 0 /\ crashes = 0 =>
  \A h \in Handlers : cancelled[h] =>
    \/ ~Alive(h)
    \/ \E d \in Deletes : delpc[d] = "cancelled" /\ SessionOf[h] \in TargetsOf[d]

Orphan(h) == /\ row[h] = "processing" /\ inflight[h] = "none"
             /\ pc[h] \in Inactive /\ rec[h] \in {"none", "ended"}

\* A request is left processing with nobody working on it only by a crash, a
\* failing database call, a commit that overtook its recovery, or a generator
\* that stopped with its row object expired: an error or a disconnect right
\* after the rollback of a save, a _mark_failed or a _mark_cancelled.  That
\* disconnect needs nothing else to go wrong (see DisconnectIsRecovered); one
\* at any other await never leaves such a request.
OrphanHasCause == \A h \in Handlers :
  Orphan(h) => crashes > 0 \/ faults > 0 \/ late[h] \/ pc[h] = "lost"

(* The inductive strengthening of the safety properties above. *)

Unborn  == {"idle", "lookup", "insert"}
Owns(h) == row[h] \in Status \cup {"deleted"} \/ inflight[h] = "processing"

\* Where a generator stands: no row before the insert, none but a processing
\* one while it works, the session lock while it saves.
RunInv(h) ==
  /\ pc[h] \in Unborn => row[h] = "none" /\ inflight[h] = "none"
  /\ pc[h] \in Working => row[h] \in {"processing", "deleted"}
  /\ pc[h] = "save" => <<h, "stream">> \in lock[SessionOf[h]] /\ Alive(h)
  /\ pc[h] = "cancel" => cancelled[h] \/ ~Alive(h)
  /\ ~up => pc[h] \in Inactive /\ rec[h] \in {"none", "ended"}

\* Where its recovery task stands.
RecInv(h) ==
  /\ rec[h] # "none" => pc[h] = "ended"
  /\ rec[h] \in {"lock", "save"} =>
       row[h] \in {"processing", "deleted"} \/ (late[h] /\ row[h] \in Final)
  /\ rec[h] = "save" => <<h, "recovery">> \in lock[SessionOf[h]] /\ Alive(h)

\* A commit in flight is the insert's, or the last one of a processing row.
FlightInv(h) ==
  /\ inflight[h] # "none" => pc[h] = "ended" /\ Alive(h)
  /\ inflight[h] = "processing" => row[h] = "none"
  /\ inflight[h] \in Final => row[h] = "processing"
  /\ inflight[h] = "cancelled" => cancelled[h]

\* The row, its answers and its session.
RowInv(h) ==
  /\ answers[h] > 0 <=> row[h] = "completed"
  /\ answers[h] > 1 => late[h]
  /\ ~Alive(h) => row[h] \in {"none", "deleted"} /\ answers[h] = 0
  /\ row[h] = "deleted" => ~Alive(h)
  /\ row[h] = "cancelled" => cancelled[h]

\* What the code relies on without ever testing it: whoever is about to write a
\* row finds it as RunInv, RecInv and FlightInv say, and of equal keys only one
\* has a row, or a commit in flight that will give it one.  A session row lock
\* has one holder.
IInv ==
  /\ TypeOK
  /\ \A h \in Handlers : RunInv(h) /\ RecInv(h) /\ FlightInv(h) /\ RowInv(h)
  /\ \A g, h \in Handlers : g # h /\ SameKey(g, h) => ~(Owns(g) /\ Owns(h))
  /\ \A s \in Sessions : \A a, b \in lock[s] : a = b

(* Steps. *)

\* A final status is final: whoever finishes second finds it and leaves it,
\* unless that commit overtook the recovery's read.
FinalStays == [][\A h \in Handlers :
  row[h] \in Final => row'[h] \in {row[h], "deleted"} \/ late[h]]_vars

(* Liveness, under FairSpec. *)

\* Every generator and every recovery task comes to an end: nobody waits for
\* a session lock for ever, whoever is cut off while holding it.  Posts being
\* finitely many, that is to say that all of them are over again and again.
EveryRunEnds ==
  []<>(\A h \in Handlers : pc[h] \in Inactive /\ rec[h] \in {"none", "ended"})

(* Statements of the repository. *)

\* "Requests left processing for 5 minutes by a server restart or an
\* interruption are turned into failed": db/migrations/269, line 12.
StaleBecomesFailed == \A h \in Handlers :
  (Orphan(h) /\ old[h]) ~> row[h] # "processing"

\* "eligibility -> ELIGIBILITY_TARGET": docs/API_SPEC_AI.md:991.  The links of
\* an answer are such as the CHECK constraint admits, so that a save is turned
\* down by nothing but a database failure.
SaveFailsOnlyByFault == [][\A h \in Handlers :
  pc[h] = "save" /\ pc'[h] \in {"fail", "lost"} /\ sent'[h] # sent[h]
    => faults' > faults]_vars

\* "If the final save fails, failed is recorded in a separate transaction after
\* the rollback": docs/CHAT_REQUEST_LIFECYCLE.md:18.  Where no database call
\* fails, a stream broken off for good with its row object expired is one
\* whose final save was turned down.
FailedSaveIsRecorded == \A h \in Handlers :
  pc[h] = "lost" /\ sent[h] = "aborted" => row[h] # "processing"

\* "When asyncio.CancelledError occurs, _run_disconnect_recovery() is run in
\* the background": docs/CHAT_REQUEST_LIFECYCLE.md:38.  Where nothing else goes
\* wrong, no commit is late and no error broke the stream off, a request left
\* processing has a task that works on it.
DisconnectIsRecovered == \A h \in Handlers :
  Orphan(h) => crashes > 0 \/ faults > 0 \/ late[h] \/ sent[h] = "aborted"

(* Refinement. *)

Lifecycle == INSTANCE ChatLifecycle WITH
  Requests <- Handlers, status <- row, asked <- cancelled, raced <- late,
  open <- live

LifecycleSpec == Lifecycle!Spec
=============================================================================
