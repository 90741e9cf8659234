---------------------------- MODULE ChatEventProofs ----------------------------
(***************************************************************************)
(* Proofs of what clients are told, and of what is left processing, in     *)
(* ChatStream, and that it implements ChatLifecycle.  The first two follow *)
(* from IInv and an invariant of their own: the event a stream has sent is *)
(* looked for in the row, and an orphan for its cause.                     *)
(***************************************************************************)
EXTENDS ChatStreamProofs

Step(h) ==
  \/ Open(h) \/ Progress(h) \/ Recovery(h) \/ Disconnection(h)
  \/ Failure(h) \/ Resolve(h) \/ Age(h)

LEMMA StepKeeps == ASSUME IInv, NEW h \in Handlers, Step(h) PROVE Keeps(h)
  BY KeepsProgress, KeepsRecovery, KeepsDisconnection, KeepsFailure, KeepsDatabase DEF Step

-----------------------------------------------------------------------------
(* What is told stays true. *)

\* No row is unmade, and what was late stays so.
Grow(g) == (row'[g] = "none" => row[g] = "none") /\ (late[g] => late'[g])

LEMMA HandlersGrow ==
  ASSUME IInv, NEW h \in Handlers, Step(h), NEW g \in Handlers
  PROVE  Grow(g)
  <1> USE DEF dbVars, Status, Final
  <1>1. TypeOK
    BY DEF IInv
  <1>2. CASE g # h
    <2>1. Others(h)
      BY StepKeeps DEF Keeps
    <2>2. row'[g] = row[g] /\ late'[g] = late[g]
      BY <1>2, <2>1 DEF Others
    <2> QED BY <2>2 DEF Grow
  <1>3. CASE g = h
    <2> USE <1>1, <1>3, LandFacts DEF Grow
    <2>1. CASE Open(h)
      BY <2>1 DEF Open
    <2>2. CASE Progress(h)
      BY <2>2 DEF Progress, Lookup, Insert, InsertRefused, Route, Assess, Poll, StreamEnd, Check,
                  Lock, Save, SaveRejected, MarkFailed, MarkCancelled, MarkAs, Mark, Reply
    <2>3. CASE Recovery(h)
      BY <2>3 DEF Recovery, RecoveryChat, RecoveryRead, RecoveryLock, RecoverySave, RecoveryMark, Mark
    <2>4. CASE Disconnection(h)
      BY <2>4 DEF Disconnection, DisconnectStream, DisconnectQuiet, Disconnect, DisconnectInsert,
                  DisconnectCommit, DisconnectExpired, CommitCut
    <2>5. CASE Failure(h)
      BY <2>5 DEF Failure, FaultUnguarded, FaultSave, FaultFlush, FaultMark, FaultRecovery
    <2>6. CASE LateCommit(h)
      <3>1. inflight[h] \in Status /\ Land(h, inflight[h])
        BY <2>6 DEF LateCommit, TypeOK
      <3> QED BY <2>6, <3>1 DEF LateCommit, TypeOK
    <2>7. CASE LateRollback(h) \/ Age(h)
      BY <2>7 DEF LateRollback, Age
    <2> QED BY <2>1, <2>2, <2>3, <2>4, <2>5, <2>6, <2>7 DEF Step, Resolve
  <1> QED BY <1>2, <1>3

\* What a row says for good: a deleted one stays deleted, a final one is deleted at most.
Lasts(g) ==
  /\ row[g] \in Final => row'[g] \in {row[g], "deleted"} \/ late[g]
  /\ row[g] = "deleted" => row'[g] = "deleted"
  /\ late[g] => late'[g]

LEMMA RowsLast == ASSUME IInv, Next, NEW g \in Handlers PROVE Lasts(g)
  <1>1. ASSUME NEW h \in Handlers, Step(h) PROVE Lasts(g)
    <2>1. Keeps(h) /\ Grow(g)
      BY <1>1, StepKeeps, HandlersGrow
    <2>2. row[g] \in Final => row'[g] = row[g] \/ late[g]
      BY <2>1 DEF Keeps, Others
    <2>3. ASSUME row[g] = "deleted" PROVE row'[g] = "deleted"
      <3>1. CASE g # h
        BY <2>1, <2>3, <3>1 DEF Keeps, Others
      <3>2. CASE g = h
        <4>1. ~Alive(g)
          BY <2>3 DEF IInv, RowInv
        <4>2. ~Alive(g)' /\ RowInv(g)'
          BY <2>1, <3>2, <4>1 DEF Keeps, Others, HInv, Alive
        <4> QED BY <2>1, <2>3, <4>2 DEF RowInv, Grow
      <3> QED BY <3>1, <3>2
    <2> QED BY <2>1, <2>2, <2>3 DEF Lasts, Grow
  <1>2. ASSUME NEW d \in Deletes, DeleteBegin(d) \/ FaultDelete(d) PROVE Lasts(g)
    BY <1>2 DEF DeleteBegin, FaultDelete, dbVars, Lasts
  <1>3. ASSUME NEW d \in Deletes, DeleteEnd(d) PROVE Lasts(g)
    BY <1>3 DEF DeleteEnd, Lasts, Status, Final
  <1>4. CASE Crash
    BY <1>4 DEF Crash, dbVars, Lasts
  <1>5. CASE Restart
    BY <1>5 DEF Restart, Lasts, Final
  <1> QED BY <1>1, <1>2, <1>3, <1>4, <1>5 DEF Next, Step

\* The event is of the request itself, or of one with its key, which has the status
\* the event says, or has had it.
Holds(h, st) ==
  \E g \in Handlers : (g = h \/ SameKey(g, h)) /\ (row[g] \in {st, "deleted"} \/ late[g])

LEMMA HoldsLasts ==
  ASSUME IInv, [Next]_vars, NEW h \in Handlers, NEW st \in Final, Holds(h, st)
  PROVE  Holds(h, st)'
  <1>1. PICK g \in Handlers : (g = h \/ SameKey(g, h)) /\ (row[g] \in {st, "deleted"} \/ late[g])
    BY DEF Holds
  <1>2. row'[g] \in {st, "deleted"} \/ late'[g]
    <2>1. CASE Next
      BY <1>1, <2>1, RowsLast DEF Lasts
    <2>2. CASE UNCHANGED vars
      BY <1>1, <2>2 DEF vars
    <2> QED BY <2>1, <2>2
  <1> QED BY <1>1, <1>2 DEF Holds, SameKey

\* What a last event says of the row.
Says(e) == IF e = "done" THEN "completed" ELSE IF e = "error" THEN "failed" ELSE "cancelled"
Outcomes == {"done", "error", "cancelled"}

Truthful(h) == \A e \in Outcomes : sent[h] = e => Holds(h, Says(e))

\* The last event a handler has sent is the outcome of its request.
EventInv == \A h \in Handlers : Truthful(h)

\* An answer tells the client of the event and nothing else.
LEMMA AnswerTells ==
  ASSUME TypeOK, NEW h \in Handlers, NEW e, Answer(h, e)
  PROVE  sent'[h] \in {sent[h], e} /\ \A g \in Handlers \ {h} : sent'[g] = sent[g]
  BY DEF TypeOK, Answer

LEMMA BreakTells ==
  ASSUME TypeOK, NEW h \in Handlers, Break(h)
  PROVE  sent'[h] \in {sent[h], "aborted"} /\ \A g \in Handlers \ {h} : sent'[g] = sent[g]
  BY DEF TypeOK, Break

\* A replay tells what the row with the key says.
LEMMA ReplayTells ==
  ASSUME TypeOK, NEW h \in Handlers, NEW g \in Existing(h), Replay(h, g)
  PROVE  /\ \/ sent'[h] \in {sent[h], "accepted"}
            \/ sent'[h] \in Outcomes /\ row[g] = Says(sent'[h])
         /\ \A k \in Handlers \ {h} : sent'[k] = sent[k]
  <1>1. CASE row[g] = "processing" /\ Answer(h, "accepted")
    BY <1>1, AnswerTells
  <1>2. ASSUME NEW e \in Outcomes, row[g] = Says(e), Answer(h, e)
        PROVE  /\ \/ sent'[h] \in {sent[h], "accepted"}
                  \/ sent'[h] \in Outcomes /\ row[g] = Says(sent'[h])
               /\ \A k \in Handlers \ {h} : sent'[k] = sent[k]
    BY <1>2, AnswerTells
  <1> QED BY <1>1, <1>2 DEF Replay, Outcomes, Says

\* The new event of a step is true when it is sent.
Tells(h) ==
  /\ \/ sent'[h] \in {sent[h], "none", "accepted", "aborted"}
     \/ Truthful(h)'
  /\ \A g \in Handlers \ {h} : sent'[g] = sent[g]

LEMMA MarkTells ==
  ASSUME TypeOK, NEW h \in Handlers, NEW e \in Outcomes, pc[h] \in Working, RunInv(h),
         MarkAs(h, Says(e), e)
  PROVE  Tells(h)
  <1> USE DEF Outcomes, Says, Status, Final
  <1>1. row'[h] \in {Says(e), "deleted"}
    BY LandFacts DEF MarkAs, Mark, RunInv
  <1>2. Holds(h, Says(e))'
    BY <1>1 DEF Holds
  <1>3. CASE Answer(h, e)
    BY <1>2, <1>3, AnswerTells DEF Tells, Truthful
  <1>4. CASE Abort(h)
    BY <1>4, BreakTells DEF Tells, Abort
  <1> QED BY <1>3, <1>4 DEF MarkAs

LEMMA ReplayHolds ==
  ASSUME TypeOK, NEW h \in Handlers, NEW g \in Existing(h), Replay(h, g), row' = row
  PROVE  Tells(h)
  <1>1. g \in Handlers /\ SameKey(g, h)
    BY DEF Existing
  <1>2. ASSUME NEW e \in Outcomes, sent'[h] = e, row[g] = Says(sent'[h])
        PROVE  Holds(h, Says(e))'
    BY <1>1, <1>2 DEF Holds, SameKey
  <1> QED BY <1>2, ReplayTells DEF Tells, Truthful

LEMMA StepTells == ASSUME IInv, NEW h \in Handlers, Step(h) PROVE Tells(h)
  <1> USE DEF clientVars, dbVars, Status, Final
  <1>1. TypeOK /\ RunInv(h)
    BY DEF IInv
  <1>2. CASE sent' = sent
    BY <1>2 DEF Tells
  <1>3. CASE Lookup(h)
    BY <1>1, <1>2, <1>3, ReplayHolds DEF Lookup
  <1>4. CASE InsertRefused(h)
    BY <1>1, <1>4, ReplayHolds, BreakTells DEF InsertRefused, Abort, Tells
  <1>5. CASE Save(h)
    <2>1. row'[h] = "completed" /\ Answer(h, "done")
      BY <1>1, <1>5, LandFacts DEF Save
    <2>2. Holds(h, "completed")'
      BY <2>1 DEF Holds
    <2>3. sent'[h] \in {sent[h], "done"} /\ \A g \in Handlers \ {h} : sent'[g] = sent[g]
      BY <1>1, <2>1, AnswerTells
    <2> QED BY <2>2, <2>3 DEF Tells, Truthful, Outcomes, Says
  <1>6. CASE SaveRejected(h)
    BY <1>1, <1>6, BreakTells DEF SaveRejected, Tells
  <1>7. CASE MarkFailed(h)
    <2>1. MarkAs(h, Says("error"), "error") /\ pc[h] \in Working /\ "error" \in Outcomes
      BY <1>7 DEF MarkFailed, Says, Working, Outcomes
    <2> QED BY <1>1, <2>1, MarkTells
  <1>8. CASE MarkCancelled(h)
    <2>1. MarkAs(h, Says("cancelled"), "cancelled") /\ pc[h] \in Working /\ "cancelled" \in Outcomes
      BY <1>8 DEF MarkCancelled, Says, Working, Outcomes
    <2> QED BY <1>1, <2>1, MarkTells
  <1>9. CASE DisconnectQuiet(h)
    BY <1>1, <1>9 DEF DisconnectQuiet, Tells, TypeOK
  <1>10. CASE FaultUnguarded(h) \/ FaultFlush(h) \/ FaultMark(h)
    BY <1>1, <1>10, BreakTells DEF FaultUnguarded, FaultFlush, FaultMark, Abort, Tells
  <1>11. CASE \/ Open(h) \/ Insert(h) \/ Route(h) \/ Assess(h) \/ Poll(h) \/ StreamEnd(h)
              \/ Check(h) \/ Lock(h) \/ Reply(h)
    BY <1>2, <1>11 DEF Open, Insert, Route, Assess, Poll, StreamEnd, Check, Lock, Reply
  <1>12. CASE Recovery(h)
    BY <1>2, <1>12 DEF Recovery, RecoveryChat, RecoveryRead, RecoveryLock, RecoverySave, RecoveryMark
  <1>13. CASE \/ DisconnectStream(h) \/ Disconnect(h) \/ DisconnectInsert(h)
              \/ DisconnectCommit(h) \/ DisconnectExpired(h)
    BY <1>2, <1>13 DEF DisconnectStream, Disconnect, DisconnectInsert, DisconnectCommit,
                       DisconnectExpired
  <1>14. CASE FaultSave(h) \/ FaultRecovery(h)
    BY <1>2, <1>14 DEF FaultSave, FaultRecovery
  <1>15. CASE LateCommit(h) \/ LateRollback(h) \/ Age(h)
    BY <1>2, <1>15 DEF LateCommit, LateRollback, Age
  <1> QED BY <1>3, <1>4, <1>5, <1>6, <1>7, <1>8, <1>9, <1>10, <1>11, <1>12, <1>13, <1>14, <1>15
          DEF Step, Progress, Disconnection, Failure, Resolve

LEMMA EventNext == IInv /\ EventInv /\ [Next]_vars => EventInv'
  <1> SUFFICES ASSUME IInv, EventInv, [Next]_vars PROVE EventInv'
    OBVIOUS
  <1>1. ASSUME NEW h \in Handlers, NEW e \in Outcomes, sent[h] = e PROVE Holds(h, Says(e))'
    <2>1. Says(e) \in Final /\ Holds(h, Says(e))
      BY <1>1 DEF EventInv, Truthful, Says, Final
    <2> QED BY <2>1, HoldsLasts
  <1>2. ASSUME NEW h \in Handlers, sent'[h] \in {sent[h], "none", "accepted", "aborted"}
        PROVE  Truthful(h)'
    BY <1>1, <1>2 DEF Truthful, Outcomes
  <1>3. ASSUME NEW g \in Handlers, Step(g) PROVE EventInv'
    <2>1. Tells(g)
      BY <1>3, StepTells
    <2>2. ASSUME NEW h \in Handlers PROVE Truthful(h)'
      BY <1>2, <2>1, <2>2 DEF Tells
    <2> QED BY <2>2 DEF EventInv
  <1>4. ASSUME NEW d \in Deletes, DeleteBegin(d) \/ DeleteEnd(d) \/ FaultDelete(d)
        PROVE  EventInv'
    BY <1>2, <1>4 DEF DeleteBegin, DeleteEnd, FaultDelete, clientVars, EventInv
  <1>5. CASE Crash
    BY <1>2, <1>5 DEF Crash, EventInv
  <1>6. CASE Restart \/ UNCHANGED vars
    BY <1>2, <1>6 DEF Restart, clientVars, vars, EventInv
  <1> QED BY <1>3, <1>4, <1>5, <1>6 DEF Next, Step

\* A client is told done, error or cancelled of a request only if its row, or that of
\* the request which has its key, says so, or has been deleted, or was overtaken by a
\* late commit.
THEOREM EventsMatch == Spec => []EventMatchesRow
  <1>1. Init => EventInv
    BY DEF Init, EventInv, Truthful, Outcomes
  <1>2. EventInv => EventMatchesRow
    BY DEF EventInv, Truthful, Outcomes, Says, Holds, EventMatchesRow, Told
  <1> QED BY Invariance, EventNext, <1>1, <1>2, PTL DEF Spec

-----------------------------------------------------------------------------
(* What is left processing. *)

\* A generator that has an event to send, or has ended, has settled its request or
\* left it to a recovery task, unless something went wrong.
Cause(h) == crashes > 0 \/ faults > 0 \/ late[h]

Settled(h) ==
  /\ pc[h] = "reply" => row[h] # "processing"
  /\ row[h] = "processing" /\ pc[h] = "ended" => rec[h] \notin {"none", "ended"} \/ Cause(h)

OrphanInv == \A h \in Handlers : Settled(h)

\* Crashes, failures and late commits are not taken back.
LEMMA CausesLast ==
  ASSUME IInv, Next, NEW h \in Handlers, Cause(h)
  PROVE  Cause(h)'
  <1> USE DEF envVars
  <1>1. crashes \in Nat /\ faults \in Nat
    BY DEF IInv, TypeOK
  <1>2. late[h] => late'[h]
    BY RowsLast DEF Lasts
  <1>3. ASSUME NEW g \in Handlers, Step(g) PROVE crashes' = crashes /\ faults' \in {faults, faults + 1}
    <2>1. CASE Open(g) \/ Age(g) \/ Resolve(g) \/ Recovery(g)
      BY <2>1 DEF Open, Age, Resolve, LateCommit, LateRollback, Recovery, RecoveryChat, RecoveryRead, RecoveryLock,
                  RecoverySave, RecoveryMark
    <2>2. CASE Progress(g)
      <3>1. CASE Lookup(g) \/ Insert(g) \/ InsertRefused(g) \/ Route(g) \/ Assess(g)
        BY <3>1 DEF Lookup, Insert, InsertRefused, Route, Assess
      <3>2. CASE Poll(g) \/ StreamEnd(g) \/ Check(g) \/ Lock(g) \/ Reply(g)
        BY <3>2 DEF Poll, StreamEnd, Check, Lock, Reply
      <3>3. CASE Save(g) \/ SaveRejected(g)
        BY <3>3 DEF Save, SaveRejected
      <3>4. CASE MarkFailed(g) \/ MarkCancelled(g)
        BY <3>4 DEF MarkFailed, MarkCancelled, MarkAs
      <3> QED BY <2>2, <3>1, <3>2, <3>3, <3>4 DEF Progress
    <2>3. CASE Disconnection(g)
      BY <2>3 DEF Disconnection, DisconnectStream, DisconnectQuiet, Disconnect, DisconnectInsert,
                  DisconnectCommit, DisconnectExpired
    <2>4. CASE Failure(g)
      BY <2>4 DEF Failure, FaultUnguarded, FaultSave, FaultFlush, FaultMark, FaultRecovery, Fault
    <2> QED BY <1>3, <2>1, <2>2, <2>3, <2>4 DEF Step
  <1>4. ASSUME NEW d \in Deletes, DeleteBegin(d) \/ DeleteEnd(d) \/ FaultDelete(d)
        PROVE  crashes' = crashes /\ faults' \in {faults, faults + 1}
    BY <1>4 DEF DeleteBegin, DeleteEnd, FaultDelete, Fault
  <1>5. CASE Crash \/ Restart
    BY <1>1, <1>2, <1>5 DEF Crash, Restart, Cause
  <1>6. crashes' = crashes /\ faults' \in {faults, faults + 1} => Cause(h)'
    BY <1>1, <1>2 DEF Cause
  <1> QED BY <1>3, <1>4, <1>5, <1>6 DEF Next, Step

\* Whoever marks a request leaves it settled, or ends without having found it.
LEMMA MarkSettles ==
  ASSUME TypeOK, NEW h \in Handlers, NEW st \in Final, NEW e \in Events, RunInv(h),
         pc[h] \in Working, MarkAs(h, st, e)
  PROVE  Settled(h)'
  <1>1. row'[h] # "processing"
    BY LandFacts DEF MarkAs, Mark, RunInv, Status, Final
  <1> QED BY <1>1 DEF Settled

\* A step of h leaves h settled.
LEMMA StepSettles == ASSUME IInv, NEW h \in Handlers, Step(h), Settled(h), Cause(h) => Cause(h)'
                     PROVE  Settled(h)'
  <1> USE DEF clientVars, dbVars, Status, Final
  <1>1. /\ TypeOK /\ RunInv(h) /\ RecInv(h) /\ FlightInv(h) /\ RowInv(h)
        /\ RunInv(h)' /\ RecInv(h)' /\ FlightInv(h)' /\ RowInv(h)'
    BY StepKeeps DEF IInv, Keeps, HInv
  <1>2. CASE Open(h)
    BY <1>1, <1>2, GotoFacts DEF Open, Settled, PCs
  <1>3. CASE Lookup(h) \/ InsertRefused(h)
    BY <1>1, <1>3 DEF Lookup, InsertRefused, RunInv, Unborn, Settled
  <1>4. CASE \/ Insert(h) \/ Route(h) \/ Assess(h) \/ Poll(h) \/ StreamEnd(h) \/ Check(h) \/ Lock(h)
    <2>1. pc'[h] \notin {"reply", "ended"}
      BY <1>1, <1>4, GotoFacts
      DEF Insert, Route, Assess, Poll, StreamEnd, Check, Lock, PCs
    <2> QED BY <2>1 DEF Settled
  <1>5. CASE Save(h)
    BY <1>1, <1>5, LandFacts DEF Save, Settled
  <1>6. CASE SaveRejected(h) \/ DisconnectExpired(h) \/ FaultFlush(h)
    <2>1. pc'[h] = "lost"
      BY <1>1, <1>6, GotoFacts DEF SaveRejected, DisconnectExpired, FaultFlush, PCs
    <2> QED BY <2>1 DEF Settled
  <1>7. CASE MarkFailed(h)
    BY <1>1, <1>7, MarkSettles DEF MarkFailed, Working, Events
  <1>8. CASE MarkCancelled(h)
    BY <1>1, <1>8, MarkSettles DEF MarkCancelled, Working, Events
  <1>9. CASE Reply(h) \/ DisconnectQuiet(h)
    BY <1>1, <1>9, GotoFacts DEF Reply, DisconnectQuiet, RunInv, Unborn, Settled, PCs
  <1>10. CASE RecoveryChat(h) \/ RecoveryRead(h) \/ RecoveryLock(h)
    BY <1>1, <1>10 DEF RecoveryChat, RecoveryRead, RecoveryLock, TypeOK, RecInv, RowInv, Settled
  <1>11. CASE RecoverySave(h)
    BY <1>1, <1>11, LandFacts DEF RecoverySave, Settled
  <1>12. CASE RecoveryMark(h)
    BY <1>1, <1>12, LandFacts DEF RecoveryMark, Mark, Settled
  <1>13. CASE DisconnectStream(h)
    BY <1>1, <1>13 DEF DisconnectStream, Settled
  <1>14. CASE Disconnect(h) \/ DisconnectInsert(h) \/ DisconnectCommit(h)
    BY <1>1, <1>14, RecoverFacts DEF Disconnect, DisconnectInsert, DisconnectCommit, Settled
  <1>15. CASE FaultUnguarded(h) \/ FaultMark(h) \/ FaultRecovery(h) \/ FaultSave(h)
    <2>1. faults' > 0
      BY <1>1, <1>15 DEF FaultUnguarded, FaultMark, FaultRecovery, FaultSave, Fault, TypeOK
    <2>2. row' = row /\ (pc'[h] # "reply" \/ pc'[h] = pc[h])
      BY <1>1, <1>15, GotoFacts, AbortFacts
      DEF FaultUnguarded, FaultMark, FaultRecovery, FaultSave, PCs
    <2> QED BY <2>1, <2>2 DEF Settled, Cause
  <1>16. CASE LateCommit(h)
    <2>1. inflight[h] \in Status /\ Land(h, inflight[h])
      BY <1>1, <1>16 DEF LateCommit, TypeOK
    <2>2. late'[h] \/ rec'[h] \in {"run", "read"}
      BY <1>1, <1>16 DEF LateCommit, TypeOK
    <2>3. pc'[h] = "ended"
      BY <1>1, <1>16 DEF LateCommit, FlightInv
    <2> QED BY <2>2, <2>3 DEF Settled, Cause
  <1>17. CASE LateRollback(h) \/ Age(h)
    BY <1>17 DEF LateRollback, Age, Settled
  <1> QED BY <1>2, <1>3, <1>4, <1>5, <1>6, <1>7, <1>8, <1>9, <1>10, <1>11, <1>12, <1>13, <1>14,
             <1>15, <1>16, <1>17
          DEF Step, Progress, Recovery, Disconnection, Failure, Resolve

LEMMA OrphanNext == IInv /\ OrphanInv /\ [Next]_vars => OrphanInv'
  <1> SUFFICES ASSUME IInv, OrphanInv, [Next]_vars, NEW h \in Handlers PROVE Settled(h)'
    BY DEF OrphanInv
  <1>1. TypeOK /\ Settled(h) /\ (Next /\ Cause(h) => Cause(h)')
    BY CausesLast DEF IInv, OrphanInv
  <1>2. ASSUME NEW g \in Handlers, Step(g), Next PROVE Settled(h)'
    <2>1. CASE g = h
      BY <1>1, <1>2, <2>1, StepSettles
    <2>2. CASE g # h
      <3>1. Others(g)
        BY <1>2, StepKeeps DEF Keeps
      <3>2. pc'[h] = pc[h] /\ rec'[h] = rec[h] /\ row'[h] = row[h]
        BY <2>2, <3>1 DEF Others
      <3> QED BY <1>1, <1>2, <3>2 DEF Settled
    <2> QED BY <2>1, <2>2
  <1>3. ASSUME NEW d \in Deletes, DeleteBegin(d) \/ FaultDelete(d), Next PROVE Settled(h)'
    BY <1>1, <1>3 DEF DeleteBegin, FaultDelete, dbVars, Settled
  <1>4. ASSUME NEW d \in Deletes, DeleteEnd(d), Next PROVE Settled(h)'
    <2>1. row'[h] \in {row[h], "deleted"} /\ pc' = pc /\ rec' = rec
      BY <1>4 DEF DeleteEnd
    <2> QED BY <1>1, <1>4, <2>1 DEF Settled
  <1>5. CASE Crash
    <2>1. crashes' > 0 /\ pc'[h] # "reply"
      BY <1>1, <1>5 DEF Crash, TypeOK, Inactive
    <2> QED BY <2>1 DEF Settled, Cause
  <1>6. CASE Restart
    <2>1. row'[h] \in {row[h], "failed"} /\ pc' = pc /\ rec' = rec
      BY <1>6 DEF Restart
    <2>2. Next
      BY <1>6 DEF Next
    <2> QED BY <1>1, <2>1, <2>2 DEF Settled
  <1>7. CASE UNCHANGED vars
    BY <1>1, <1>7 DEF vars, Settled, Cause
  <1> QED BY <1>2, <1>3, <1>4, <1>5, <1>6, <1>7 DEF Next, Step

\* A request is left processing with nobody working on it only after a crash, a
\* failed database call, a commit that overtook its recovery, or the end of a
\* generator whose row object was expired.  Of the disconnects that leave one,
\* all meet that object; the others are followed by a recovery or a final status.
THEOREM OrphansHaveCause == Spec => []OrphanHasCause
  <1>1. Init => OrphanInv
    BY DEF Init, OrphanInv, Settled
  <1>2. IInv /\ OrphanInv => OrphanHasCause
    BY DEF IInv, RunInv, Unborn, OrphanInv, Settled, Cause, OrphanHasCause, Orphan, Inactive
  <1> QED BY Invariance, OrphanNext, <1>1, <1>2, PTL DEF Spec
-----------------------------------------------------------------------------
(* ChatStream implements ChatLifecycle: a landing commit is an acceptance, *)
(* a settlement or an overwriting, a deletion an Ask and then a Close, the *)
(* sweep an Expire, and every other step a stutter.                        *)

\* The step changes nothing the lifecycle speaks of.
Unseen == UNCHANGED <<row, answers, cancelled, late, live>>

Promised == Lifecycle!Next \/ Unseen

\* The commit of an insert is an acceptance.
LEMMA LandAccepts ==
  ASSUME TypeOK, NEW h \in Handlers, row[h] = "none", Alive(h), Land(h, "processing"),
         \A g \in Handlers : SameKey(g, h) => row[g] \in {"none", "deleted"},
         late' \in {late, [late EXCEPT ![h] = TRUE]}, UNCHANGED <<cancelled, live>>
  PROVE  Promised
  <1>1. Lifecycle!Accept(h)
    BY DEF Lifecycle!Accept, Lifecycle!SetTo, Lifecycle!Clash, SameKey, Land, Alive
  <1> QED BY <1>1 DEF Promised, Lifecycle!Next

\* The commit of a final status is a settlement.
LEMMA LandSettles ==
  ASSUME NEW h \in Handlers, NEW st \in Final, row[h] = "processing", Land(h, st),
         st = "cancelled" => cancelled[h],
         late' \in {late, [late EXCEPT ![h] = TRUE]}, UNCHANGED <<cancelled, live>>
  PROVE  Promised
  <1>1. Lifecycle!Settle(h, st)
    BY DEF Lifecycle!Settle, Lifecycle!SetTo, Land
  <1> QED BY <1>1 DEF Promised, Lifecycle!Next, Lifecycle!Final, Final

\* Marking is a settlement, or nothing is found to settle.
LEMMA MarkSettlesOrNot ==
  ASSUME NEW h \in Handlers, NEW st \in Final, Mark(h, st),
         st = "cancelled" /\ row[h] = "processing" => cancelled[h],
         UNCHANGED <<cancelled, late, live>>
  PROVE  Promised
  <1>1. CASE row[h] = "processing"
    BY <1>1, LandSettles DEF Mark
  <1>2. CASE row[h] # "processing"
    BY <1>2 DEF Mark, Promised, Unseen
  <1> QED BY <1>1, <1>2

-----------------------------------------------------------------------------
(* Events are set only for handlers that run: to register one changes none. *)

FreshInv == \A h \in Handlers : pc[h] = "idle" => ~cancelled[h]

LEMMA FreshNext == IInv /\ FreshInv /\ [Next]_vars => FreshInv'
  <1> SUFFICES ASSUME IInv, FreshInv, [Next]_vars, NEW h \in Handlers, pc'[h] = "idle"
               PROVE  ~cancelled'[h]
    BY DEF FreshInv
  <1>1. TypeOK /\ (pc[h] = "idle" => ~cancelled[h])
    BY DEF IInv, FreshInv
  <1>2. ASSUME NEW g \in Handlers,
               \/ Open(g) \/ Progress(g) \/ Recovery(g) \/ Disconnection(g)
               \/ Failure(g) \/ Resolve(g) \/ Age(g)
        PROVE  ~cancelled'[h]
    <2>1. Keeps(g)
      BY <1>2, KeepsProgress, KeepsRecovery, KeepsDisconnection, KeepsFailure, KeepsDatabase
    <2>2. CASE g # h
      BY <1>1, <2>1, <2>2 DEF Keeps, Others
    <2>3. CASE g = h /\ Open(h)
      BY <1>1, <2>3 DEF Open, TypeOK
    <2>4. CASE g = h /\ cancelled' = cancelled /\ pc' = pc
      BY <1>1, <2>4
    <2>5. CASE g = h /\ Progress(h)
      <3>1. "insert" \in PCs /\ "reply" \in PCs /\ "ended" \in PCs
        BY DEF PCs
      <3>2. CASE Lookup(h) \/ InsertRefused(h)
        BY <1>1, <3>1, <3>2, GotoFacts DEF Lookup, InsertRefused, Replay, Answer, Abort
      <3>3. CASE \/ Insert(h) \/ Route(h) \/ Assess(h) \/ Poll(h) \/ StreamEnd(h) \/ Check(h)
        BY <1>1, <3>3, GotoFacts DEF Insert, Route, Assess, Poll, StreamEnd, Check, PCs
      <3>4. CASE \/ Lock(h) \/ SaveRejected(h) \/ Reply(h)
        BY <1>1, <3>4, GotoFacts DEF Lock, SaveRejected, Reply, PCs
      <3>5. CASE Save(h) \/ MarkFailed(h) \/ MarkCancelled(h)
        BY <1>1, <3>1, <3>5, GotoFacts DEF Save, MarkFailed, MarkCancelled, MarkAs, Answer, Abort
      <3> QED BY <1>2, <2>5, <3>2, <3>3, <3>4, <3>5 DEF Progress
    <2>6. CASE g = h /\ Recovery(h)
      BY <2>4, <2>6 DEF Recovery, RecoveryChat, RecoveryRead, RecoveryLock, RecoverySave, RecoveryMark
    <2>7. CASE g = h /\ Disconnection(h)
      <3>1. "ended" \in PCs /\ "lost" \in PCs
        BY DEF PCs
      <3>2. CASE DisconnectStream(h)
        BY <2>4, <2>7, <3>2 DEF DisconnectStream
      <3>3. CASE DisconnectQuiet(h) \/ DisconnectExpired(h)
        BY <1>1, <3>1, <3>3, GotoFacts DEF DisconnectQuiet, DisconnectExpired
      <3>4. CASE Disconnect(h) \/ DisconnectInsert(h) \/ DisconnectCommit(h)
        BY <1>1, <3>4, RecoverFacts DEF Disconnect, DisconnectInsert, DisconnectCommit
      <3> QED BY <2>7, <3>2, <3>3, <3>4 DEF Disconnection
    <2>8. CASE g = h /\ Failure(h)
      <3>1. CASE FaultUnguarded(h) \/ FaultMark(h)
        BY <1>1, <3>1, AbortFacts DEF FaultUnguarded, FaultMark
      <3>2. CASE FaultSave(h) \/ FaultFlush(h)
        BY <1>1, <3>2, GotoFacts DEF FaultSave, FaultFlush, PCs
      <3>3. CASE FaultRecovery(h)
        BY <2>4, <2>8, <3>3 DEF FaultRecovery
      <3> QED BY <2>8, <3>1, <3>2, <3>3 DEF Failure
    <2>9. CASE g = h /\ (Resolve(h) \/ Age(h))
      BY <2>4, <2>9 DEF Resolve, LateCommit, LateRollback, Age
    <2> QED BY <1>2, <2>2, <2>3, <2>5, <2>6, <2>7, <2>8, <2>9
  <1>3. ASSUME NEW d \in Deletes, DeleteBegin(d) PROVE ~cancelled'[h]
    BY <1>1, <1>3 DEF DeleteBegin, Inactive
  <1>4. ASSUME NEW d \in Deletes, DeleteEnd(d) \/ FaultDelete(d) PROVE ~cancelled'[h]
    BY <1>1, <1>4 DEF DeleteEnd, FaultDelete
  <1>5. CASE Crash
    BY <1>1, <1>5 DEF Crash, Inactive
  <1>6. CASE Restart \/ UNCHANGED vars
    BY <1>1, <1>6 DEF Restart, vars
  <1> QED BY <1>2, <1>3, <1>4, <1>5, <1>6 DEF Next

-----------------------------------------------------------------------------
(* Every step is one of the promise, or changes nothing it speaks of. *)

LEMMA ProgressPromised ==
  ASSUME IInv, FreshInv, NEW h \in Handlers, Open(h) \/ Progress(h)
  PROVE  Promised
  <1> USE DEF dbVars
  <1>1. TypeOK /\ RunInv(h) /\ RowInv(h)
    BY DEF IInv
  <1>2. CASE Open(h)
    <2>1. cancelled' = cancelled
      BY <1>1, <1>2 DEF Open, FreshInv, TypeOK
    <2> QED BY <1>2, <2>1 DEF Open, Promised, Unseen
  <1>3. CASE Insert(h)
    <2>1. row[h] = "none"
      BY <1>1, <1>3 DEF Insert, RunInv, Unborn
    <2>2. \A g \in Handlers : SameKey(g, h) => row[g] \in {"none", "deleted"}
      BY <1>1, <1>3 DEF Insert, Existing, TypeOK
    <2> QED BY <1>1, <1>3, <2>1, <2>2, LandAccepts DEF Insert
  <1>4. CASE Save(h)
    <2>1. row[h] = "processing"
      BY <1>1, <1>4 DEF Save, RunInv, RowInv, Working
    <2> QED BY <1>4, <2>1, LandSettles DEF Save, Final
  <1>5. CASE MarkFailed(h)
    BY <1>5, MarkSettlesOrNot DEF MarkFailed, MarkAs, Final
  <1>6. CASE MarkCancelled(h)
    <2>1. row[h] = "processing" => cancelled[h]
      BY <1>1, <1>6 DEF MarkCancelled, RunInv, RowInv
    <2> QED BY <1>6, <2>1, MarkSettlesOrNot DEF MarkCancelled, MarkAs, Final
  <1>7. CASE Lookup(h) \/ InsertRefused(h) \/ Route(h) \/ Assess(h) \/ Poll(h)
    BY <1>7 DEF Lookup, InsertRefused, Route, Assess, Poll, Promised, Unseen
  <1>8. CASE StreamEnd(h) \/ Check(h) \/ Lock(h) \/ SaveRejected(h) \/ Reply(h)
    BY <1>8 DEF StreamEnd, Check, Lock, SaveRejected, Reply, Promised, Unseen
  <1> QED BY <1>2, <1>3, <1>4, <1>5, <1>6, <1>7, <1>8 DEF Progress

LEMMA RecoveryPromised ==
  ASSUME IInv, NEW h \in Handlers, Recovery(h)
  PROVE  Promised
  <1> USE DEF dbVars
  <1>1. RecInv(h) /\ RowInv(h)
    BY DEF IInv
  <1>2. CASE RecoverySave(h)
    <2>1. row[h] = "processing" \/ (late[h] /\ row[h] \in Final)
      BY <1>1, <1>2 DEF RecoverySave, RecInv, RowInv
    <2>2. CASE row[h] = "processing"
      BY <1>2, <2>2, LandSettles DEF RecoverySave, Final
    <2>3. CASE late[h] /\ row[h] \in Final
      <3>1. Lifecycle!Overwrite(h)
        BY <1>2, <2>3
        DEF RecoverySave, Land, Lifecycle!Overwrite, Lifecycle!SetTo, Lifecycle!Final, Final
      <3> QED BY <3>1 DEF Promised, Lifecycle!Next
    <2> QED BY <2>1, <2>2, <2>3
  <1>3. CASE RecoveryMark(h)
    BY <1>3, MarkSettlesOrNot DEF RecoveryMark, Final
  <1>4. CASE RecoveryChat(h) \/ RecoveryRead(h) \/ RecoveryLock(h)
    BY <1>4 DEF RecoveryChat, RecoveryRead, RecoveryLock, Promised, Unseen
  <1> QED BY <1>2, <1>3, <1>4 DEF Recovery

LEMMA DisconnectionPromised ==
  ASSUME IInv, NEW h \in Handlers, Disconnection(h)
  PROVE  Promised
  <1> USE DEF dbVars
  <1>1. TypeOK /\ RunInv(h) /\ RowInv(h)
    BY DEF IInv
  <1>2. CASE DisconnectInsert(h)
    <2>1. CASE Land(h, "processing")
      <3>1. row[h] = "none"
        BY <1>1, <1>2 DEF DisconnectInsert, RunInv, Unborn
      <3>2. \A g \in Handlers : SameKey(g, h) => row[g] \in {"none", "deleted"}
        BY <1>1, <1>2 DEF DisconnectInsert, Existing, TypeOK
      <3> QED BY <1>1, <1>2, <2>1, <3>1, <3>2, LandAccepts DEF DisconnectInsert
    <2>2. CASE UNCHANGED <<row, answers>>
      BY <1>2, <2>2 DEF DisconnectInsert, Promised, Unseen
    <2> QED BY <1>2, <2>1, <2>2 DEF DisconnectInsert, CommitCut
  <1>3. CASE DisconnectCommit(h)
    <2>1. UNCHANGED <<cancelled, late, live>>
      BY <1>3 DEF DisconnectCommit
    <2>2. PICK st \in Final : /\ CommitCut(h, st) /\ row[h] = "processing"
                              /\ st = "cancelled" => cancelled[h]
      BY <1>1, <1>3 DEF DisconnectCommit, Final, RunInv, RowInv, Working
    <2>3. CASE Land(h, st)
      BY <2>1, <2>2, <2>3, LandSettles
    <2>4. CASE UNCHANGED <<row, answers>>
      BY <2>1, <2>4 DEF Promised, Unseen
    <2> QED BY <2>2, <2>3, <2>4 DEF CommitCut
  <1>4. CASE DisconnectStream(h) \/ DisconnectQuiet(h) \/ Disconnect(h) \/ DisconnectExpired(h)
    BY <1>4 DEF DisconnectStream, DisconnectQuiet, Disconnect, DisconnectExpired, Promised, Unseen
  <1> QED BY <1>2, <1>3, <1>4 DEF Disconnection

LEMMA ResolvePromised ==
  ASSUME IInv, NEW h \in Handlers, Resolve(h)
  PROVE  Promised
  <1>1. TypeOK /\ FlightInv(h) /\ \A g \in Handlers : g # h /\ SameKey(g, h) => ~(Owns(g) /\ Owns(h))
    BY DEF IInv
  <1>2. CASE LateRollback(h)
    BY <1>2 DEF LateRollback, Promised, Unseen
  <1>3. CASE LateCommit(h)
    <2>1. /\ Land(h, inflight[h]) /\ UNCHANGED <<cancelled, live>> /\ inflight[h] \in Status
          /\ late' = [late EXCEPT ![h] = late[h] \/ rec[h] \notin {"run", "read"}]
      BY <1>1, <1>3 DEF LateCommit, TypeOK
    <2>2. late' \in {late, [late EXCEPT ![h] = TRUE]}
      BY <1>1, <2>1 DEF TypeOK
    <2>3. CASE inflight[h] = "processing"
      <3>1. row[h] = "none" /\ Alive(h)
        BY <1>1, <2>3 DEF FlightInv
      <3>2. \A g \in Handlers : SameKey(g, h) => row[g] \in {"none", "deleted"}
        BY <1>1, <2>3, <3>1 DEF Owns, TypeOK
      <3> QED BY <1>1, <2>1, <2>2, <2>3, <3>1, <3>2, LandAccepts
    <2>4. CASE inflight[h] \in Final
      <3>1. row[h] = "processing" /\ (inflight[h] = "cancelled" => cancelled[h])
        BY <1>1, <2>4 DEF FlightInv
      <3>2. PICK st \in Final : st = inflight[h]
        BY <2>4
      <3> QED BY <2>1, <2>2, <3>1, <3>2, LandSettles
    <2> QED BY <2>1, <2>3, <2>4 DEF Status
  <1> QED BY <1>2, <1>3 DEF Resolve

LEMMA FailurePromised ==
  ASSUME NEW h \in Handlers, Failure(h) \/ Age(h)
  PROVE  Promised
  BY DEF Failure, FaultUnguarded, FaultSave, FaultFlush, FaultMark, FaultRecovery, Age, dbVars,
         Promised, Unseen

LEMMA DeletionPromised ==
  ASSUME IInv, NEW d \in Deletes, DeleteBegin(d) \/ DeleteEnd(d) \/ FaultDelete(d)
  PROVE  Promised
  <1> USE DEF dbVars
  <1>1. TypeOK
    BY DEF IInv
  <1>2. CASE DeleteBegin(d) /\ cancelled' # cancelled
    <2> DEFINE R == {h \in Handlers : SessionOf[h] \in TargetsOf[d] /\ pc[h] \notin Inactive}
    <2>1. cancelled' = [h \in Handlers |-> cancelled[h] \/ h \in R]
      BY <1>2 DEF DeleteBegin
    <2>2. Lifecycle!Ask(R)
      BY <1>2, <2>1 DEF DeleteBegin, Lifecycle!Ask
    <2> QED BY <2>2 DEF Promised, Lifecycle!Next
  <1>3. CASE DeleteBegin(d) /\ cancelled' = cancelled
    BY <1>3 DEF DeleteBegin, Promised, Unseen
  <1>4. CASE DeleteEnd(d)
    <2>1. CASE \A s \in TargetsOf[d] : live[s]
      <3>1. TargetsOf[d] \in SUBSET Sessions
        BY DeleteAssumption
      <3>2. row' = [h \in Handlers |-> IF SessionOf[h] \in TargetsOf[d] /\ row[h] # "none"
                                       THEN "deleted" ELSE row[h]]
        <4>1. row' = [h \in Handlers |-> IF SessionOf[h] \in TargetsOf[d] /\ row[h] \in Status
                                         THEN "deleted" ELSE row[h]]
          BY <1>4, <2>1 DEF DeleteEnd
        <4>2. \A h \in Handlers : row[h] \in Status \cup {"none", "deleted"}
          BY <1>1 DEF TypeOK
        <4>3. "none" \notin Status
          BY DEF Status, Final
        <4> QED BY <4>1, <4>2, <4>3
      <3>3. Lifecycle!Close(TargetsOf[d])
        BY <1>4, <2>1, <3>2 DEF DeleteEnd, Lifecycle!Close
      <3> QED BY <3>1, <3>3 DEF Promised, Lifecycle!Next
    <2>2. CASE ~\A s \in TargetsOf[d] : live[s]
      BY <1>4, <2>2 DEF DeleteEnd, Promised, Unseen
    <2> QED BY <2>1, <2>2
  <1>5. CASE FaultDelete(d)
    BY <1>5 DEF FaultDelete, Promised, Unseen
  <1> QED BY <1>2, <1>3, <1>4, <1>5

LEMMA RestartPromised == Restart => Promised
  <1> SUFFICES ASSUME Restart PROVE Promised
    OBVIOUS
  <1> DEFINE R == {h \in Handlers : row[h] = "processing" /\ old[h]}
  <1>1. row' = [h \in Handlers |-> IF h \in R THEN "failed" ELSE row[h]]
    BY DEF Restart
  <1>2. Lifecycle!Expire(R)
    BY <1>1 DEF Restart, Lifecycle!Expire
  <1> QED BY <1>2 DEF Promised, Lifecycle!Next

LEMMA NextPromised == IInv /\ FreshInv /\ [Next]_vars => [Lifecycle!Next]_(Lifecycle!vars)
  <1> SUFFICES ASSUME IInv, FreshInv, [Next]_vars PROVE Promised
    BY DEF Promised, Unseen, Lifecycle!vars
  <1>1. CASE Crash \/ UNCHANGED vars
    BY <1>1 DEF Crash, vars, dbVars, Promised, Unseen
  <1> QED BY <1>1, ProgressPromised, RecoveryPromised, DisconnectionPromised, ResolvePromised,
             FailurePromised, DeletionPromised, RestartPromised
          DEF Next

\* The handlers, their recovery tasks, deletions and the sweep keep what the lifecycle
\* promises: one acceptance per key, one final status, an answer exactly if that is
\* "completed", and cancellation only on demand.
THEOREM StreamImplements == Spec => LifecycleSpec
  <1>1. Init => FreshInv /\ Lifecycle!Init
    BY DEF Init, FreshInv, Lifecycle!Init
  <1>2. Spec => []FreshInv
    BY Invariance, FreshNext, <1>1, PTL DEF Spec
  <1> QED BY Invariance, NextPromised, <1>1, <1>2, PTL DEF Spec, LifecycleSpec, Lifecycle!Spec
=============================================================================
