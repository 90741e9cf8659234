--------------------------- MODULE ChatStreamProofs ---------------------------
(***************************************************************************)
(* Proofs of the safety properties of ChatStream, for any handlers,        *)
(* sessions, keys, deleting calls and bounds.                              *)
(*                                                                         *)
(* IInv speaks of one handler at a time, but for its last conjunct.  Most  *)
(* steps are one handler's, and leave alone what IInv says of the others:  *)
(* for such a step it is enough to look at that handler (KeepsSuffices).   *)
(***************************************************************************)
EXTENDS ChatStream, TLAPS

Rows == Status \cup {"none", "deleted"}

HInv(h) == RunInv(h) /\ RecInv(h) /\ FlightInv(h) /\ RowInv(h)

\* The step is h's: what IInv says of other handlers is not touched.
Others(h) ==
  /\ \A g \in Handlers \ {h} :
       /\ pc'[g] = pc[g] /\ rec'[g] = rec[g] /\ row'[g] = row[g]
       /\ answers'[g] = answers[g] /\ inflight'[g] = inflight[g]
       /\ late'[g] = late[g] /\ cancelled'[g] = cancelled[g]
       /\ \A w \in {"stream", "recovery"} :
            <<g, w>> \in lock[SessionOf[g]] => <<g, w>> \in lock'[SessionOf[g]]
  /\ live' = live /\ up' = up

\* What is left to show for a step of h: it does not take a key another has,
\* leaves a final status alone, and shares no lock.
Keeps(h) ==
  /\ TypeOK' /\ Others(h) /\ HInv(h)'
  /\ \/ Owns(h)' => Owns(h)
     \/ \A g \in Handlers : g # h /\ SameKey(g, h) => ~Owns(g)
  /\ row[h] \in Final => row'[h] = row[h] \/ late[h]
  /\ \A s \in Sessions :
       lock'[s] \subseteq lock[s] \/ \A a, b \in lock'[s] : a = b

\* The step is a generator's move from one await to another and no more.
Moves(h) ==
  /\ UNCHANGED <<rec, cancelled, dbVars, lock, up>>
  /\ \A g \in Handlers \ {h} : pc'[g] = pc[g]
  /\ \/ pc'[h] = pc[h]
     \/ pc[h] \in Unborn /\ pc'[h] \in Unborn \cup {"reply", "ended"}
     \/ /\ pc[h] \in Working
        /\ pc'[h] \in (Working \ {"save", "cancel"}) \cup {"reply", "ended"}
     \/ pc[h] \in Working /\ pc'[h] = "cancel" /\ (cancelled[h] \/ ~Alive(h))
     \/ pc[h] = "reply" /\ pc'[h] = "ended"

-----------------------------------------------------------------------------
(* What the helpers of the actions do to the functions they update. *)

\* A generator moves to another await.
LEMMA GotoFacts ==
  ASSUME TypeOK, NEW h \in Handlers, NEW p \in PCs, Goto(h, p)
  PROVE  /\ pc' \in [Handlers -> PCs] /\ pc'[h] = p
         /\ \A g \in Handlers \ {h} : pc'[g] = pc[g]
  BY DEF TypeOK, Goto

\* A transaction lands: the row takes its status, and an answer is counted if
\* that is "completed".
LEMMA LandFacts ==
  ASSUME TypeOK, NEW h \in Handlers, NEW st \in Status, Land(h, st)
  PROVE  /\ row' \in [Handlers -> Rows] /\ answers' \in [Handlers -> Nat]
         /\ row'[h] = st
         /\ st = "completed" => answers'[h] = answers[h] + 1
         /\ st # "completed" => answers'[h] = answers[h]
         /\ \A g \in Handlers \ {h} : row'[g] = row[g] /\ answers'[g] = answers[g]
  <1>1. /\ row' \in [Handlers -> Rows] /\ row'[h] = st
        /\ \A g \in Handlers \ {h} : row'[g] = row[g]
    BY DEF TypeOK, Land, Rows
  <1>2. answers' \in [Handlers -> Nat]
    BY DEF TypeOK, Land
  <1>3. /\ st = "completed" => answers'[h] = answers[h] + 1
        /\ st # "completed" => answers'[h] = answers[h]
        /\ \A g \in Handlers \ {h} : answers'[g] = answers[g]
    BY DEF TypeOK, Land
  <1> QED BY <1>1, <1>2, <1>3

\* A transaction ends: only its own session lock is given up.
LEMMA ReleaseFacts ==
  ASSUME TypeOK, NEW h \in Handlers, NEW who \in {"stream", "recovery"},
         Release(h, who)
  PROVE  /\ lock' \in [Sessions -> SUBSET Holders]
         /\ \A s \in Sessions : lock'[s] \subseteq lock[s]
         /\ \A g \in Handlers, w \in {"stream", "recovery"} :
              /\ g # h \/ w # who
              /\ <<g, w>> \in lock[SessionOf[g]]
              => <<g, w>> \in lock'[SessionOf[g]]
  BY HandlerAssumption DEF TypeOK, Release

\* The last event is sent, or there is nobody to send it to.
LEMMA AnswerFacts ==
  ASSUME TypeOK, NEW h \in Handlers, NEW e \in Events, Answer(h, e)
  PROVE  /\ pc' \in [Handlers -> PCs] /\ pc'[h] \in {"reply", "ended"}
         /\ \A g \in Handlers \ {h} : pc'[g] = pc[g]
         /\ sent' \in [Handlers -> Events]
  <1>1. "reply" \in PCs /\ "ended" \in PCs
    BY DEF PCs
  <1> QED BY <1>1, GotoFacts DEF TypeOK, Answer

\* The generator raises.
LEMMA AbortFacts ==
  ASSUME TypeOK, NEW h \in Handlers, Abort(h)
  PROVE  /\ pc' \in [Handlers -> PCs] /\ pc'[h] = "ended"
         /\ \A g \in Handlers \ {h} : pc'[g] = pc[g]
         /\ sent' \in [Handlers -> Events]
  <1>1. "ended" \in PCs /\ "aborted" \in Events
    BY DEF PCs, Events
  <1> QED BY <1>1, GotoFacts DEF TypeOK, Abort, Break

\* The outer handler schedules the recovery and raises.
LEMMA RecoverFacts ==
  ASSUME TypeOK, NEW h \in Handlers, Recover(h)
  PROVE  /\ pc' \in [Handlers -> PCs] /\ pc'[h] = "ended"
         /\ rec' \in [Handlers -> Recs] /\ rec'[h] = "run"
         /\ \A g \in Handlers \ {h} : pc'[g] = pc[g] /\ rec'[g] = rec[g]
  <1>1. "ended" \in PCs /\ "run" \in Recs
    BY DEF PCs, Recs
  <1> QED BY <1>1, GotoFacts DEF TypeOK, Recover

\* A cancelled commit has landed, or is in flight.
LEMMA CommitCutFacts ==
  ASSUME TypeOK, NEW h \in Handlers, NEW st \in Status, CommitCut(h, st)
  PROVE  /\ row' \in [Handlers -> Rows] /\ answers' \in [Handlers -> Nat]
         /\ inflight' \in [Handlers -> Status \cup {"none"}]
         /\ lock' \in [Sessions -> SUBSET Holders]
         /\ \A s \in Sessions : lock'[s] \subseteq lock[s]
         /\ \A g \in Handlers \ {h} :
              /\ row'[g] = row[g] /\ answers'[g] = answers[g]
              /\ inflight'[g] = inflight[g]
         /\ \A g \in Handlers, w \in {"stream", "recovery"} :
              /\ g # h \/ w # "stream"
              /\ <<g, w>> \in lock[SessionOf[g]]
              => <<g, w>> \in lock'[SessionOf[g]]
         /\ \/ /\ row'[h] = st /\ inflight'[h] = inflight[h]
               /\ st = "completed" => answers'[h] = answers[h] + 1
               /\ st # "completed" => answers'[h] = answers[h]
            \/ /\ inflight'[h] = st /\ row'[h] = row[h]
               /\ answers'[h] = answers[h]
  <1>1. CASE Land(h, st) /\ Release(h, "stream") /\ UNCHANGED inflight
    BY <1>1, LandFacts, ReleaseFacts DEF TypeOK
  <1>2. CASE /\ inflight' = [inflight EXCEPT ![h] = st]
             /\ UNCHANGED <<row, answers, lock>>
    BY <1>2 DEF TypeOK, Rows
  <1> QED BY <1>1, <1>2 DEF CommitCut

-----------------------------------------------------------------------------
(* The induction step, for the steps of one handler. *)

\* A step of h leaves the others' part of the invariant as it was.
LEMMA OthersKeep ==
  ASSUME IInv, NEW h \in Handlers, Others(h), NEW g \in Handlers \ {h}
  PROVE  HInv(g)'
  <1>0. RunInv(g) /\ RecInv(g) /\ FlightInv(g) /\ RowInv(g)
    BY DEF IInv
  <1>1. RunInv(g)'
    BY <1>0 DEF Others, RunInv, Alive
  <1>2. RecInv(g)'
    BY <1>0 DEF Others, RecInv, Alive
  <1>3. FlightInv(g)'
    BY <1>0 DEF Others, FlightInv, Alive
  <1>4. RowInv(g)'
    <2>1. /\ row'[g] = row[g] /\ answers'[g] = answers[g]
          /\ late'[g] = late[g] /\ cancelled'[g] = cancelled[g]
          /\ Alive(g)' = Alive(g)
      BY DEF Others, Alive
    <2> QED BY <1>0, <2>1 DEF RowInv
  <1> QED BY <1>1, <1>2, <1>3, <1>4 DEF HInv

\* So it is enough to look at h itself.
LEMMA KeepsSuffices ==
  ASSUME IInv, NEW h \in Handlers, Keeps(h)
  PROVE  IInv'
  <1>1. \A g \in Handlers :
          RunInv(g)' /\ RecInv(g)' /\ FlightInv(g)' /\ RowInv(g)'
    BY OthersKeep DEF HInv, Keeps
  <1>2. \A g \in Handlers \ {h} : Owns(g)' => Owns(g)
    BY DEF Owns, Others, Keeps
  <1>3. \A g, k \in Handlers : g # k /\ SameKey(g, k) => ~(Owns(g)' /\ Owns(k)')
    BY <1>2 DEF IInv, SameKey, Keeps
  <1>4. \A s \in Sessions : \A a, b \in lock'[s] : a = b
    BY DEF IInv, Keeps
  <1> QED BY <1>1, <1>3, <1>4 DEF IInv, SameKey, Keeps

\* Rows of a session that is still there have not been deleted.
LEMMA RowsOfLive ==
  ASSUME IInv, NEW g \in Handlers, Alive(g)
  PROVE  row[g] # "deleted"
  BY DEF IInv, RowInv

\* A generator may move on from an await if the step it leaves behind is done.
LEMMA MoveKeeps ==
  ASSUME IInv, NEW h \in Handlers, up, TypeOK', Moves(h)
  PROVE  Keeps(h)
  <1> USE DEF Moves, dbVars, IInv
  <1>1. Others(h)
    BY DEF Others
  <1>2. RunInv(h)'
    BY DEF RunInv, RecInv, Alive, Working, Unborn, Inactive
  <1>3. RecInv(h)'
    BY DEF RecInv, Alive, Working, Unborn
  <1>4. FlightInv(h)'
    BY DEF FlightInv, Alive, Working, Unborn
  <1>5. RowInv(h)'
    BY DEF RowInv, Alive
  <1>6. Owns(h)' => Owns(h)
    BY DEF Owns
  <1> QED BY <1>1, <1>2, <1>3, <1>4, <1>5, <1>6 DEF Keeps, HInv

\* A generator that goes on keeps the invariant.
LEMMA KeepsProgress ==
  ASSUME IInv, NEW h \in Handlers, Open(h) \/ Progress(h)
  PROVE  Keeps(h)
  <1> USE HandlerAssumption
      DEF clientVars, dbVars, envVars, TypeOK, PCs, Events, Status, Final
  <1>0. TypeOK /\ RunInv(h) /\ RecInv(h) /\ FlightInv(h) /\ RowInv(h)
    BY DEF IInv
  <1>1. CASE Open(h)
    <2>1. TypeOK'
      BY <1>0, <1>1, GotoFacts
      DEF Open, Recs, Holders, Rows
    <2>2. Others(h)
      BY <1>0, <1>1, GotoFacts
      DEF Open, Others
    <2>3. HInv(h)'
      BY <1>0, <1>1, GotoFacts
      DEF Open, HInv, RunInv, RecInv, FlightInv, RowInv, Working, Unborn, Inactive, Alive
    <2>4. Owns(h)' => Owns(h)
      BY <1>0, <1>1, GotoFacts
      DEF Open, Owns, RunInv, RecInv, FlightInv, Working
    <2>5. row[h] \in Final => row'[h] = row[h] \/ late[h]
      BY <1>0, <1>1, GotoFacts
      DEF Open, RunInv, RecInv, FlightInv, Working, Unborn
    <2>6. \A s \in Sessions :
            lock'[s] \subseteq lock[s] \/ \A a, b \in lock'[s] : a = b
      BY <1>0, <1>1, GotoFacts
      DEF Open
    <2> QED BY <2>1, <2>2, <2>3, <2>4, <2>5, <2>6 DEF Keeps
  <1>2. CASE Lookup(h)
    <2>1. TypeOK'
      BY <1>0, <1>2, GotoFacts, AnswerFacts
      DEF Lookup, Replay
    <2>2. up /\ Moves(h)
      BY <1>0, <1>2, GotoFacts, AnswerFacts
      DEF Lookup, Replay, Moves, Working, Unborn
    <2> QED BY <2>1, <2>2, MoveKeeps
  <1>3. CASE Insert(h)
    <2>1. TypeOK'
      BY <1>0, <1>3, LandFacts, GotoFacts
      DEF Insert, Recs, Holders, Rows
    <2>2. Others(h)
      BY <1>0, <1>3, LandFacts, GotoFacts
      DEF Insert, Others
    <2>3. HInv(h)'
      BY <1>0, <1>3, LandFacts, GotoFacts
      DEF Insert, HInv, RunInv, RecInv, FlightInv, RowInv, Working, Unborn, Inactive, Alive
    <2>4. \A g \in Handlers : g # h /\ SameKey(g, h) => ~Owns(g)
      BY <1>3, RowsOfLive DEF Insert, Existing, KeyBusy, Owns, Alive, SameKey
    <2>5. row[h] \in Final => row'[h] = row[h] \/ late[h]
      BY <1>0, <1>3, LandFacts, GotoFacts
      DEF Insert, RunInv, RecInv, FlightInv, Working, Unborn
    <2>6. \A s \in Sessions :
            lock'[s] \subseteq lock[s] \/ \A a, b \in lock'[s] : a = b
      BY <1>0, <1>3, LandFacts, GotoFacts
      DEF Insert
    <2> QED BY <2>1, <2>2, <2>3, <2>4, <2>5, <2>6 DEF Keeps
  <1>4. CASE InsertRefused(h)
    <2>1. TypeOK'
      BY <1>0, <1>4, AnswerFacts, AbortFacts
      DEF InsertRefused, Replay
    <2>2. up /\ Moves(h)
      BY <1>0, <1>4, AnswerFacts, AbortFacts
      DEF InsertRefused, Replay, Moves, Working, Unborn
    <2> QED BY <2>1, <2>2, MoveKeeps
  <1>5. CASE Route(h)
    <2>1. TypeOK'
      BY <1>0, <1>5, GotoFacts
      DEF Route
    <2>2. up /\ Moves(h)
      BY <1>0, <1>5, GotoFacts
      DEF Route, Moves, Working, Unborn
    <2> QED BY <2>1, <2>2, MoveKeeps
  <1>6. CASE Assess(h)
    <2>1. TypeOK'
      BY <1>0, <1>6, GotoFacts
      DEF Assess
    <2>2. up /\ Moves(h)
      BY <1>0, <1>6, GotoFacts
      DEF Assess, Moves, Working, Unborn
    <2> QED BY <2>1, <2>2, MoveKeeps
  <1>7. CASE Poll(h)
    <2>1. TypeOK'
      BY <1>0, <1>7, GotoFacts
      DEF Poll
    <2>2. up /\ Moves(h)
      BY <1>0, <1>7, GotoFacts
      DEF Poll, Moves, Working, Unborn
    <2> QED BY <2>1, <2>2, MoveKeeps
  <1>8. CASE StreamEnd(h)
    <2>1. TypeOK'
      BY <1>0, <1>8, GotoFacts
      DEF StreamEnd
    <2>2. up /\ Moves(h)
      BY <1>0, <1>8, GotoFacts
      DEF StreamEnd, Moves, Working, Unborn
    <2> QED BY <2>1, <2>2, MoveKeeps
  <1>9. CASE Check(h)
    <2>1. TypeOK'
      BY <1>0, <1>9, GotoFacts
      DEF Check
    <2>2. up /\ Moves(h)
      BY <1>0, <1>9, GotoFacts
      DEF Check, Moves, Working, Unborn
    <2> QED BY <2>1, <2>2, MoveKeeps
  <1>10. CASE Lock(h)
    <2>1. TypeOK'
      <3>1. SessionOf[h] \in Sessions /\ {<<h, "stream">>} \in SUBSET Holders
        BY HandlerAssumption DEF Holders
      <3>2. lock' \in [Sessions -> SUBSET Holders]
        BY <1>0, <1>10, <3>1 DEF Lock
      <3>3. pc' \in [Handlers -> PCs]
        BY <1>0, <1>10, GotoFacts DEF Lock
      <3>4. UNCHANGED <<clientVars, cancelled, rec, delpc, dbVars, envVars, faults>>
        BY <1>10 DEF Lock
      <3> QED BY <1>0, <3>2, <3>3, <3>4
    <2>2. Others(h)
      BY <1>0, <1>10, GotoFacts
      DEF Lock, Lockable, Others
    <2>3. HInv(h)'
      BY <1>0, <1>10, GotoFacts
      DEF Lock, Lockable, HInv, RunInv, RecInv, FlightInv, RowInv, Working, Unborn, Inactive, Alive
    <2>4. Owns(h)' => Owns(h)
      BY <1>0, <1>10, GotoFacts
      DEF Lock, Lockable, Owns, RunInv, RecInv, FlightInv, Working
    <2>5. row[h] \in Final => row'[h] = row[h] \/ late[h]
      BY <1>0, <1>10, GotoFacts
      DEF Lock, Lockable, RunInv, RecInv, FlightInv, Working, Unborn
    <2>6. \A s \in Sessions :
            lock'[s] \subseteq lock[s] \/ \A a, b \in lock'[s] : a = b
      BY <1>0, <1>10, GotoFacts
      DEF Lock, Lockable
    <2> QED BY <2>1, <2>2, <2>3, <2>4, <2>5, <2>6 DEF Keeps
  <1>11. CASE Save(h)
    <2>1. TypeOK'
      BY <1>0, <1>11, LandFacts, ReleaseFacts, AnswerFacts
      DEF Save, Recs, Holders, Rows
    <2>2. Others(h)
      BY <1>0, <1>11, LandFacts, ReleaseFacts, AnswerFacts
      DEF Save, Others
    <2>3. HInv(h)'
      <3>1. RunInv(h)'
        BY <1>0, <1>11, LandFacts, ReleaseFacts, AnswerFacts
        DEF Save, RunInv, RecInv, FlightInv, RowInv, Working, Unborn, Inactive, Alive
      <3>2. RecInv(h)'
        BY <1>0, <1>11, LandFacts, ReleaseFacts, AnswerFacts
        DEF Save, RunInv, RecInv, FlightInv, RowInv, Working, Unborn, Inactive, Alive
      <3>3. FlightInv(h)'
        BY <1>0, <1>11, LandFacts, ReleaseFacts, AnswerFacts
        DEF Save, RunInv, RecInv, FlightInv, RowInv, Working, Unborn, Inactive, Alive
      <3>4. RowInv(h)'
        BY <1>0, <1>11, LandFacts, ReleaseFacts, AnswerFacts
        DEF Save, RunInv, RecInv, FlightInv, RowInv, Working, Unborn, Inactive, Alive
      <3> QED BY <3>1, <3>2, <3>3, <3>4 DEF HInv
    <2>4. Owns(h)' => Owns(h)
      BY <1>0, <1>11, LandFacts, ReleaseFacts, AnswerFacts
      DEF Save, Owns, RunInv, RecInv, FlightInv, Working
    <2>5. row[h] \in Final => row'[h] = row[h] \/ late[h]
      BY <1>0, <1>11, LandFacts, ReleaseFacts, AnswerFacts
      DEF Save, RunInv, RecInv, FlightInv, Working, Unborn
    <2>6. \A s \in Sessions :
            lock'[s] \subseteq lock[s] \/ \A a, b \in lock'[s] : a = b
      BY <1>0, <1>11, LandFacts, ReleaseFacts, AnswerFacts
      DEF Save
    <2> QED BY <2>1, <2>2, <2>3, <2>4, <2>5, <2>6 DEF Keeps
  <1>12. CASE SaveRejected(h)
    <2>1. TypeOK'
      BY <1>0, <1>12, ReleaseFacts, GotoFacts
      DEF SaveRejected, Break, Recs, Holders, Rows
    <2>2. Others(h)
      BY <1>0, <1>12, ReleaseFacts, GotoFacts
      DEF SaveRejected, Break, Others
    <2>3. HInv(h)'
      BY <1>0, <1>12, ReleaseFacts, GotoFacts
      DEF SaveRejected, Break, HInv, RunInv, RecInv, FlightInv, RowInv, Working, Unborn, Inactive, Alive
    <2>4. Owns(h)' => Owns(h)
      BY <1>0, <1>12, ReleaseFacts, GotoFacts
      DEF SaveRejected, Break, Owns, RunInv, RecInv, FlightInv, Working
    <2>5. row[h] \in Final => row'[h] = row[h] \/ late[h]
      BY <1>0, <1>12, ReleaseFacts, GotoFacts
      DEF SaveRejected, Break, RunInv, RecInv, FlightInv, Working, Unborn
    <2>6. \A s \in Sessions :
            lock'[s] \subseteq lock[s] \/ \A a, b \in lock'[s] : a = b
      BY <1>0, <1>12, ReleaseFacts, GotoFacts
      DEF SaveRejected, Break
    <2> QED BY <2>1, <2>2, <2>3, <2>4, <2>5, <2>6 DEF Keeps
  <1>13. CASE MarkFailed(h)
    <2>1. TypeOK'
      BY <1>0, <1>13, LandFacts, AnswerFacts, AbortFacts
      DEF MarkFailed, MarkAs, Mark, Recs, Holders, Rows
    <2>2. Others(h)
      BY <1>0, <1>13, LandFacts, AnswerFacts, AbortFacts
      DEF MarkFailed, MarkAs, Mark, Others
    <2>3. HInv(h)'
      <3>1. RunInv(h)'
        BY <1>0, <1>13, LandFacts, AnswerFacts, AbortFacts
        DEF MarkFailed, MarkAs, Mark, RunInv, RecInv, FlightInv, RowInv, Working, Unborn, Inactive, Alive
      <3>2. RecInv(h)'
        BY <1>0, <1>13, LandFacts, AnswerFacts, AbortFacts
        DEF MarkFailed, MarkAs, Mark, RunInv, RecInv, FlightInv, RowInv, Working, Unborn, Inactive, Alive
      <3>3. FlightInv(h)'
        BY <1>0, <1>13, LandFacts, AnswerFacts, AbortFacts
        DEF MarkFailed, MarkAs, Mark, RunInv, RecInv, FlightInv, RowInv, Working, Unborn, Inactive, Alive
      <3>4. RowInv(h)'
        BY <1>0, <1>13, LandFacts, AnswerFacts, AbortFacts
        DEF MarkFailed, MarkAs, Mark, RunInv, RecInv, FlightInv, RowInv, Working, Unborn, Inactive, Alive
      <3> QED BY <3>1, <3>2, <3>3, <3>4 DEF HInv
    <2>4. Owns(h)' => Owns(h)
      BY <1>0, <1>13, LandFacts, AnswerFacts, AbortFacts
      DEF MarkFailed, MarkAs, Mark, Owns, RunInv, RecInv, FlightInv, Working
    <2>5. row[h] \in Final => row'[h] = row[h] \/ late[h]
      BY <1>0, <1>13, LandFacts, AnswerFacts, AbortFacts
      DEF MarkFailed, MarkAs, Mark, RunInv, RecInv, FlightInv, Working, Unborn
    <2>6. \A s \in Sessions :
            lock'[s] \subseteq lock[s] \/ \A a, b \in lock'[s] : a = b
      BY <1>0, <1>13, LandFacts, AnswerFacts, AbortFacts
      DEF MarkFailed, MarkAs, Mark
    <2> QED BY <2>1, <2>2, <2>3, <2>4, <2>5, <2>6 DEF Keeps
  <1>14. CASE MarkCancelled(h)
    <2>1. TypeOK'
      BY <1>0, <1>14, LandFacts, AnswerFacts, AbortFacts
      DEF MarkCancelled, MarkAs, Mark, Recs, Holders, Rows
    <2>2. Others(h)
      BY <1>0, <1>14, LandFacts, AnswerFacts, AbortFacts
      DEF MarkCancelled, MarkAs, Mark, Others
    <2>3. HInv(h)'
      <3>1. RunInv(h)'
        BY <1>0, <1>14, LandFacts, AnswerFacts, AbortFacts
        DEF MarkCancelled, MarkAs, Mark, RunInv, RecInv, FlightInv, RowInv, Working, Unborn, Inactive, Alive
      <3>2. RecInv(h)'
        BY <1>0, <1>14, LandFacts, AnswerFacts, AbortFacts
        DEF MarkCancelled, MarkAs, Mark, RunInv, RecInv, FlightInv, RowInv, Working, Unborn, Inactive, Alive
      <3>3. FlightInv(h)'
        BY <1>0, <1>14, LandFacts, AnswerFacts, AbortFacts
        DEF MarkCancelled, MarkAs, Mark, RunInv, RecInv, FlightInv, RowInv, Working, Unborn, Inactive, Alive
      <3>4. RowInv(h)'
        BY <1>0, <1>14, LandFacts, AnswerFacts, AbortFacts
        DEF MarkCancelled, MarkAs, Mark, RunInv, RecInv, FlightInv, RowInv, Working, Unborn, Inactive, Alive
      <3> QED BY <3>1, <3>2, <3>3, <3>4 DEF HInv
    <2>4. Owns(h)' => Owns(h)
      BY <1>0, <1>14, LandFacts, AnswerFacts, AbortFacts
      DEF MarkCancelled, MarkAs, Mark, Owns, RunInv, RecInv, FlightInv, Working
    <2>5. row[h] \in Final => row'[h] = row[h] \/ late[h]
      BY <1>0, <1>14, LandFacts, AnswerFacts, AbortFacts
      DEF MarkCancelled, MarkAs, Mark, RunInv, RecInv, FlightInv, Working, Unborn
    <2>6. \A s \in Sessions :
            lock'[s] \subseteq lock[s] \/ \A a, b \in lock'[s] : a = b
      BY <1>0, <1>14, LandFacts, AnswerFacts, AbortFacts
      DEF MarkCancelled, MarkAs, Mark
    <2> QED BY <2>1, <2>2, <2>3, <2>4, <2>5, <2>6 DEF Keeps
  <1>15. CASE Reply(h)
    <2>1. TypeOK'
      BY <1>0, <1>15, GotoFacts
      DEF Reply
    <2>2. up /\ Moves(h)
      BY <1>0, <1>15, GotoFacts
      DEF Reply, Moves, Working, Unborn
    <2> QED BY <2>1, <2>2, MoveKeeps
  <1> QED BY <1>1, <1>2, <1>3, <1>4, <1>5, <1>6, <1>7, <1>8, <1>9, <1>10, <1>11, <1>12, <1>13, <1>14, <1>15 DEF Progress

\* So does one whose client goes away, wherever it stands.
LEMMA KeepsDisconnection ==
  ASSUME IInv, NEW h \in Handlers, Disconnection(h)
  PROVE  Keeps(h)
  <1> USE HandlerAssumption
      DEF clientVars, dbVars, envVars, TypeOK, PCs, Events, Status, Final
  <1>0. TypeOK /\ RunInv(h) /\ RecInv(h) /\ FlightInv(h) /\ RowInv(h)
    BY DEF IInv
  <1>1. CASE DisconnectStream(h)
    <2>1. TypeOK'
      BY <1>0, <1>1
      DEF DisconnectStream
    <2>2. up /\ Moves(h)
      BY <1>0, <1>1
      DEF DisconnectStream, Moves, Working, Unborn
    <2> QED BY <2>1, <2>2, MoveKeeps
  <1>2. CASE DisconnectQuiet(h)
    <2>1. TypeOK'
      BY <1>0, <1>2, GotoFacts
      DEF DisconnectQuiet
    <2>2. up /\ Moves(h)
      BY <1>0, <1>2, GotoFacts
      DEF DisconnectQuiet, Moves, Working, Unborn
    <2> QED BY <2>1, <2>2, MoveKeeps
  <1>3. CASE Disconnect(h)
    <2>1. TypeOK'
      BY <1>0, <1>3, RecoverFacts, ReleaseFacts
      DEF Disconnect, Recs, Holders, Rows
    <2>2. Others(h)
      BY <1>0, <1>3, RecoverFacts, ReleaseFacts
      DEF Disconnect, Others
    <2>3. HInv(h)'
      BY <1>0, <1>3, RecoverFacts, ReleaseFacts
      DEF Disconnect, HInv, RunInv, RecInv, FlightInv, RowInv, Working, Unborn, Inactive, Alive
    <2>4. Owns(h)' => Owns(h)
      BY <1>0, <1>3, RecoverFacts, ReleaseFacts
      DEF Disconnect, Owns, RunInv, RecInv, FlightInv, Working
    <2>5. row[h] \in Final => row'[h] = row[h] \/ late[h]
      BY <1>0, <1>3, RecoverFacts, ReleaseFacts
      DEF Disconnect, RunInv, RecInv, FlightInv, Working, Unborn
    <2>6. \A s \in Sessions :
            lock'[s] \subseteq lock[s] \/ \A a, b \in lock'[s] : a = b
      BY <1>0, <1>3, RecoverFacts, ReleaseFacts
      DEF Disconnect
    <2> QED BY <2>1, <2>2, <2>3, <2>4, <2>5, <2>6 DEF Keeps
  <1>4. CASE DisconnectInsert(h)
    <2>1. TypeOK'
      BY <1>0, <1>4, RecoverFacts, CommitCutFacts
      DEF DisconnectInsert, Recs, Holders, Rows
    <2>2. Others(h)
      BY <1>0, <1>4, RecoverFacts, CommitCutFacts
      DEF DisconnectInsert, Others
    <2>3. HInv(h)'
      <3>1. RunInv(h)'
        BY <1>0, <1>4, RecoverFacts, CommitCutFacts
        DEF DisconnectInsert, RunInv, RecInv, FlightInv, RowInv, Working, Unborn, Inactive, Alive
      <3>2. RecInv(h)'
        BY <1>0, <1>4, RecoverFacts, CommitCutFacts
        DEF DisconnectInsert, RunInv, RecInv, FlightInv, RowInv, Working, Unborn, Inactive, Alive
      <3>3. FlightInv(h)'
        BY <1>0, <1>4, RecoverFacts, CommitCutFacts
        DEF DisconnectInsert, RunInv, RecInv, FlightInv, RowInv, Working, Unborn, Inactive, Alive
      <3>4. RowInv(h)'
        BY <1>0, <1>4, RecoverFacts, CommitCutFacts
        DEF DisconnectInsert, RunInv, RecInv, FlightInv, RowInv, Working, Unborn, Inactive, Alive
      <3> QED BY <3>1, <3>2, <3>3, <3>4 DEF HInv
    <2>4. \A g \in Handlers : g # h /\ SameKey(g, h) => ~Owns(g)
      BY <1>4, RowsOfLive DEF DisconnectInsert, Existing, KeyBusy, Owns, Alive, SameKey
    <2>5. row[h] \in Final => row'[h] = row[h] \/ late[h]
      BY <1>0, <1>4, RecoverFacts, CommitCutFacts
      DEF DisconnectInsert, RunInv, RecInv, FlightInv, Working, Unborn
    <2>6. \A s \in Sessions :
            lock'[s] \subseteq lock[s] \/ \A a, b \in lock'[s] : a = b
      BY <1>0, <1>4, RecoverFacts, CommitCutFacts
      DEF DisconnectInsert
    <2> QED BY <2>1, <2>2, <2>3, <2>4, <2>5, <2>6 DEF Keeps
  <1>5. CASE DisconnectCommit(h)
    <2>1. TypeOK'
      BY <1>0, <1>5, RecoverFacts, CommitCutFacts
      DEF DisconnectCommit, Recs, Holders, Rows
    <2>2. Others(h)
      <3>1. PICK st \in Status : CommitCut(h, st)
        BY <1>5 DEF DisconnectCommit
      <3>2. \A g \in Handlers \ {h} : /\ row'[g] = row[g] /\ answers'[g] = answers[g]
                                     /\ inflight'[g] = inflight[g]
        BY <1>0, <3>1, CommitCutFacts
      <3>3. ASSUME NEW g \in Handlers \ {h}, NEW w \in {"stream", "recovery"},
                   <<g, w>> \in lock[SessionOf[g]]
            PROVE  <<g, w>> \in lock'[SessionOf[g]]
        BY <1>0, <3>1, <3>3, CommitCutFacts
      <3>4. \A g \in Handlers \ {h} : pc'[g] = pc[g] /\ rec'[g] = rec[g]
        BY <1>0, <1>5, RecoverFacts DEF DisconnectCommit
      <3> QED BY <1>5, <3>2, <3>3, <3>4 DEF DisconnectCommit, Others
    <2>3. HInv(h)'
      <3>1. RunInv(h)'
        BY <1>0, <1>5, RecoverFacts, CommitCutFacts
        DEF DisconnectCommit, RunInv, RecInv, FlightInv, RowInv, Working, Unborn, Inactive, Alive
      <3>2. RecInv(h)'
        BY <1>0, <1>5, RecoverFacts, CommitCutFacts
        DEF DisconnectCommit, RunInv, RecInv, FlightInv, RowInv, Working, Unborn, Inactive, Alive
      <3>3. FlightInv(h)'
        BY <1>0, <1>5, RecoverFacts, CommitCutFacts
        DEF DisconnectCommit, RunInv, RecInv, FlightInv, RowInv, Working, Unborn, Inactive, Alive
      <3>4. RowInv(h)'
        BY <1>0, <1>5, RecoverFacts, CommitCutFacts
        DEF DisconnectCommit, RunInv, RecInv, FlightInv, RowInv, Working, Unborn, Inactive, Alive
      <3> QED BY <3>1, <3>2, <3>3, <3>4 DEF HInv
    <2>4. Owns(h)' => Owns(h)
      BY <1>0, <1>5, RecoverFacts, CommitCutFacts
      DEF DisconnectCommit, Owns, RunInv, RecInv, FlightInv, Working
    <2>5. row[h] \in Final => row'[h] = row[h] \/ late[h]
      BY <1>0, <1>5, RecoverFacts, CommitCutFacts
      DEF DisconnectCommit, RunInv, RecInv, FlightInv, Working, Unborn
    <2>6. \A s \in Sessions :
            lock'[s] \subseteq lock[s] \/ \A a, b \in lock'[s] : a = b
      BY <1>0, <1>5, RecoverFacts, CommitCutFacts
      DEF DisconnectCommit
    <2> QED BY <2>1, <2>2, <2>3, <2>4, <2>5, <2>6 DEF Keeps
  <1>6. CASE DisconnectExpired(h)
    <2>1. TypeOK'
      BY <1>0, <1>6, GotoFacts, ReleaseFacts
      DEF DisconnectExpired, Recs, Holders, Rows
    <2>2. Others(h)
      BY <1>0, <1>6, GotoFacts, ReleaseFacts
      DEF DisconnectExpired, Others
    <2>3. HInv(h)'
      BY <1>0, <1>6, GotoFacts, ReleaseFacts
      DEF DisconnectExpired, HInv, RunInv, RecInv, FlightInv, RowInv, Working, Unborn, Inactive, Alive
    <2>4. Owns(h)' => Owns(h)
      BY <1>0, <1>6, GotoFacts, ReleaseFacts
      DEF DisconnectExpired, Owns, RunInv, RecInv, FlightInv, Working
    <2>5. row[h] \in Final => row'[h] = row[h] \/ late[h]
      BY <1>0, <1>6, GotoFacts, ReleaseFacts
      DEF DisconnectExpired, RunInv, RecInv, FlightInv, Working, Unborn
    <2>6. \A s \in Sessions :
            lock'[s] \subseteq lock[s] \/ \A a, b \in lock'[s] : a = b
      BY <1>0, <1>6, GotoFacts, ReleaseFacts
      DEF DisconnectExpired
    <2> QED BY <2>1, <2>2, <2>3, <2>4, <2>5, <2>6 DEF Keeps
  <1> QED BY <1>1, <1>2, <1>3, <1>4, <1>5, <1>6 DEF Disconnection

\* So does its recovery task.
LEMMA KeepsRecovery ==
  ASSUME IInv, NEW h \in Handlers, Recovery(h)
  PROVE  Keeps(h)
  <1> USE HandlerAssumption
      DEF clientVars, dbVars, envVars, TypeOK, PCs, Events, Status, Final
  <1>0. TypeOK /\ RunInv(h) /\ RecInv(h) /\ FlightInv(h) /\ RowInv(h)
    BY DEF IInv
  <1>1. CASE RecoveryChat(h) \/ RecoveryRead(h)
    <2>1. TypeOK'
      BY <1>0, <1>1
      DEF RecoveryChat, RecoveryRead, Recs, Holders, Rows
    <2>2. Others(h)
      BY <1>0, <1>1
      DEF RecoveryChat, RecoveryRead, Others
    <2>3. HInv(h)'
      BY <1>0, <1>1
      DEF RecoveryChat, RecoveryRead, HInv, RunInv, RecInv, FlightInv, RowInv, Working, Unborn, Inactive, Alive
    <2>4. Owns(h)' => Owns(h)
      BY <1>0, <1>1
      DEF RecoveryChat, RecoveryRead, Owns, RunInv, RecInv, FlightInv, Working
    <2>5. row[h] \in Final => row'[h] = row[h] \/ late[h]
      BY <1>0, <1>1
      DEF RecoveryChat, RecoveryRead, RunInv, RecInv, FlightInv, Working, Unborn
    <2>6. \A s \in Sessions :
            lock'[s] \subseteq lock[s] \/ \A a, b \in lock'[s] : a = b
      BY <1>0, <1>1
      DEF RecoveryChat, RecoveryRead
    <2> QED BY <2>1, <2>2, <2>3, <2>4, <2>5, <2>6 DEF Keeps
  <1>2. CASE RecoveryLock(h)
    <2>1. TypeOK'
      BY <1>0, <1>2
      DEF RecoveryLock, Lockable, Recs, Holders, Rows
    <2>2. Others(h)
      BY <1>0, <1>2
      DEF RecoveryLock, Lockable, Others
    <2>3. HInv(h)'
      BY <1>0, <1>2
      DEF RecoveryLock, Lockable, HInv, RunInv, RecInv, FlightInv, RowInv, Working, Unborn, Inactive, Alive
    <2>4. Owns(h)' => Owns(h)
      BY <1>0, <1>2
      DEF RecoveryLock, Lockable, Owns, RunInv, RecInv, FlightInv, Working
    <2>5. row[h] \in Final => row'[h] = row[h] \/ late[h]
      BY <1>0, <1>2
      DEF RecoveryLock, Lockable, RunInv, RecInv, FlightInv, Working, Unborn
    <2>6. \A s \in Sessions :
            lock'[s] \subseteq lock[s] \/ \A a, b \in lock'[s] : a = b
      BY <1>0, <1>2
      DEF RecoveryLock, Lockable
    <2> QED BY <2>1, <2>2, <2>3, <2>4, <2>5, <2>6 DEF Keeps
  <1>3. CASE RecoverySave(h)
    <2>1. TypeOK'
      BY <1>0, <1>3, LandFacts, ReleaseFacts
      DEF RecoverySave, Recs, Holders, Rows
    <2>2. Others(h)
      BY <1>0, <1>3, LandFacts, ReleaseFacts
      DEF RecoverySave, Others
    <2>3. HInv(h)'
      <3>1. RunInv(h)'
        BY <1>0, <1>3, LandFacts, ReleaseFacts
        DEF RecoverySave, RunInv, RecInv, FlightInv, RowInv, Working, Unborn, Inactive, Alive
      <3>2. RecInv(h)'
        BY <1>0, <1>3, LandFacts, ReleaseFacts
        DEF RecoverySave, RunInv, RecInv, FlightInv, RowInv, Working, Unborn, Inactive, Alive
      <3>3. FlightInv(h)'
        BY <1>0, <1>3, LandFacts, ReleaseFacts
        DEF RecoverySave, RunInv, RecInv, FlightInv, RowInv, Working, Unborn, Inactive, Alive
      <3>4. RowInv(h)'
        BY <1>0, <1>3, LandFacts, ReleaseFacts
        DEF RecoverySave, RunInv, RecInv, FlightInv, RowInv, Working, Unborn, Inactive, Alive
      <3> QED BY <3>1, <3>2, <3>3, <3>4 DEF HInv
    <2>4. Owns(h)' => Owns(h)
      BY <1>0, <1>3, LandFacts, ReleaseFacts
      DEF RecoverySave, Owns, RunInv, RecInv, FlightInv, Working
    <2>5. row[h] \in Final => row'[h] = row[h] \/ late[h]
      BY <1>0, <1>3, LandFacts, ReleaseFacts
      DEF RecoverySave, RunInv, RecInv, FlightInv, Working, Unborn
    <2>6. \A s \in Sessions :
            lock'[s] \subseteq lock[s] \/ \A a, b \in lock'[s] : a = b
      BY <1>0, <1>3, LandFacts, ReleaseFacts
      DEF RecoverySave
    <2> QED BY <2>1, <2>2, <2>3, <2>4, <2>5, <2>6 DEF Keeps
  <1>4. CASE RecoveryMark(h)
    <2>1. TypeOK'
      BY <1>0, <1>4, LandFacts
      DEF RecoveryMark, Mark, Recs, Holders, Rows
    <2>2. Others(h)
      BY <1>0, <1>4, LandFacts
      DEF RecoveryMark, Mark, Others
    <2>3. HInv(h)'
      BY <1>0, <1>4, LandFacts
      DEF RecoveryMark, Mark, HInv, RunInv, RecInv, FlightInv, RowInv, Working, Unborn, Inactive, Alive
    <2>4. Owns(h)' => Owns(h)
      BY <1>0, <1>4, LandFacts
      DEF RecoveryMark, Mark, Owns, RunInv, RecInv, FlightInv, Working
    <2>5. row[h] \in Final => row'[h] = row[h] \/ late[h]
      BY <1>0, <1>4, LandFacts
      DEF RecoveryMark, Mark, RunInv, RecInv, FlightInv, Working, Unborn
    <2>6. \A s \in Sessions :
            lock'[s] \subseteq lock[s] \/ \A a, b \in lock'[s] : a = b
      BY <1>0, <1>4, LandFacts
      DEF RecoveryMark, Mark
    <2> QED BY <2>1, <2>2, <2>3, <2>4, <2>5, <2>6 DEF Keeps
  <1> QED BY <1>1, <1>2, <1>3, <1>4 DEF Recovery

\* So does a database call that fails.
LEMMA KeepsFailure ==
  ASSUME IInv, NEW h \in Handlers, Failure(h)
  PROVE  Keeps(h)
  <1> USE HandlerAssumption
      DEF clientVars, dbVars, envVars, TypeOK, PCs, Events, Status, Final
  <1>0. TypeOK /\ RunInv(h) /\ RecInv(h) /\ FlightInv(h) /\ RowInv(h)
    BY DEF IInv
  <1>1. CASE FaultUnguarded(h)
    <2>1. TypeOK'
      BY <1>0, <1>1, AbortFacts
      DEF FaultUnguarded, Fault
    <2>2. up /\ Moves(h)
      BY <1>0, <1>1, AbortFacts
      DEF FaultUnguarded, Fault, Moves, Working, Unborn
    <2> QED BY <2>1, <2>2, MoveKeeps
  <1>2. CASE FaultSave(h)
    <2>1. TypeOK'
      BY <1>0, <1>2, ReleaseFacts, GotoFacts
      DEF FaultSave, Fault, Recs, Holders, Rows
    <2>2. Others(h)
      BY <1>0, <1>2, ReleaseFacts, GotoFacts
      DEF FaultSave, Fault, Others
    <2>3. HInv(h)'
      BY <1>0, <1>2, ReleaseFacts, GotoFacts
      DEF FaultSave, Fault, HInv, RunInv, RecInv, FlightInv, RowInv, Working, Unborn, Inactive, Alive
    <2>4. Owns(h)' => Owns(h)
      BY <1>0, <1>2, ReleaseFacts, GotoFacts
      DEF FaultSave, Fault, Owns, RunInv, RecInv, FlightInv, Working
    <2>5. row[h] \in Final => row'[h] = row[h] \/ late[h]
      BY <1>0, <1>2, ReleaseFacts, GotoFacts
      DEF FaultSave, Fault, RunInv, RecInv, FlightInv, Working, Unborn
    <2>6. \A s \in Sessions :
            lock'[s] \subseteq lock[s] \/ \A a, b \in lock'[s] : a = b
      BY <1>0, <1>2, ReleaseFacts, GotoFacts
      DEF FaultSave, Fault
    <2> QED BY <2>1, <2>2, <2>3, <2>4, <2>5, <2>6 DEF Keeps
  <1>3. CASE FaultFlush(h)
    <2>1. TypeOK'
      BY <1>0, <1>3, ReleaseFacts, GotoFacts
      DEF FaultFlush, Break, Fault, Recs, Holders, Rows
    <2>2. Others(h)
      BY <1>0, <1>3, ReleaseFacts, GotoFacts
      DEF FaultFlush, Break, Fault, Others
    <2>3. HInv(h)'
      BY <1>0, <1>3, ReleaseFacts, GotoFacts
      DEF FaultFlush, Break, Fault, HInv, RunInv, RecInv, FlightInv, RowInv, Working, Unborn, Inactive, Alive
    <2>4. Owns(h)' => Owns(h)
      BY <1>0, <1>3, ReleaseFacts, GotoFacts
      DEF FaultFlush, Break, Fault, Owns, RunInv, RecInv, FlightInv, Working
    <2>5. row[h] \in Final => row'[h] = row[h] \/ late[h]
      BY <1>0, <1>3, ReleaseFacts, GotoFacts
      DEF FaultFlush, Break, Fault, RunInv, RecInv, FlightInv, Working, Unborn
    <2>6. \A s \in Sessions :
            lock'[s] \subseteq lock[s] \/ \A a, b \in lock'[s] : a = b
      BY <1>0, <1>3, ReleaseFacts, GotoFacts
      DEF FaultFlush, Break, Fault
    <2> QED BY <2>1, <2>2, <2>3, <2>4, <2>5, <2>6 DEF Keeps
  <1>4. CASE FaultMark(h)
    <2>1. TypeOK'
      BY <1>0, <1>4, AbortFacts
      DEF FaultMark, Fault
    <2>2. up /\ Moves(h)
      BY <1>0, <1>4, AbortFacts
      DEF FaultMark, Fault, Moves, Working, Unborn
    <2> QED BY <2>1, <2>2, MoveKeeps
  <1>5. CASE FaultRecovery(h)
    <2>1. TypeOK'
      BY <1>0, <1>5, ReleaseFacts
      DEF FaultRecovery, Fault, Recs, Holders, Rows
    <2>2. Others(h)
      BY <1>0, <1>5, ReleaseFacts
      DEF FaultRecovery, Fault, Others
    <2>3. HInv(h)'
      BY <1>0, <1>5, ReleaseFacts
      DEF FaultRecovery, Fault, HInv, RunInv, RecInv, FlightInv, RowInv, Working, Unborn, Inactive, Alive
    <2>4. Owns(h)' => Owns(h)
      BY <1>0, <1>5, ReleaseFacts
      DEF FaultRecovery, Fault, Owns, RunInv, RecInv, FlightInv, Working
    <2>5. row[h] \in Final => row'[h] = row[h] \/ late[h]
      BY <1>0, <1>5, ReleaseFacts
      DEF FaultRecovery, Fault, RunInv, RecInv, FlightInv, Working, Unborn
    <2>6. \A s \in Sessions :
            lock'[s] \subseteq lock[s] \/ \A a, b \in lock'[s] : a = b
      BY <1>0, <1>5, ReleaseFacts
      DEF FaultRecovery, Fault
    <2> QED BY <2>1, <2>2, <2>3, <2>4, <2>5, <2>6 DEF Keeps
  <1> QED BY <1>1, <1>2, <1>3, <1>4, <1>5 DEF Failure

\* So does a commit that lands, or is dropped, behind its handler, and time.
LEMMA KeepsDatabase ==
  ASSUME IInv, NEW h \in Handlers, Resolve(h) \/ Age(h)
  PROVE  Keeps(h)
  <1> USE HandlerAssumption
      DEF clientVars, dbVars, envVars, TypeOK, PCs, Events, Status, Final
  <1>0. TypeOK /\ RunInv(h) /\ RecInv(h) /\ FlightInv(h) /\ RowInv(h)
    BY DEF IInv
  <1>1. CASE LateCommit(h)
    <2>0. inflight[h] \in Status /\ Land(h, inflight[h])
      BY <1>0, <1>1 DEF LateCommit
    <2>1. TypeOK'
      <3>1. row' \in [Handlers -> Rows] /\ answers' \in [Handlers -> Nat]
        BY <1>0, <2>0, LandFacts
      <3>2. lock' \in [Sessions -> SUBSET Holders]
        BY <1>0, <1>1, ReleaseFacts DEF LateCommit
      <3>3. /\ inflight' \in [Handlers -> Status \cup {"none"}]
            /\ late' \in [Handlers -> BOOLEAN]
        BY <1>0, <1>1 DEF LateCommit
      <3> QED BY <1>0, <1>1, <3>1, <3>2, <3>3 DEF LateCommit, Rows
    <2>2. Others(h)
      BY <1>0, <1>1, <2>0, LandFacts, ReleaseFacts
      DEF LateCommit, Others
    <2>3. HInv(h)'
      <3>1. RunInv(h)'
        BY <1>0, <1>1, LandFacts, ReleaseFacts
        DEF LateCommit, RunInv, RecInv, FlightInv, RowInv, Working, Unborn, Inactive, Alive
      <3>2. RecInv(h)'
        <4>1. rec[h] \in {"lock", "save"} =>
                inflight[h] \in Final /\ late'[h] /\ row'[h] = inflight[h]
          BY <1>0, <1>1, LandFacts DEF LateCommit, RecInv, FlightInv
        <4>2. <<h, "recovery">> \in lock[SessionOf[h]] =>
                <<h, "recovery">> \in lock'[SessionOf[h]]
          BY <1>0, <1>1, ReleaseFacts DEF LateCommit
        <4> QED BY <1>0, <1>1, <4>1, <4>2 DEF LateCommit, RecInv, FlightInv, Alive
      <3>3. FlightInv(h)'
        BY <1>0, <1>1, LandFacts, ReleaseFacts
        DEF LateCommit, RunInv, RecInv, FlightInv, RowInv, Working, Unborn, Inactive, Alive
      <3>4. RowInv(h)'
        BY <1>0, <1>1, LandFacts, ReleaseFacts
        DEF LateCommit, RunInv, RecInv, FlightInv, RowInv, Working, Unborn, Inactive, Alive
      <3> QED BY <3>1, <3>2, <3>3, <3>4 DEF HInv
    <2>4. Owns(h)' => Owns(h)
      BY <1>0, <1>1, LandFacts, ReleaseFacts
      DEF LateCommit, Owns, RunInv, RecInv, FlightInv, Working
    <2>5. row[h] \in Final => row'[h] = row[h] \/ late[h]
      BY <1>0, <1>1, LandFacts, ReleaseFacts
      DEF LateCommit, RunInv, RecInv, FlightInv, Working, Unborn
    <2>6. \A s \in Sessions :
            lock'[s] \subseteq lock[s] \/ \A a, b \in lock'[s] : a = b
      BY <1>0, <1>1, LandFacts, ReleaseFacts
      DEF LateCommit
    <2> QED BY <2>1, <2>2, <2>3, <2>4, <2>5, <2>6 DEF Keeps
  <1>2. CASE LateRollback(h)
    <2>1. TypeOK'
      BY <1>0, <1>2, ReleaseFacts
      DEF LateRollback, Recs, Holders, Rows
    <2>2. Others(h)
      BY <1>0, <1>2, ReleaseFacts
      DEF LateRollback, Others
    <2>3. HInv(h)'
      BY <1>0, <1>2, ReleaseFacts
      DEF LateRollback, HInv, RunInv, RecInv, FlightInv, RowInv, Working, Unborn, Inactive, Alive
    <2>4. Owns(h)' => Owns(h)
      BY <1>0, <1>2, ReleaseFacts
      DEF LateRollback, Owns, RunInv, RecInv, FlightInv, Working
    <2>5. row[h] \in Final => row'[h] = row[h] \/ late[h]
      BY <1>0, <1>2, ReleaseFacts
      DEF LateRollback, RunInv, RecInv, FlightInv, Working, Unborn
    <2>6. \A s \in Sessions :
            lock'[s] \subseteq lock[s] \/ \A a, b \in lock'[s] : a = b
      BY <1>0, <1>2, ReleaseFacts
      DEF LateRollback
    <2> QED BY <2>1, <2>2, <2>3, <2>4, <2>5, <2>6 DEF Keeps
  <1>3. CASE Age(h)
    <2>1. TypeOK'
      BY <1>0, <1>3
      DEF Age, Recs, Holders, Rows
    <2>2. Others(h)
      BY <1>0, <1>3
      DEF Age, Others
    <2>3. HInv(h)'
      BY <1>0, <1>3
      DEF Age, HInv, RunInv, RecInv, FlightInv, RowInv, Working, Unborn, Inactive, Alive
    <2>4. Owns(h)' => Owns(h)
      BY <1>0, <1>3
      DEF Age, Owns, RunInv, RecInv, FlightInv, Working
    <2>5. row[h] \in Final => row'[h] = row[h] \/ late[h]
      BY <1>0, <1>3
      DEF Age, RunInv, RecInv, FlightInv, Working, Unborn
    <2>6. \A s \in Sessions :
            lock'[s] \subseteq lock[s] \/ \A a, b \in lock'[s] : a = b
      BY <1>0, <1>3
      DEF Age
    <2> QED BY <2>1, <2>2, <2>3, <2>4, <2>5, <2>6 DEF Keeps
  <1> QED BY <1>1, <1>2, <1>3 DEF Resolve

-----------------------------------------------------------------------------
(* The steps that touch many handlers at once. *)

\* Setting cancel events takes nothing away from the invariant.
LEMMA KeepsDeleteBegin ==
  ASSUME IInv, NEW d \in Deletes, DeleteBegin(d)
  PROVE  IInv'
  <1> USE DEF DeleteBegin, clientVars, dbVars, envVars
  <1>1. \A h \in Handlers : cancelled[h] => cancelled'[h]
    OBVIOUS
  <1>2. TypeOK'
    <2>1. cancelled' \in [Handlers -> BOOLEAN]
      BY HandlerAssumption DEF IInv, TypeOK
    <2>2. delpc' \in [Deletes -> {"idle", "cancelled", "done", "rejected"}]
      BY DEF IInv, TypeOK
    <2> QED BY <2>1, <2>2 DEF IInv, TypeOK
  <1>3. ASSUME NEW h \in Handlers PROVE HInv(h)'
    BY <1>1 DEF IInv, HInv, RunInv, RecInv, FlightInv, RowInv, Alive
  <1>4. \A h \in Handlers : Owns(h)' <=> Owns(h)
    BY DEF Owns
  <1> QED BY <1>2, <1>3, <1>4 DEF IInv, HInv, SameKey

\* The deletion finds nobody holding a lock on its sessions and no commit of
\* theirs in flight; it takes rows and answers together.
LEMMA KeepsDeleteEnd ==
  ASSUME IInv, NEW d \in Deletes, DeleteEnd(d)
  PROVE  IInv'
  <1> USE HandlerAssumption
      DEF DeleteEnd, clientVars, dbVars, envVars
  <1>1. CASE UNCHANGED <<live, row, answers>>
    <2>1. TypeOK'
      BY <1>1 DEF IInv, TypeOK
    <2>2. ASSUME NEW h \in Handlers PROVE HInv(h)'
      BY <1>1 DEF IInv, HInv, RunInv, RecInv, FlightInv, RowInv, Alive
    <2>3. \A h \in Handlers : Owns(h)' <=> Owns(h)
      BY <1>1 DEF Owns
    <2> QED BY <2>1, <2>2, <2>3 DEF IInv, HInv, SameKey
  <1>2. CASE ~UNCHANGED <<live, row, answers>>
    <2>1. /\ delpc' = [delpc EXCEPT ![d] = "done"]
          /\ live' = [s \in Sessions |-> live[s] /\ s \notin TargetsOf[d]]
          /\ row' = [h \in Handlers |->
               IF SessionOf[h] \in TargetsOf[d] /\ row[h] \in Status
               THEN "deleted" ELSE row[h]]
          /\ answers' = [h \in Handlers |->
               IF SessionOf[h] \in TargetsOf[d] THEN 0 ELSE answers[h]]
      BY <1>2
    <2>2. TypeOK'
      <3>1. live' \in [Sessions -> BOOLEAN]
        BY <2>1 DEF IInv, TypeOK
      <3>2. row' \in [Handlers -> Status \cup {"none", "deleted"}]
        BY <2>1 DEF IInv, TypeOK
      <3>3. answers' \in [Handlers -> Nat]
        BY <2>1 DEF IInv, TypeOK
      <3> QED BY <2>1, <3>1, <3>2, <3>3 DEF IInv, TypeOK
    <2>3. ASSUME NEW h \in Handlers, SessionOf[h] \notin TargetsOf[d]
          PROVE  /\ row'[h] = row[h] /\ answers'[h] = answers[h]
                 /\ Alive(h)' = Alive(h)
      BY <2>1, <2>3 DEF IInv, TypeOK, Alive
    <2>4. ASSUME NEW h \in Handlers, SessionOf[h] \in TargetsOf[d]
          PROVE  /\ row'[h] = IF row[h] \in Status THEN "deleted" ELSE row[h]
                 /\ answers'[h] = 0 /\ ~Alive(h)'
                 /\ lock[SessionOf[h]] = {} /\ inflight[h] = "none"
      BY <2>1, <2>4 DEF Alive
    <2>5. ASSUME NEW h \in Handlers PROVE HInv(h)'
      <3>1. CASE SessionOf[h] \notin TargetsOf[d]
        <4> USE <2>3, <3>1 DEF IInv, Alive
        <4>1. RunInv(h)'
          BY DEF RunInv
        <4>2. RecInv(h)'
          BY DEF RecInv
        <4>3. FlightInv(h)'
          BY DEF FlightInv
        <4>4. RowInv(h)'
          BY DEF RowInv
        <4> QED BY <4>1, <4>2, <4>3, <4>4 DEF HInv
      <3>2. CASE SessionOf[h] \in TargetsOf[d]
        <4> row[h] \in Status \cup {"none", "deleted"}
          BY DEF IInv, TypeOK
        <4>1. RunInv(h)'
          BY <2>4, <3>2 DEF IInv, RunInv, Status, Final
        <4>2. RecInv(h)'
          BY <2>4, <3>2 DEF IInv, RecInv, Status, Final
        <4>3. FlightInv(h)'
          BY <2>4, <3>2, HandlerAssumption DEF FlightInv, Final
        <4>4. RowInv(h)'
          BY <2>4, <3>2 DEF RowInv, Status, Final
        <4> QED BY <4>1, <4>2, <4>3, <4>4 DEF HInv
      <3> QED BY <3>1, <3>2
    <2>6. \A h \in Handlers : Owns(h)' => Owns(h)
      BY <2>1 DEF Owns
    <2> QED BY <2>2, <2>5, <2>6 DEF IInv, HInv, SameKey
  <1> QED BY <1>1, <1>2

\* A deletion that fails changes nothing the invariant speaks of.
LEMMA KeepsFaultDelete ==
  ASSUME IInv, NEW d \in Deletes, FaultDelete(d)
  PROVE  IInv'
  <1> USE DEF FaultDelete, Fault, clientVars, dbVars, envVars
  <1>1. TypeOK'
    BY DEF IInv, TypeOK
  <1>2. ASSUME NEW h \in Handlers PROVE HInv(h)'
    BY DEF IInv, HInv, RunInv, RecInv, FlightInv, RowInv, Alive
  <1>3. \A h \in Handlers : Owns(h)' <=> Owns(h)
    BY DEF Owns
  <1> QED BY <1>1, <1>2, <1>3 DEF IInv, HInv, SameKey

\* A crash ends every generator and every task; the rows stay.
LEMMA KeepsCrash ==
  ASSUME IInv, Crash
  PROVE  IInv'
  <1> USE DEF Crash, clientVars, dbVars, envVars
  <1>1. TypeOK'
    <2>1. pc' \in [Handlers -> PCs]
      BY DEF IInv, TypeOK, PCs
    <2>2. sent' \in [Handlers -> Events] /\ rec' \in [Handlers -> Recs]
      BY DEF IInv, TypeOK, Events, Recs
    <2>3. delpc' \in [Deletes -> {"idle", "cancelled", "done", "rejected"}]
      BY DEF IInv, TypeOK
    <2>4. lock' \in [Sessions -> SUBSET Holders]
      <3> DEFINE Kept(s) ==
            {m \in lock[s] : m[2] = "stream" /\ inflight[m[1]] = "completed"}
      <3>0. lock \in [Sessions -> SUBSET Holders]
        BY DEF IInv, TypeOK
      <3>1. ASSUME NEW s \in Sessions PROVE Kept(s) \in SUBSET Holders
        <4>1. lock[s] \subseteq Holders
          BY <3>0
        <4>2. Kept(s) \subseteq lock[s]
          OBVIOUS
        <4> QED BY <4>1, <4>2
      <3>2. lock' = [s \in Sessions |-> Kept(s)]
        OBVIOUS
      <3> HIDE DEF Kept
      <3> QED BY <3>1, <3>2
    <2>5. up' \in BOOLEAN /\ crashes' \in Nat
      <3>1. crashes \in Nat
        BY DEF IInv, TypeOK
      <3>2. crashes' \in Nat
        BY <3>1
      <3>3. up' \in BOOLEAN
        BY Zenon
      <3> QED BY <3>2, <3>3
    <2> QED BY <2>1, <2>2, <2>3, <2>4, <2>5 DEF IInv, TypeOK
  <1>2. \A h \in Handlers : /\ pc'[h] = IF pc[h] \in Inactive THEN pc[h] ELSE "ended"
                            /\ rec'[h] = IF rec[h] = "none" THEN "none" ELSE "ended"
    OBVIOUS
  <1>3. ASSUME NEW h \in Handlers PROVE HInv(h)'
    <2>1. RunInv(h)'
      BY <1>2 DEF IInv, RunInv, Inactive, Unborn, Working
    <2>2. RecInv(h)'
      BY <1>2 DEF IInv, RecInv, Inactive
    <2>3. FlightInv(h)'
      BY <1>2 DEF IInv, FlightInv, Inactive, Alive
    <2>4. RowInv(h)'
      BY DEF IInv, RowInv, Alive
    <2> QED BY <2>1, <2>2, <2>3, <2>4 DEF HInv
  <1>4. \A h \in Handlers : Owns(h)' <=> Owns(h)
    BY DEF Owns
  <1>5. \A s \in Sessions : lock'[s] \subseteq lock[s]
    OBVIOUS
  <1> QED BY <1>1, <1>3, <1>4, <1>5 DEF IInv, HInv, SameKey

\* The startup sweep finds no generator, no task and no last commit in flight.
LEMMA KeepsRestart ==
  ASSUME IInv, Restart
  PROVE  IInv'
  <1> USE DEF Restart, clientVars, dbVars, envVars
  <1>1. TypeOK'
    <2>1. row' \in [Handlers -> Status \cup {"none", "deleted"}]
      BY DEF IInv, TypeOK, Status, Final
    <2> QED BY <2>1 DEF IInv, TypeOK
  <1>2. \A h \in Handlers :
          /\ row'[h] = IF row[h] = "processing" /\ old[h] THEN "failed" ELSE row[h]
          /\ pc[h] \in Inactive /\ rec[h] \in {"none", "ended"}
          /\ inflight[h] \in {"none", "processing"}
    BY DEF IInv, RunInv
  <1>3. ASSUME NEW h \in Handlers PROVE HInv(h)'
    <2>1. RunInv(h)'
      BY <1>2 DEF IInv, RunInv, Inactive, Unborn, Working, Alive
    <2>2. RecInv(h)'
      BY <1>2 DEF IInv, RecInv
    <2>3. FlightInv(h)'
      BY <1>2 DEF IInv, FlightInv, Alive, Final
    <2>4. RowInv(h)'
      BY <1>2 DEF IInv, RowInv, Alive
    <2> QED BY <2>1, <2>2, <2>3, <2>4 DEF HInv
  <1>4. \A h \in Handlers : Owns(h)' <=> Owns(h)
    BY <1>2 DEF Owns, Status, Final
  <1> QED BY <1>1, <1>3, <1>4 DEF IInv, HInv, SameKey

-----------------------------------------------------------------------------
(* The inductive invariant. *)

\* It holds before the first post.
LEMMA InvInit == Init => IInv
  <1> SUFFICES ASSUME Init PROVE IInv
    OBVIOUS
  <1>1. TypeOK
    BY HandlerAssumption DEF Init, TypeOK, PCs, Recs, Events, Status
  <1>2. \A h \in Handlers : RunInv(h) /\ RecInv(h) /\ FlightInv(h) /\ RowInv(h)
    BY HandlerAssumption
    DEF Init, RunInv, RecInv, FlightInv, RowInv, Alive, Unborn, Working, Final
  <1>3. \A h \in Handlers : ~Owns(h)
    BY DEF Init, Owns, Status, Final
  <1>4. \A s \in Sessions : lock[s] = {}
    BY DEF Init
  <1> QED BY <1>1, <1>2, <1>3, <1>4 DEF IInv

\* Every step keeps it, and a stuttering step too.
LEMMA InvNext == IInv /\ [Next]_vars => IInv'
  <1> SUFFICES ASSUME IInv, [Next]_vars PROVE IInv'
    OBVIOUS
  <1>1. ASSUME NEW h \in Handlers, Open(h) \/ Progress(h) PROVE IInv'
    BY <1>1, KeepsProgress, KeepsSuffices
  <1>2. ASSUME NEW h \in Handlers, Recovery(h) PROVE IInv'
    BY <1>2, KeepsRecovery, KeepsSuffices
  <1>3. ASSUME NEW h \in Handlers, Disconnection(h) PROVE IInv'
    BY <1>3, KeepsDisconnection, KeepsSuffices
  <1>4. ASSUME NEW h \in Handlers, Failure(h) PROVE IInv'
    BY <1>4, KeepsFailure, KeepsSuffices
  <1>5. ASSUME NEW h \in Handlers, Resolve(h) \/ Age(h) PROVE IInv'
    BY <1>5, KeepsDatabase, KeepsSuffices
  <1>6. ASSUME NEW d \in Deletes, DeleteBegin(d) \/ DeleteEnd(d) \/ FaultDelete(d)
        PROVE  IInv'
    BY <1>6, KeepsDeleteBegin, KeepsDeleteEnd, KeepsFaultDelete
  <1>7. CASE Crash
    BY <1>7, KeepsCrash
  <1>8. CASE Restart
    BY <1>8, KeepsRestart
  <1>9. CASE UNCHANGED vars
    <2> USE <1>9 DEF vars
    <2>1. TypeOK'
      BY DEF IInv, TypeOK
    <2>2. ASSUME NEW h \in Handlers PROVE HInv(h)'
      BY DEF IInv, HInv, RunInv, RecInv, FlightInv, RowInv, Alive
    <2>3. \A h \in Handlers : Owns(h)' <=> Owns(h)
      BY DEF Owns
    <2> QED BY <2>1, <2>2, <2>3 DEF IInv, HInv, SameKey
  <1> QED BY <1>1, <1>2, <1>3, <1>4, <1>5, <1>6, <1>7, <1>8, <1>9 DEF Next

\* The invariant that the code relies on holds in every reachable state.
THEOREM Invariance == Spec => []IInv
  BY InvInit, InvNext, PTL DEF Spec

-----------------------------------------------------------------------------
(* What follows from it. *)

\* Every variable keeps its type.
THEOREM TypeCorrect == Spec => []TypeOK
  <1>1. IInv => TypeOK
    BY DEF IInv
  <1> QED BY Invariance, <1>1, PTL

\* Of two posts with one idempotency key only one works on the message, phantom
\* recoveries aside: any other run owns a row, and of equal keys only one has an
\* owner.
THEOREM OneRun == Spec => []OneRunPerKey
  <1>1. IInv => OneRunPerKey
    <2> SUFFICES ASSUME IInv, NEW g \in Handlers, NEW h \in Handlers, g # h,
                        SameKey(g, h), Running(g), Running(h)
                 PROVE  Phantom(g) \/ Phantom(h)
      BY DEF OneRunPerKey
    <2>1. ASSUME NEW k \in Handlers, Running(k) PROVE Owns(k) \/ Phantom(k)
      <3>1. TypeOK /\ RunInv(k) /\ RecInv(k) /\ FlightInv(k)
        BY DEF IInv
      <3>2. CASE pc[k] \in Working \/ rec[k] \in {"lock", "save"}
        BY <3>1, <3>2 DEF RunInv, RecInv, Owns, Status
      <3>3. CASE rec[k] \in {"run", "read"}
        <4>1. inflight[k] # "none" => Owns(k)
          BY <3>1 DEF TypeOK, FlightInv, Owns, Status
        <4>2. row[k] # "none" => Owns(k)
          BY <3>1 DEF TypeOK, Owns
        <4> QED BY <3>3, <4>1, <4>2 DEF Phantom
      <3> QED BY <2>1, <3>2, <3>3 DEF Running
    <2> QED BY <2>1 DEF IInv
  <1> QED BY Invariance, <1>1, PTL

\* The slots of a session have one writer at a time: a save holds the session
\* row lock, which has one holder.
THEOREM OneSaver == Spec => []OneSaverPerSession
  <1>1. IInv => OneSaverPerSession
    <2> SUFFICES ASSUME IInv, NEW g \in Handlers, NEW h \in Handlers, g # h,
                        SessionOf[g] = SessionOf[h], Saving(g), Saving(h)
                 PROVE  FALSE
      BY DEF OneSaverPerSession
    <2>1. \A k \in Handlers : Saving(k) =>
            \E w \in {"stream", "recovery"} : <<k, w>> \in lock[SessionOf[k]]
      BY DEF IInv, RunInv, RecInv, Saving
    <2>2. PICK v : <<g, v>> \in lock[SessionOf[h]]
      BY <2>1
    <2>3. PICK w : <<h, w>> \in lock[SessionOf[h]]
      BY <2>1
    <2>4. \A a, b \in lock[SessionOf[h]] : a = b
      BY HandlerAssumption DEF IInv
    <2>5. <<g, v>> = <<h, w>>
      BY <2>2, <2>3, <2>4
    <2> QED BY <2>5
  <1> QED BY Invariance, <1>1, PTL

\* An assistant message is in the database exactly if its request completed.
THEOREM Answered == Spec => []AnswerIffCompleted
  <1>1. IInv => AnswerIffCompleted
    BY DEF IInv, RowInv, AnswerIffCompleted
  <1> QED BY Invariance, <1>1, PTL

\* A message is answered twice only by a commit that overtook its recovery.
THEOREM OnceAnswered == Spec => []AnsweredOnce
  <1>1. IInv => AnsweredOnce
    BY DEF IInv, RowInv, AnsweredOnce
  <1> QED BY Invariance, <1>1, PTL

\* A final status is changed by nobody but a commit that overtook its recovery.
THEOREM FinalStaysFinal == Spec => FinalStays
  <1> DEFINE Stays(h) ==
        row[h] \in Final => row'[h] \in {row[h], "deleted"} \/ late[h]
  <1>1. IInv /\ [Next]_vars => [\A h \in Handlers : row[h] \in Final =>
                                  row'[h] \in {row[h], "deleted"} \/ late[h]]_vars
    <2> SUFFICES ASSUME IInv, Next, NEW h \in Handlers PROVE Stays(h)
      OBVIOUS
    <2>1. ASSUME NEW g \in Handlers, Keeps(g) PROVE Stays(h)
      BY <2>1 DEF Keeps, Others
    <2>2. ASSUME NEW g \in Handlers,
                 \/ Open(g) \/ Progress(g) \/ Recovery(g) \/ Disconnection(g)
                 \/ Failure(g) \/ Resolve(g) \/ Age(g)
          PROVE  Stays(h)
      <3>1. Keeps(g)
        BY <2>2, KeepsProgress, KeepsRecovery, KeepsDisconnection,
           KeepsFailure, KeepsDatabase
      <3> QED BY <2>1, <3>1
    <2>3. ASSUME NEW d \in Deletes, DeleteBegin(d) \/ FaultDelete(d)
          PROVE  Stays(h)
      BY <2>3 DEF DeleteBegin, FaultDelete, dbVars
    <2>4. ASSUME NEW d \in Deletes, DeleteEnd(d)
          PROVE  Stays(h)
      BY <2>4 DEF DeleteEnd
    <2>5. CASE Crash
      BY <2>5 DEF Crash, dbVars
    <2>6. CASE Restart
      BY <2>6 DEF Restart, Final
    <2> QED BY <2>2, <2>3, <2>4, <2>5, <2>6 DEF Next
  <1> QED BY Invariance, <1>1, PTL DEF Spec, FinalStays

\* Only a set cancel event makes a request cancelled, never a disconnect.
THEOREM CancelledByEvent == Spec => []CancelledOnlyByEvent
  <1>1. IInv => CancelledOnlyByEvent
    BY DEF IInv, RowInv, CancelledOnlyByEvent
  <1> QED BY Invariance, <1>1, PTL

\* Nothing is left of a deleted session, and nothing is written to it.
THEOREM NothingOutlives == Spec => []NothingOutlivesSession
  <1>1. IInv => NothingOutlivesSession
    BY DEF IInv, RowInv, NothingOutlivesSession
  <1> QED BY Invariance, <1>1, PTL
-----------------------------------------------------------------------------
(* Deletions, whose argument is apart: there is one at a time, and it finds  *)
(* the sessions it was told to delete.                                       *)

DeletionInv ==
  /\ faults \in Nat /\ NoVainCancel
  /\ \A d, e \in Deletes :
       delpc[d] = "cancelled" /\ delpc[e] = "cancelled" => d = e
  /\ \A d \in Deletes : delpc[d] = "cancelled" =>
       \A s \in TargetsOf[d] : live[s]

\* A step that neither deletes, cancels nor crashes.
Quiet ==
  /\ delpc' = delpc /\ live' = live /\ crashes' = crashes
  /\ faults' \in {faults, faults + 1}
  /\ \A h \in Handlers : cancelled'[h] => cancelled[h]

LEMMA QuietKeeps == ASSUME DeletionInv, Quiet PROVE DeletionInv'
  BY DEF Quiet, DeletionInv, NoVainCancel, Alive

\* No generator, recovery task or database event does any of the three.
LEMMA HandlersAreQuiet ==
  ASSUME TypeOK, NEW h \in Handlers,
         \/ Open(h) \/ Progress(h) \/ Recovery(h) \/ Disconnection(h)
         \/ Failure(h) \/ Resolve(h) \/ Age(h)
  PROVE  Quiet
  <1> USE DEF Quiet, dbVars, envVars
  <1>1. CASE Open(h)
    BY <1>1 DEF Open, TypeOK
  <1>2. CASE Progress(h)
    BY <1>2 DEF Progress, Lookup, Insert, InsertRefused, Route, Assess, Poll,
                StreamEnd, Check, Lock, Save, SaveRejected, MarkFailed,
                MarkCancelled, MarkAs, Reply
  <1>3. CASE Recovery(h)
    BY <1>3 DEF Recovery, RecoveryChat, RecoveryRead, RecoveryLock, RecoverySave,
                RecoveryMark
  <1>4. CASE Disconnection(h)
    BY <1>4 DEF Disconnection, DisconnectStream, DisconnectQuiet, Disconnect,
                DisconnectInsert, DisconnectCommit, DisconnectExpired
  <1>5. CASE Failure(h)
    BY <1>5 DEF Failure, FaultUnguarded, FaultSave, FaultFlush, FaultMark,
                FaultRecovery, Fault
  <1>6. CASE Resolve(h)
    BY <1>6 DEF Resolve, LateCommit, LateRollback
  <1>7. CASE Age(h)
    BY <1>7 DEF Age
  <1> QED BY <1>1, <1>2, <1>3, <1>4, <1>5, <1>6, <1>7

LEMMA DeletionNext == IInv /\ DeletionInv /\ [Next]_vars => DeletionInv'
  <1> SUFFICES ASSUME IInv, DeletionInv, [Next]_vars PROVE DeletionInv'
    OBVIOUS
  <1> USE HandlerAssumption, DeleteAssumption
  <1>1. ASSUME NEW h \in Handlers,
               \/ Open(h) \/ Progress(h) \/ Recovery(h) \/ Disconnection(h)
               \/ Failure(h) \/ Resolve(h) \/ Age(h)
        PROVE  DeletionInv'
    BY <1>1, HandlersAreQuiet, QuietKeeps DEF IInv
  <1>2. ASSUME NEW d \in Deletes, DeleteBegin(d) PROVE DeletionInv'
    BY <1>2 DEF DeleteBegin, DeletionInv, NoVainCancel, Alive, dbVars, envVars,
                IInv, TypeOK
  <1>3. ASSUME NEW d \in Deletes, DeleteEnd(d) PROVE DeletionInv'
    <2>1. /\ delpc' = [delpc EXCEPT ![d] = "done"]
          /\ live' = [s \in Sessions |-> live[s] /\ s \notin TargetsOf[d]]
          /\ cancelled' = cancelled /\ crashes' = crashes /\ faults' = faults
      BY <1>3 DEF DeleteEnd, DeletionInv, envVars
    <2>2. /\ delpc \in [Deletes -> {"idle", "cancelled", "done", "rejected"}]
          /\ delpc[d] = "cancelled"
      BY <1>3 DEF DeleteEnd, IInv, TypeOK
    <2>3. \A e \in Deletes : delpc'[e] # "cancelled"
      BY <2>1, <2>2 DEF DeletionInv
    <2>4. ASSUME faults = 0, crashes = 0, NEW h \in Handlers, cancelled[h]
          PROVE  ~live'[SessionOf[h]]
      <3>1. ~live[SessionOf[h]] \/ SessionOf[h] \in TargetsOf[d]
        BY <2>2, <2>4 DEF DeletionInv, NoVainCancel, Alive
      <3> QED BY <2>1, <3>1
    <2> QED BY <2>1, <2>3, <2>4 DEF DeletionInv, NoVainCancel, Alive
  <1>4. ASSUME NEW d \in Deletes, FaultDelete(d) PROVE DeletionInv'
    BY <1>4 DEF FaultDelete, Fault, DeletionInv, NoVainCancel, dbVars, envVars,
                IInv, TypeOK
  <1>5. CASE Crash
    BY <1>5 DEF Crash, DeletionInv, NoVainCancel, dbVars, IInv, TypeOK
  <1>6. CASE Restart
    BY <1>6, QuietKeeps DEF Restart, Quiet
  <1>7. CASE UNCHANGED vars
    BY <1>7, QuietKeeps DEF vars, Quiet
  <1> QED BY <1>1, <1>2, <1>3, <1>4, <1>5, <1>6, <1>7 DEF Next

\* While nothing fails, a stream is cancelled only if its session is deleted.
THEOREM VainCancel == Spec => []NoVainCancel
  <1>1. Init => DeletionInv
    BY DEF Init, DeletionInv, NoVainCancel
  <1>2. DeletionInv => NoVainCancel
    BY DEF DeletionInv
  <1> QED BY Invariance, <1>1, <1>2, DeletionNext, PTL DEF Spec
=============================================================================
