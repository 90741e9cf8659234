-------------------------- MODULE AiRequestProofs --------------------------
(***************************************************************************)
(* Proofs about AiRequest, for any requests, calls and bounds.  The users  *)
(* table is what everything rests on: each call of a client locks it       *)
(* first and keeps the lock, hence calls exclude each other (OneCall), and *)
(* what a call has read stays true until it commits.                       *)
(***************************************************************************)
EXTENDS AiRequest, SequenceTheorems, TLAPS

\* The kinds of transactions do not overlap.
LEMMA Kinds ==
  /\ \A r \in Requests :
       /\ <<"make", r>> \in Makes /\ <<"run", r>> \in Runs /\ <<"mark", r>> \in Marks
       /\ <<"make", r>> \notin AnswerCalls \cup ReadCalls
       /\ <<"run", r>> \notin Calls /\ <<"mark", r>> \notin Calls
       /\ <<"run", r>> \notin Marks /\ <<"mark", r>> \notin Runs
       /\ Subject(<<"make", r>>) = r /\ Subject(<<"run", r>>) = r
       /\ Subject(<<"mark", r>>) = r
  /\ \A a \in Answers : /\ <<"answer", a>> \in AnswerCalls
                        /\ Subject(<<"answer", a>>) = About[a]
  /\ \A g \in Reads : /\ <<"read", g>> \in ReadCalls
                      /\ Subject(<<"read", g>>) = About[g]
  /\ Makes \cap (AnswerCalls \cup ReadCalls \cup Runs \cup Marks) = {}
  /\ AnswerCalls \cap (ReadCalls \cup Runs \cup Marks) = {}
  /\ ReadCalls \cap (Runs \cup Marks) = {} /\ Runs \cap Marks = {}
  BY DEF Makes, Runs, Marks, AnswerCalls, ReadCalls, Calls, Subject

LEMMA Subjects == \A t \in Transactions : Subject(t) \in Requests
  BY RequestAssumption
  DEF Subject, Transactions, Calls, Makes, Runs, Marks, AnswerCalls, ReadCalls

LEMMA Appended ==
  ASSUME NEW a, NEW b, NEW c, NEW d, NEW e, NEW f, NEW g
  PROVE  /\ Len(<<a, b, c, d, e>> \o <<f, g>>) = 7
         /\ (<<a, b, c, d, e>> \o <<f, g>>)[1] = a
<1> DEFINE S == {a, b, c, d, e, f, g}
<1>1. <<a, b, c, d, e>> \in Seq(S) /\ <<f, g>> \in Seq(S)
  OBVIOUS
<1> HIDE DEF S
<1>2. <<a, b, c, d, e>> \o <<f, g>> \in Seq(S)
  BY <1>1, ConcatProperties
<1>3. Len(<<a, b, c, d, e>>) = 5 /\ Len(<<f, g>>) = 2 /\ <<a, b, c, d, e>>[1] = a
  OBVIOUS
<1> QED BY <1>1, <1>3, ConcatProperties

\* Programs are short, and every call begins with the users table.
LEMMA Programs ==
  /\ \A t \in Transactions : Len(Program(t)) \in 1..7
  /\ \A t \in Calls : Program(t)[1] = <<"users", "AE">>
  /\ \A t \in AnswerCalls : Len(Program(t)) = 3
  /\ \A t \in ReadCalls : Subject(t) \in Eligs => Len(Program(t)) = 5
<1>1. \A r \in Requests : /\ Len(MakeProgram(r)) \in 1..7
                          /\ MakeProgram(r)[1] = <<"users", "AE">>
  <2>1. SUFFICES ASSUME NEW r \in Requests
                 PROVE  /\ Len(MakeProgram(r)) \in 1..7
                        /\ MakeProgram(r)[1] = <<"users", "AE">>
    OBVIOUS
  <2>2. CASE via[r] = "graph"
    <3>1. MakeProgram(r) = Schema \o <<Aside, <<"policy_assessment", "AS">> >>
      BY <2>2 DEF MakeProgram
    <3> QED BY <3>1, Appended DEF Schema
  <2>3. CASE via[r] # "graph"
    BY <2>3 DEF MakeProgram, Schema
  <2> QED BY <2>2, <2>3
<1>2. \A r \in Requests : Len(RunProgram(r)) \in 1..7
  BY DEF RunProgram
<1>3. \A r \in Requests : Len(MarkProgram(r)) \in 1..7
  BY DEF MarkProgram
<1>4. \A r \in Requests : /\ Len(AnswerProgram(r)) = 3
                          /\ AnswerProgram(r)[1] = <<"users", "AE">>
  BY DEF AnswerProgram
<1>5. \A r \in Requests : /\ Len(ReadProgram(r)) \in 1..7
                          /\ ReadProgram(r)[1] = <<"users", "AE">>
                          /\ r \in Eligs => Len(ReadProgram(r)) = 5
  BY RequestAssumption DEF ReadProgram
<1>6. /\ \A t \in Makes : Program(t) = MakeProgram(Subject(t))
      /\ \A t \in Runs : Program(t) = RunProgram(Subject(t))
      /\ \A t \in Marks : Program(t) = MarkProgram(Subject(t))
      /\ \A t \in AnswerCalls : Program(t) = AnswerProgram(Subject(t))
      /\ \A t \in ReadCalls : Program(t) = ReadProgram(Subject(t))
  BY Kinds DEF Program
<1> QED
  BY <1>1, <1>2, <1>3, <1>4, <1>5, <1>6, Subjects DEF Transactions, Calls

(***************************************************************************)
(* Steps.                                                                  *)
(***************************************************************************)
LEMMA WaitersAreActive == \A t \in Transactions : InDeadlock(t) => Active(t)
  BY DEF InDeadlock, Deadlocked, WaitsFor, Waiting

LEMMA Steps ==
  ASSUME TypeOK, Next
  PROVE  \/ \E r \in Requests : Start(r)
         \/ \E t \in Transactions : Call(t)
         \/ \E t \in Transactions : Acquire(t)
         \/ \E r \in Requests : AskUnassessed(r)
         \/ \E r \in Requests : Insert(r)
         \/ \E r \in Requests : Ask(r)
         \/ \E r \in Requests : Complete(r)
         \/ \E r \in Requests : MarkFailed(r)
         \/ \E a \in Answers : Answer(a)
         \/ \E g \in Reads : Reply(g)
         \/ \E t \in Transactions : Refuse(t)
         \/ \E t \in Transactions : Active(t) /\ Rollback(t) /\ faults' \in 0..MaxFaults
         \/ \E r \in Requests : Cut(r)
         \/ Crash
<1>1. CASE \E r \in Requests : Start(r) \/ Cut(r)
  BY <1>1
<1>2. CASE Crash
  BY <1>2
<1>3. CASE \E t \in Transactions : Call(t)
  BY <1>3
<1>4. CASE \E t \in Transactions : Goes(t)
  BY <1>4 DEF Goes
<1>5. CASE \E t \in Transactions : Fail(t) \/ LockTimeout(t) \/ Deadlock(t)
  <2>1. PICK t \in Transactions : Fail(t) \/ LockTimeout(t) \/ Deadlock(t)
    BY <1>5
  <2>2. Active(t) /\ Rollback(t)
    BY <2>1, WaitersAreActive DEF Fail, LockTimeout, Deadlock, Waiting
  <2>3. faults' \in 0..MaxFaults
    BY <2>1, BoundAssumption DEF Fail, LockTimeout, Deadlock, TypeOK
  <2> QED BY <2>2, <2>3
<1> QED BY <1>1, <1>2, <1>3, <1>4, <1>5 DEF Next

\* What a rollback queues is a mark, and the run it marks was active.
LEMMA RollbackEnds ==
  ASSUME NEW t \in Transactions, Rollback(t)
  PROVE  \E r \in Requests :
           /\ Subject(t) = r
           /\ \/ Ends(t, {})
              \/ t = <<"run", r>> /\ via[r] \in {"post", "chat"} /\ Ends(t, {<<"mark", r>>})
           /\ t = <<"run", r>> /\ via[r] \in {"post", "chat"} => Ends(t, {<<"mark", r>>})
           /\ UNCHANGED rowVars
<1>1. Subject(t) \in Requests
  BY Subjects
<1>2. t \in Runs => t = <<"run", Subject(t)>>
  BY Kinds DEF Runs, Subject
<1>3. t = <<"run", Subject(t)>> => t \in Runs
  BY <1>1 DEF Runs
<1> QED BY <1>1, <1>2, <1>3 DEF Rollback

LEMMA Typed == TypeOK /\ [Next]_vars => TypeOK'
<1> SUFFICES ASSUME TypeOK, [Next]_vars PROVE TypeOK'
  OBVIOUS
<1> USE DEF TypeOK
<1>1. ASSUME NEW r \in Requests
      PROVE  /\ <<"make", r>> \in Transactions /\ <<"run", r>> \in Transactions
             /\ <<"mark", r>> \in Transactions
  BY DEF Transactions, Calls, Makes, Runs, Marks
<1>2. ASSUME NEW t \in Transactions, NEW q, Ends(t, q)
      PROVE  /\ tx' \in [Transactions -> {"idle", "ready", "open", "ended"}]
             /\ at' \in [Transactions -> 0..7]
             /\ saw' = saw /\ found' = found /\ crashes' = crashes
  BY <1>2 DEF Ends
<1>3. ASSUME NEW r \in Requests PROVE Runner(r) \in Transactions
  BY <1>1 DEF Runner
<1>4. /\ \A a \in Answers : <<"answer", a>> \in Transactions
      /\ \A g \in Reads : <<"read", g>> \in Transactions
      /\ \A c \in Answers \cup Reads : About[c] \in Requests
  BY RequestAssumption DEF Transactions, Calls, AnswerCalls, ReadCalls
<1>5. ASSUME NEW t \in Transactions, at[t] < Len(Program(t)) PROVE at[t] + 1 \in 0..7
  <2>1. Len(Program(t)) \in 1..7 /\ at[t] \in 0..7
    BY Programs
  <2>2. \A n \in 0..7, m \in 1..7 : n < m => n + 1 \in 0..7
    OBVIOUS
  <2> HIDE DEF TypeOK
  <2> QED BY <1>5, <2>1, <2>2
<1>a. CASE UNCHANGED vars
  BY <1>a DEF vars, rowVars
<1>b. ASSUME NEW r \in Requests, Start(r) PROVE TypeOK'
  BY <1>b, <1>1 DEF Start
<1>c. ASSUME NEW t \in Transactions, Call(t) PROVE TypeOK'
  BY <1>c DEF Call, rowVars
<1>d. ASSUME NEW t \in Transactions, Acquire(t) PROVE TypeOK'
  <2>1. at' \in [Transactions -> 0..7] /\ tx' \in [Transactions -> {"idle", "ready", "open", "ended"}]
    BY <1>d, <1>5 DEF Acquire
  <2>2. saw' \in [AnswerCalls \cup ReadCalls -> Statuses]
    BY <1>d, Subjects DEF Acquire
  <2>3. found' \in [ReadCalls -> BOOLEAN]
    BY <1>d, Subjects DEF Acquire
  <2>4. saved' \in [Requests -> BOOLEAN]
    BY <1>d, Subjects DEF Acquire
  <2> QED BY <1>d, <2>1, <2>2, <2>3, <2>4 DEF Acquire
<1>e. ASSUME NEW r \in Requests, AskUnassessed(r) PROVE TypeOK'
  <2>1. <<"make", r>> \in Transactions /\ at[<<"make", r>>] < Len(Program(<<"make", r>>))
    BY <1>e, <1>1 DEF AskUnassessed
  <2>2. at' \in [Transactions -> 0..7]
    BY <1>e, <1>5, <2>1 DEF AskUnassessed
  <2> QED BY <1>e, <2>2 DEF AskUnassessed, rowVars
<1>f. ASSUME NEW r \in Requests, Insert(r) PROVE TypeOK'
  BY <1>f, <1>1, <1>2 DEF Insert, Statuses
<1>g. ASSUME NEW r \in Requests, Ask(r) \/ Complete(r) PROVE TypeOK'
  BY <1>g, <1>2, <1>3 DEF Ask, Complete, Statuses
<1>h. ASSUME NEW r \in Requests, MarkFailed(r) PROVE TypeOK'
  BY <1>h, <1>1, <1>2 DEF MarkFailed, Statuses
<1>i. ASSUME NEW a \in Answers, Answer(a) PROVE TypeOK'
  BY <1>i, <1>2, <1>4 DEF Answer, Statuses
<1>j. ASSUME NEW g \in Reads, Reply(g) PROVE TypeOK'
  BY <1>j, <1>2, <1>4 DEF Reply
<1>k. ASSUME NEW t \in Transactions, Refuse(t) PROVE TypeOK'
  BY <1>k, <1>2 DEF Refuse, rowVars
<1>l. ASSUME NEW t \in Transactions, Rollback(t), faults' \in 0..MaxFaults PROVE TypeOK'
  BY <1>l, <1>2 DEF Rollback, rowVars
<1>m. ASSUME NEW r \in Requests, Cut(r) PROVE TypeOK'
  BY <1>m, <1>1, <1>2 DEF Cut, rowVars
<1>n. CASE Crash
  BY <1>n, BoundAssumption DEF Crash, rowVars
<1> QED
  BY <1>a, <1>b, <1>c, <1>d, <1>e, <1>f, <1>g, <1>h, <1>i, <1>j, <1>k, <1>l, <1>m,
     <1>n, Steps

(***************************************************************************)
(* The inductive invariant, action by action.                              *)
(***************************************************************************)
LEMMA WorkedIs == \A r \in Requests :
  /\ Worked(r) <=> Active(<<"make", r>>) \/ Active(<<"run", r>>) \/ Active(<<"mark", r>>)
  /\ Worked(r)' <=> \/ tx'[<<"make", r>>] \in {"ready", "open"}
                    \/ tx'[<<"run", r>>] \in {"ready", "open"}
                    \/ tx'[<<"mark", r>>] \in {"ready", "open"}
  BY DEF Worked, Active

LEMMA Members ==
  /\ \A r \in Requests : /\ <<"make", r>> \in Transactions
                         /\ <<"run", r>> \in Transactions
                         /\ <<"mark", r>> \in Transactions
  /\ \A a \in Answers : <<"answer", a>> \in Transactions /\ About[a] \in Requests
  /\ \A g \in Reads : <<"read", g>> \in Transactions /\ About[g] \in Requests
  /\ \A t \in AnswerCalls : \E a \in Answers : t = <<"answer", a>>
  /\ \A t \in ReadCalls : \E g \in Reads : t = <<"read", g>>
  /\ \A t \in Makes : \E r \in Requests : t = <<"make", r>>
  /\ Calls \subseteq Transactions
  BY RequestAssumption
  DEF Transactions, Calls, Makes, Runs, Marks, AnswerCalls, ReadCalls

\* While a call has the users table, no other call takes its first lock.
LEMMA FirstLockExcludes ==
  ASSUME TypeOK, NEW t \in Calls, NEW u \in Calls, t # u, at[u] > 0, at[t] = 0,
         Blockers(t) = {}
  PROVE  FALSE
<1>1. u \in Transactions /\ t \in Transactions /\ at[u] \in 0..7
  BY Members DEF TypeOK
<1>2. Program(u)[1] = <<"users", "AE">> /\ Wanted(t) = <<"users", "AE">>
  BY Programs DEF Wanted
<1>3. <<"users", "AE">> \in Holds(u)
  BY <1>1, <1>2 DEF Holds, Aside
<1>4. {"AE", "AE"} \notin Compatible
  BY DEF Compatible
<1>5. Blockers(t) = { v \in Transactions :
        /\ at[v] > 0 /\ (v # t \/ Wanted(t) = Aside)
        /\ \E l \in Holds(v) : l[1] = Wanted(t)[1] /\ {l[2], Wanted(t)[2]} \notin Compatible }
  BY DEF Blockers
<1>6. \E l \in Holds(u) : l[1] = Wanted(t)[1] /\ {l[2], Wanted(t)[2]} \notin Compatible
  <2>1. <<"users", "AE">>[1] = "users" /\ <<"users", "AE">>[2] = "AE"
    OBVIOUS
  <2> QED BY <1>2, <1>3, <1>4, <2>1
<1>7. u \in Blockers(t)
  BY <1>1, <1>5, <1>6
<1> QED BY <1>7

LEMMA StartKeeps ==
  ASSUME TypeOK, IInv, NEW r \in Requests, Start(r)
  PROVE  IInv'
<1> USE DEF TypeOK, IInv, Start
<1>1. OpenHolds' BY Members DEF OpenHolds
<1>2. OneCall' BY DEF OneCall
<1>3. NewUntilMade' BY Members DEF NewUntilMade
<1>4. WorkedIsProcessing' BY Members DEF WorkedIsProcessing, Active
<1>5. ProcessingIsSourced'
  <2>1. status[r] = "none" /\ via'[r] # "none" /\ \A s \in Requests \ {r} : via'[s] = via[s]
    BY DEF NewUntilMade
  <2>2. /\ \A s \in Requests \ {r} : tx'[<<"make", s>>] = tx[<<"make", s>>]
        /\ \A s \in Requests \ {r} : resolved'[s] = resolved[s]
    BY Members
  <2> QED BY <2>1, <2>2 DEF ProcessingIsSourced
<1>6. AnswerReads' BY Members DEF AnswerReads
<1>7. AnswerFindsQuestion' BY Members DEF AnswerFindsQuestion
<1>8. ReadLooks' BY DEF ReadLooks, Subject
<1>9. PostedOnce' BY DEF PostedOnce
<1>10. StuckHasCause'
  <2>1. \A s \in Requests \ {r} : (Worked(s)' <=> Worked(s)) /\ via'[s] = via[s]
    BY Members, WorkedIs DEF Active
  <2>2. status[r] = "none"
    BY DEF NewUntilMade
  <2>3. \A s \in Requests : tx'[<<"mark", s>>] = tx[<<"mark", s>>]
    BY Members
  <2> QED BY <2>1, <2>2, <2>3 DEF StuckHasCause
<1> QED BY <1>1, <1>2, <1>3, <1>4, <1>5, <1>6, <1>7, <1>8, <1>9, <1>10

LEMMA CallKeeps ==
  ASSUME TypeOK, IInv, NEW t \in Transactions, Call(t)
  PROVE  IInv'
<1> USE DEF TypeOK, IInv, Call, rowVars
<1>0. \A r \in Requests : t # <<"make", r>> /\ t # <<"run", r>> /\ t # <<"mark", r>>
  BY DEF AnswerCalls, ReadCalls
<1>1. OpenHolds' BY Members DEF OpenHolds
<1>2. OneCall' BY DEF OneCall
<1>3. NewUntilMade' BY <1>0, Members DEF NewUntilMade
<1>4. WorkedIsProcessing' BY <1>0, Members DEF WorkedIsProcessing, Active
<1>5. ProcessingIsSourced' BY <1>0, Members DEF ProcessingIsSourced
<1>6. AnswerReads' BY Members DEF AnswerReads
<1>7. AnswerFindsQuestion' BY Members DEF AnswerFindsQuestion
<1>8. ReadLooks' BY DEF ReadLooks, Subject
<1>9. PostedOnce' BY DEF PostedOnce
<1>10. StuckHasCause' BY <1>0, Members, WorkedIs DEF StuckHasCause, Active
<1> QED BY <1>1, <1>2, <1>3, <1>4, <1>5, <1>6, <1>7, <1>8, <1>9, <1>10

LEMMA CrashKeeps ==
  ASSUME TypeOK, IInv, Crash
  PROVE  IInv'
<1> USE DEF TypeOK, IInv, Crash, rowVars
<1>1. OpenHolds' BY DEF OpenHolds, Active
<1>2. OneCall' BY Members DEF OneCall
<1>3. NewUntilMade' BY Members DEF NewUntilMade, Active
<1>4. WorkedIsProcessing' BY Members DEF WorkedIsProcessing, Active
<1>5. ProcessingIsSourced' BY Members DEF ProcessingIsSourced, Active
<1>6. AnswerReads'
  <2>1. \A t \in AnswerCalls : t \in Transactions /\ at[t] \in 0..7 /\ at'[t] = 0
    BY Members DEF Calls
  <2>2. \A t \in AnswerCalls : tx'[t] # "ended" => tx[t] = "idle" /\ at[t] = 0
    BY <2>1 DEF OpenHolds, Active
  <2>3. saw' = saw /\ AnswerReads
    OBVIOUS
  <2> HIDE DEF TypeOK, IInv, Crash
  <2>4. \A t \in AnswerCalls : tx'[t] # "ended" => saw[t] = "none"
    BY <2>2, <2>3 DEF AnswerReads
  <2> QED BY <2>1, <2>3, <2>4 DEF AnswerReads
<1>7. AnswerFindsQuestion' BY Members DEF AnswerFindsQuestion, Active
<1>8. ReadLooks' BY Members DEF ReadLooks, Subject, Calls
<1>9. PostedOnce' BY DEF PostedOnce
<1>10. StuckHasCause' BY BoundAssumption DEF StuckHasCause
<1> QED BY <1>1, <1>2, <1>3, <1>4, <1>5, <1>6, <1>7, <1>8, <1>9, <1>10

\* Somebody takes a lock: t reads what is to be read.
LEMMA AcquireKeeps ==
  ASSUME TypeOK, IInv, NEW t \in Transactions, Acquire(t)
  PROVE  IInv'
<1> USE DEF TypeOK, IInv, Acquire
<1>0. /\ Active(t) /\ \A u \in Transactions : Active(u)' <=> Active(u)
      /\ \A u \in Transactions \ {t} : at'[u] = at[u]
      /\ at'[t] = at[t] + 1 /\ at[t] \in 0..7
      /\ tx'[t] = "open" /\ \A u \in Transactions \ {t} : tx'[u] = tx[u]
      /\ MayGoOn(t) /\ Blockers(t) = {}
      /\ \A u \in AnswerCalls \cup ReadCalls : u # t => saw'[u] = saw[u]
      /\ t \in AnswerCalls \cup ReadCalls /\ at[t] # 1 => saw'[t] = saw[t]
      /\ \A u \in ReadCalls : u # t => found'[u] = found[u]
      /\ t \in ReadCalls /\ at[t] # 3 => found'[t] = found[t]
      /\ UNCHANGED <<via, status, resolved, posts, crashes>>
  BY Subjects DEF Active
<1>00. /\ t \in AnswerCalls /\ at[t] = 1 => saw'[t] = status[Subject(t)]
       /\ t \in ReadCalls /\ at[t] = 3 => found'[t] = (posts[Subject(t)] > 0)
       /\ \A u \in AnswerCalls \cup ReadCalls : u \in Transactions
       /\ \A u \in AnswerCalls \cup ReadCalls : u \notin Makes \cup Runs \cup Marks
       /\ AnswerCalls \cap ReadCalls = {}
       /\ \A u \in Transactions : at[u] \in 0..7
  BY Kinds DEF Transactions, Calls
<1> HIDE DEF Acquire
<1>1. OpenHolds'
  <2>1. at'[t] > 0
    BY <1>0
  <2> QED BY <1>0, <2>1 DEF OpenHolds
<1>2. OneCall'
  <2>1. SUFFICES ASSUME NEW c \in Calls, NEW d \in Calls, at'[c] > 0, at'[d] > 0, c # d
                 PROVE  FALSE
    BY DEF OneCall
  <2>2. CASE c # t /\ d # t
    BY <2>1, <2>2, <1>0, Members DEF OneCall
  <2>3. CASE c = t /\ at[t] = 0
    BY <2>1, <2>3, <1>0, Members, FirstLockExcludes
  <2>4. CASE d = t /\ at[t] = 0
    BY <2>1, <2>4, <1>0, Members, FirstLockExcludes
  <2>5. CASE at[t] # 0
    <3>1. at[c] > 0 /\ at[d] > 0
      BY <2>1, <2>5, <1>0, Members
    <3> QED BY <2>1, <3>1 DEF OneCall
  <2> QED BY <2>2, <2>3, <2>4, <2>5
<1>3. NewUntilMade' BY <1>0, Members DEF NewUntilMade, Active
<1>4. WorkedIsProcessing' BY <1>0, Members DEF WorkedIsProcessing
<1>5. ProcessingIsSourced' BY <1>0, Members DEF ProcessingIsSourced, Active
<1>6. AnswerReads'
  <2>1. SUFFICES ASSUME NEW c \in AnswerCalls
                 PROVE  /\ tx'[c] # "ended" /\ at'[c] < 2 => saw'[c] = "none"
                        /\ at'[c] > 2 => saw'[c] = "FOLLOW_UP_REQUIRED"
    BY DEF AnswerReads
  <2>2. c \in Transactions
    BY Members DEF Calls
  <2>3. CASE c # t
    BY <2>2, <2>3, <1>0 DEF AnswerReads
  <2>4. CASE c = t /\ at[t] = 1
    BY <2>4, <1>0
  <2>5. CASE c = t /\ at[t] # 1
    <3>1. saw'[t] = saw[t] /\ tx[t] # "ended"
      BY <2>5, <1>0 DEF Active
    <3>2. at[t] >= 2 => saw[t] = "FOLLOW_UP_REQUIRED"
      BY <2>5, <1>0, <1>00 DEF MayGoOn
    <3>3. at[t] = 0 => saw[t] = "none"
      BY <2>5, <3>1 DEF AnswerReads
    <3>4. CASE at[t] = 0
      BY <2>5, <3>1, <3>3, <3>4, <1>0
    <3>5. CASE at[t] >= 2
      BY <2>5, <3>1, <3>2, <3>5, <1>0
    <3> QED BY <2>5, <3>4, <3>5, <1>0
  <2> QED BY <2>3, <2>4, <2>5
<1>7. AnswerFindsQuestion'
  <2>1. SUFFICES ASSUME NEW a \in Answers, tx'[<<"answer", a>>] = "open",
                        saw'[<<"answer", a>>] = "FOLLOW_UP_REQUIRED"
                 PROVE  status'[About[a]] = "FOLLOW_UP_REQUIRED"
    BY DEF AnswerFindsQuestion
  <2>2. <<"answer", a>> \in AnswerCalls /\ Subject(<<"answer", a>>) = About[a]
    BY Kinds
  <2>3. CASE t = <<"answer", a>> /\ at[t] = 1
    <3>1. saw'[t] = status[Subject(t)] /\ status' = status
      BY <2>2, <2>3, <1>0, <1>00
    <3> QED BY <2>1, <2>2, <2>3, <3>1
  <2>4. CASE t = <<"answer", a>> /\ at[t] # 1
    <3>1. saw[t] = "FOLLOW_UP_REQUIRED" /\ tx[t] # "ended"
      BY <2>1, <2>2, <2>4, <1>0 DEF Active
    <3>2. at[t] > 0
      BY <2>2, <2>4, <3>1, <1>0 DEF AnswerReads
    <3>3. tx[t] = "open"
      BY <3>2 DEF OpenHolds
    <3>4. status[About[a]] = "FOLLOW_UP_REQUIRED"
      BY <2>4, <3>1, <3>3 DEF AnswerFindsQuestion
    <3> QED BY <3>4, <1>0
  <2>5. CASE t # <<"answer", a>>
    BY <2>1, <2>2, <2>5, <1>0, <1>00 DEF AnswerFindsQuestion
  <2> QED BY <2>3, <2>4, <2>5
<1>8. ReadLooks'
  <2>1. SUFFICES ASSUME NEW c \in ReadCalls
                 PROVE  /\ at'[c] > 3 /\ ~found'[c] => posts[Subject(c)] = 0
                        /\ at'[c] > 4 => ~found'[c]
    <3>1. posts' = posts /\ \A c \in ReadCalls : Subject(c)' = Subject(c)
      BY <1>0 DEF Subject
    <3> QED BY <3>1 DEF ReadLooks
  <2>2. c \in Transactions /\ Subject(c) \in Requests /\ posts[Subject(c)] \in Nat
    BY Members, Subjects DEF Calls
  <2>3. CASE c # t
    BY <2>2, <2>3, <1>0 DEF ReadLooks
  <2>4. CASE c = t /\ at[t] = 3
    <3>1. at'[t] = 4
      BY <2>4, <1>0
    <3>2. ~found'[t] => ~(posts[Subject(t)] > 0)
      BY <2>4, <1>00
    <3>3. ~found'[t] => posts[Subject(t)] = 0
      BY <2>2, <2>4, <3>2
    <3> QED BY <2>4, <3>1, <3>3
  <2>5. CASE c = t /\ at[t] # 3
    <3>1. found'[t] = found[t]
      BY <2>5, <1>0
    <3>2. at[t] >= 2 => ~found[t]
      BY <2>5, <1>0, <1>00 DEF MayGoOn
    <3>3. at[t] > 3 /\ ~found[t] => posts[Subject(t)] = 0
      BY <2>5 DEF ReadLooks
    <3>4. CASE at[t] < 3
      BY <2>5, <3>4, <1>0
    <3>5. CASE at[t] > 3
      BY <2>5, <3>1, <3>2, <3>3, <3>5, <1>0
    <3> QED BY <2>5, <3>4, <3>5, <1>0
  <2> QED BY <2>3, <2>4, <2>5
<1>9. PostedOnce' BY <1>0 DEF PostedOnce
<1>10. StuckHasCause'
  <2>1. \A r \in Requests : (Worked(r)' <=> Worked(r))
    BY <1>0, Members, WorkedIs DEF Active
  <2>2. \A r \in Requests : tx[<<"mark", r>>] = "ended" => tx'[<<"mark", r>>] = "ended"
    BY <1>0, Members DEF Active
  <2> QED BY <1>0, <2>1, <2>2 DEF StuckHasCause
<1> QED BY <1>1, <1>2, <1>3, <1>4, <1>5, <1>6, <1>7, <1>8, <1>9, <1>10

LEMMA AskUnassessedKeeps ==
  ASSUME TypeOK, IInv, NEW r \in Requests, AskUnassessed(r)
  PROVE  IInv'
<1> DEFINE t == <<"make", r>>
<1>0. /\ t \in Transactions /\ t \notin AnswerCalls \cup ReadCalls
      /\ tx[t] = "open" /\ at[t] \in 0..7 /\ at[t] > 0 /\ at'[t] = at[t] + 1
      /\ \A u \in Transactions \ {t} : at'[u] = at[u]
      /\ tx' = tx /\ saw' = saw /\ found' = found /\ crashes' = crashes
      /\ UNCHANGED <<via, status, resolved, posts>>
  <2>1. t \in Transactions /\ t \notin AnswerCalls \cup ReadCalls
    BY Members, Kinds
  <2>2. tx[t] = "open" /\ at[t] \in 0..7 /\ at[t] > 0
    BY <2>1 DEF AskUnassessed, TypeOK, IInv, OpenHolds
  <2>3. /\ at' = [at EXCEPT ![t] = @ + 1] /\ at \in [Transactions -> 0..7]
        /\ tx' = tx /\ saw' = saw /\ found' = found /\ crashes' = crashes
        /\ UNCHANGED <<via, status, resolved, posts>>
    BY DEF AskUnassessed, TypeOK, rowVars
  <2> HIDE DEF t
  <2> QED BY <2>1, <2>2, <2>3
<1>00. at'[t] > 0
  BY <1>0
<1> HIDE DEF t
<1> USE DEF IInv
<1>1. OpenHolds' BY <1>0, <1>00 DEF OpenHolds
<1>2. OneCall' BY <1>0, <1>00, Members DEF OneCall
<1>3. NewUntilMade' BY <1>0 DEF NewUntilMade
<1>4. WorkedIsProcessing' BY <1>0 DEF WorkedIsProcessing, Active
<1>5. ProcessingIsSourced' BY <1>0 DEF ProcessingIsSourced
<1>6. AnswerReads' BY <1>0, Members DEF AnswerReads, Calls
<1>7. AnswerFindsQuestion' BY <1>0 DEF AnswerFindsQuestion
<1>8. ReadLooks' BY <1>0, Members DEF ReadLooks, Calls, Subject
<1>9. PostedOnce' BY <1>0 DEF PostedOnce
<1>10. StuckHasCause' BY <1>0 DEF StuckHasCause, Worked, Active
<1> QED BY <1>1, <1>2, <1>3, <1>4, <1>5, <1>6, <1>7, <1>8, <1>9, <1>10

\* A transaction that ends, and queues what is not open, disturbs no other.
LEMMA EndsKeeps ==
  ASSUME TypeOK, IInv, NEW t \in Transactions, NEW q \in SUBSET (Runs \cup Marks),
         Ends(t, q), \A u \in q : tx[u] # "open"
  PROVE  /\ tx'[t] = "ended"
         /\ \A u \in q : u # t => tx'[u] = "ready"
         /\ \A u \in Transactions : u # t /\ u \notin q => tx'[u] = tx[u] /\ at'[u] = at[u]
         /\ OpenHolds' /\ OneCall' /\ AnswerReads'
         /\ posts' = posts => ReadLooks'
         /\ (\A r \in Requests : status[r] = "FOLLOW_UP_REQUIRED" => status'[r] = status[r])
              => AnswerFindsQuestion'
<1>1. /\ tx'[t] = "ended" /\ at'[t] = 0
      /\ \A u \in q : u \in Transactions
      /\ \A u \in q : u # t => tx'[u] = "ready"
      /\ \A u \in Transactions : u # t => at'[u] = at[u]
      /\ \A u \in Transactions : u # t /\ u \notin q => tx'[u] = tx[u]
      /\ saw' = saw /\ found' = found
      /\ \A u \in Calls : u \notin q /\ u \in Transactions
      /\ AnswerCalls \subseteq Calls /\ ReadCalls \subseteq Calls
  BY Kinds, Members DEF Ends, TypeOK, Transactions, Calls
<1> HIDE DEF TypeOK
<1> USE DEF IInv
<1>2. OpenHolds'
  BY <1>1 DEF OpenHolds
<1>3. OneCall'
  BY <1>1 DEF OneCall
<1>4. AnswerReads'
  BY <1>1 DEF AnswerReads
<1>5. ASSUME posts' = posts PROVE ReadLooks'
  <2>1. \A c \in ReadCalls : Subject(c)' = Subject(c)
    BY DEF Subject
  <2>2. \A c \in ReadCalls : c # t => at'[c] = at[c]
    BY <1>1
  <2> QED BY <1>1, <1>5, <2>1, <2>2 DEF ReadLooks
<1>6. ASSUME \A r \in Requests : status[r] = "FOLLOW_UP_REQUIRED" => status'[r] = status[r]
      PROVE  AnswerFindsQuestion'
  <2>1. \A a \in Answers : /\ <<"answer", a>> \in Calls /\ About[a] \in Requests
    BY <1>1, Kinds, Members
  <2> QED BY <1>1, <1>6, <2>1 DEF AnswerFindsQuestion
<1> QED BY <1>1, <1>2, <1>3, <1>4, <1>5, <1>6

LEMMA InsertKeeps ==
  ASSUME TypeOK, IInv, NEW r \in Requests, Insert(r)
  PROVE  IInv'
<1> DEFINE t == <<"make", r>>
           q == {<<"run", r>>}
<1>1. /\ t \in Transactions /\ Ends(t, q) /\ tx[t] = "open" /\ q \in SUBSET (Runs \cup Marks)
      /\ <<"run", r>> \in Transactions /\ <<"mark", r>> \in Transactions
      /\ status' = [status EXCEPT ![r] = "PROCESSING"]
      /\ via' = via /\ resolved' = resolved /\ posts' = posts /\ crashes' = crashes
      /\ via[r] # "graph"
  BY Members, Kinds DEF Insert, Finished, Ends
<1>2. status[r] = "none"
  BY <1>1 DEF IInv, NewUntilMade
<1>3. ~Active(<<"run", r>>) /\ ~Active(<<"mark", r>>)
  BY <1>2 DEF IInv, WorkedIsProcessing
<1>4. \A u \in q : tx[u] # "open"
  BY <1>3 DEF Active
<1>5. \A s \in Requests : /\ <<"make", s>> \in Transactions /\ <<"run", s>> \in Transactions
                          /\ <<"mark", s>> \in Transactions
  BY Members
<1>6. /\ tx'[<<"make", r>>] = "ended" /\ tx'[<<"run", r>>] = "ready"
      /\ tx'[<<"mark", r>>] = tx[<<"mark", r>>]
      /\ \A s \in Requests \ {r} : /\ tx'[<<"make", s>>] = tx[<<"make", s>>]
                                  /\ tx'[<<"run", s>>] = tx[<<"run", s>>]
                                  /\ tx'[<<"mark", s>>] = tx[<<"mark", s>>]
      /\ OpenHolds' /\ OneCall' /\ AnswerReads' /\ ReadLooks'
  BY <1>1, <1>4, <1>5, EndsKeeps
<1>7. status'[r] = "PROCESSING" /\ \A s \in Requests \ {r} : status'[s] = status[s]
  BY <1>1 DEF TypeOK
<1>8. AnswerFindsQuestion'
  BY <1>1, <1>2, <1>4, <1>7, EndsKeeps
<1>9. via[r] \in {"post", "sse", "chat"}
  <2>1. via[r] # "none"
    BY <1>1 DEF IInv, ProcessingIsSourced
  <2> QED BY <1>1, <2>1 DEF TypeOK
<1> USE DEF IInv
<1>10. NewUntilMade' BY <1>6, <1>7 DEF NewUntilMade
<1>11. WorkedIsProcessing' BY <1>3, <1>6, <1>7 DEF WorkedIsProcessing, Active
<1>12. ProcessingIsSourced' BY <1>1, <1>6, <1>7, <1>9 DEF ProcessingIsSourced
<1>13. PostedOnce' BY <1>1 DEF PostedOnce
<1>14. StuckHasCause' BY <1>1, <1>6, <1>7, WorkedIs DEF StuckHasCause, Active
<1> QED BY <1>6, <1>8, <1>10, <1>11, <1>12, <1>13, <1>14

\* A request is in work, or still unseen in the transaction that makes it.
LEMMA OpenRunners ==
  ASSUME TypeOK, IInv, NEW r \in Requests, NEW t \in {Runner(r), <<"mark", r>>},
         tx[t] = "open"
  PROVE  /\ t \in Transactions
         /\ \/ t = <<"make", r>> /\ status[r] = "none"
            \/ t \in {<<"run", r>>, <<"mark", r>>} /\ status[r] = "PROCESSING"
  BY Members DEF Runner, IInv, NewUntilMade, WorkedIsProcessing, Active

LEMMA OutcomeKeeps ==
  ASSUME TypeOK, IInv, NEW r \in Requests, NEW t \in {Runner(r), <<"mark", r>>},
         NEW x \in {"FOLLOW_UP_REQUIRED", "COMPLETED", "FAILED"},
         tx[t] = "open", Ends(t, {}), status' = [status EXCEPT ![r] = x],
         x = "FOLLOW_UP_REQUIRED" => ~resolved[r],
         UNCHANGED <<via, resolved, posts>>
  PROVE  IInv'
<1>1. /\ t \in Transactions
      /\ \/ t = <<"make", r>> /\ status[r] = "none"
         \/ t \in {<<"run", r>>, <<"mark", r>>} /\ status[r] = "PROCESSING"
  BY OpenRunners
<1>2. \A s \in Requests : /\ <<"make", s>> \in Transactions /\ <<"run", s>> \in Transactions
                          /\ <<"mark", s>> \in Transactions
  BY Members
<1>3. status'[r] = x /\ \A s \in Requests \ {r} : status'[s] = status[s]
  BY DEF TypeOK
<1>4. /\ tx'[t] = "ended" /\ \A u \in Transactions \ {t} : tx'[u] = tx[u]
      /\ OpenHolds' /\ OneCall' /\ AnswerReads' /\ ReadLooks' /\ AnswerFindsQuestion'
  BY <1>1, <1>3, EndsKeeps
<1>5. crashes' = crashes
  BY DEF Ends
<1>6. ~Active(<<"run", r>>)' /\ ~Active(<<"mark", r>>)' /\ tx'[<<"make", r>>] = "ended"
  <2>1. tx[<<"make", r>>] = "ended" \/ t = <<"make", r>>
    BY <1>1 DEF IInv, NewUntilMade
  <2>2. CASE t = <<"make", r>>
    BY <2>2, <1>1, <1>2, <1>4 DEF IInv, WorkedIsProcessing, Active
  <2>3. CASE t # <<"make", r>>
    BY <2>1, <2>3, <1>1, <1>2, <1>4 DEF IInv, WorkedIsProcessing, Active
  <2> QED BY <2>2, <2>3
<1>7. \A s \in Requests \ {r} : /\ tx'[<<"make", s>>] = tx[<<"make", s>>]
                              /\ tx'[<<"run", s>>] = tx[<<"run", s>>]
                              /\ tx'[<<"mark", s>>] = tx[<<"mark", s>>]
  <2>1. \A s \in Requests \ {r} : /\ t # <<"make", s>> /\ t # <<"run", s>>
                                 /\ t # <<"mark", s>>
    BY <1>1
  <2> QED BY <1>2, <1>4, <2>1
<1> USE DEF IInv
<1>10. NewUntilMade' BY <1>3, <1>6, <1>7 DEF NewUntilMade
<1>11. WorkedIsProcessing' BY <1>3, <1>6, <1>7 DEF WorkedIsProcessing, Active
<1>12. ProcessingIsSourced'
  <2>1. via[r] # "none"
    BY <1>1 DEF ProcessingIsSourced
  <2> QED BY <2>1, <1>3, <1>7 DEF ProcessingIsSourced
<1>13. PostedOnce' BY DEF PostedOnce
<1>14. StuckHasCause' BY <1>3, <1>5, <1>7, WorkedIs DEF StuckHasCause, Active
<1> QED BY <1>4, <1>10, <1>11, <1>12, <1>13, <1>14

LEMMA OutcomesKeep ==
  ASSUME TypeOK, IInv, NEW r \in Requests, Ask(r) \/ Complete(r) \/ MarkFailed(r)
  PROVE  IInv'
<1>1. CASE Ask(r)
  BY <1>1, OutcomeKeeps DEF Ask, Finished
<1>2. CASE Complete(r)
  BY <1>2, OutcomeKeeps DEF Complete, Finished
<1>3. CASE MarkFailed(r)
  BY <1>3, OutcomeKeeps DEF MarkFailed, Finished
<1> QED BY <1>1, <1>2, <1>3

LEMMA AnswerKeeps ==
  ASSUME TypeOK, IInv, NEW a \in Answers, Answer(a)
  PROVE  IInv'
<1> DEFINE t == <<"answer", a>>
           r == About[a]
           q == {<<"run", r>>}
<1>0. /\ t \in Transactions /\ t \in AnswerCalls /\ r \in Requests
      /\ q \in SUBSET (Runs \cup Marks) /\ Len(Program(t)) = 3
  <2>1. t \in AnswerCalls /\ r \in Requests /\ t \in Transactions
    BY Members, Kinds
  <2>2. q \in SUBSET (Runs \cup Marks)
    BY <2>1 DEF Runs
  <2>3. Len(Program(t)) = 3
    BY <2>1, Programs
  <2> QED BY <2>1, <2>2, <2>3
<1>1. /\ tx[t] = "open" /\ at[t] = 3 /\ crashes' = crashes /\ Ends(t, q)
      /\ status' = [status EXCEPT ![r] = "PROCESSING"] /\ via' = [via EXCEPT ![r] = "post"]
      /\ resolved' = [resolved EXCEPT ![r] = TRUE] /\ posts' = posts
  BY <1>0 DEF Answer, Finished, Ends
<1>2. saw[t] = "FOLLOW_UP_REQUIRED"
  BY <1>0, <1>1 DEF IInv, AnswerReads
<1>3. status[r] = "FOLLOW_UP_REQUIRED"
  BY <1>0, <1>1, <1>2 DEF IInv, AnswerFindsQuestion
<1>4. ~Active(<<"run", r>>) /\ ~Active(<<"mark", r>>) /\ tx[<<"make", r>>] = "ended"
  BY <1>0, <1>1, <1>3 DEF IInv, WorkedIsProcessing, NewUntilMade
<1>5. \A u \in q : tx[u] # "open"
  BY <1>4 DEF Active
<1>6. \A s \in Requests : /\ <<"make", s>> \in Transactions /\ <<"run", s>> \in Transactions
                          /\ <<"mark", s>> \in Transactions
  BY Members
<1>7. /\ tx'[t] = "ended" /\ tx'[<<"run", r>>] = "ready"
      /\ \A u \in Transactions : u # t /\ u \notin q => tx'[u] = tx[u] /\ at'[u] = at[u]
      /\ OpenHolds' /\ OneCall' /\ AnswerReads' /\ ReadLooks'
  BY <1>0, <1>1, <1>5, EndsKeeps
<1>8. /\ \A s \in Requests : /\ tx'[<<"make", s>>] = tx[<<"make", s>>]
                            /\ tx'[<<"mark", s>>] = tx[<<"mark", s>>]
      /\ \A s \in Requests \ {r} : tx'[<<"run", s>>] = tx[<<"run", s>>]
  BY <1>6, <1>7
<1>9. /\ status'[r] = "PROCESSING" /\ via'[r] = "post"
      /\ \A s \in Requests \ {r} : /\ status'[s] = status[s] /\ via'[s] = via[s]
                                 /\ resolved'[s] = resolved[s]
  BY <1>0, <1>1 DEF TypeOK
<1>10. AnswerFindsQuestion'
  <2>1. SUFFICES ASSUME NEW b \in Answers, tx'[<<"answer", b>>] = "open",
                        saw'[<<"answer", b>>] = "FOLLOW_UP_REQUIRED"
                 PROVE  FALSE
    BY DEF AnswerFindsQuestion
  <2>2. <<"answer", b>> \in Calls /\ t \in Calls /\ <<"answer", b>> \in Transactions
    BY <1>0, <1>1, Kinds, Members DEF Calls
  <2>3. <<"answer", b>> # t /\ tx[<<"answer", b>>] = "open"
    BY <2>1, <2>2, <1>7
  <2>4. at[<<"answer", b>>] > 0 /\ at[t] > 0
    BY <1>1, <2>2, <2>3 DEF IInv, OpenHolds
  <2> QED BY <2>2, <2>3, <2>4 DEF IInv, OneCall
<1> HIDE DEF t, q
<1> USE DEF IInv
<1>11. NewUntilMade' BY <1>4, <1>8, <1>9 DEF NewUntilMade
<1>12. WorkedIsProcessing' BY <1>4, <1>7, <1>8, <1>9 DEF WorkedIsProcessing, Active
<1>13. ProcessingIsSourced' BY <1>8, <1>9 DEF ProcessingIsSourced
<1>14. PostedOnce' BY <1>1 DEF PostedOnce
<1>15. StuckHasCause'
  <2>1. Worked(r)' /\ \A s \in Requests \ {r} : Worked(s)' <=> Worked(s)
    BY <1>0, <1>7, <1>8, WorkedIs DEF Active
  <2> QED BY <1>1, <1>8, <1>9, <2>1 DEF StuckHasCause
<1> QED BY <1>7, <1>10, <1>11, <1>12, <1>13, <1>14, <1>15

\* A read that posts a result has just found none, and no other read runs.
LEMMA ReplyKeeps ==
  ASSUME TypeOK, IInv, NEW g \in Reads, Reply(g)
  PROVE  IInv'
<1> DEFINE t == <<"read", g>>
           r == About[g]
<1>0. t \in Transactions /\ t \in ReadCalls /\ r \in Requests /\ Subject(t) = r
  BY Members, Kinds
<1>1. /\ tx[t] = "open" /\ at[t] = Len(Program(t)) /\ Ends(t, {}) /\ crashes' = crashes
      /\ via' = via /\ status' = status /\ resolved' = resolved
      /\ posts' = IF r \in Eligs THEN [posts EXCEPT ![r] = @ + 1] ELSE posts
  BY DEF Reply, Finished, Ends
<1>2. /\ tx'[t] = "ended" /\ \A u \in Transactions \ {t} : tx'[u] = tx[u] /\ at'[u] = at[u]
      /\ OpenHolds' /\ OneCall' /\ AnswerReads' /\ AnswerFindsQuestion'
  BY <1>0, <1>1, EndsKeeps
<1>3. r \in Eligs => posts[r] = 0
  <2>1. SUFFICES ASSUME r \in Eligs PROVE posts[r] = 0
    OBVIOUS
  <2>2. at[t] = 5
    BY <1>0, <1>1, <2>1, Programs
  <2>3. ~found[t]
    BY <1>0, <2>2 DEF IInv, ReadLooks
  <2> QED BY <1>0, <2>2, <2>3 DEF IInv, ReadLooks
<1>4. \A s \in Requests : /\ tx'[<<"make", s>>] = tx[<<"make", s>>]
                          /\ tx'[<<"run", s>>] = tx[<<"run", s>>]
                          /\ tx'[<<"mark", s>>] = tx[<<"mark", s>>]
  <2>1. \A s \in Requests : t # <<"make", s>> /\ t # <<"run", s>> /\ t # <<"mark", s>>
    OBVIOUS
  <2> QED BY <1>2, <2>1, Members
<1>5. ReadLooks'
  <2>0. at'[t] = 0
    BY <1>0, <1>1 DEF Ends, TypeOK
  <2>1. SUFFICES ASSUME NEW c \in ReadCalls, at'[c] # 0 PROVE FALSE
    <3>1. \A c \in ReadCalls : ~(0 > 3) /\ ~(0 > 4)
      OBVIOUS
    <3> QED BY <3>1 DEF ReadLooks
  <2>2. c \in Calls /\ c \in Transactions /\ t \in Calls
    BY <1>0, Members DEF Calls
  <2>3. c # t
    BY <2>0, <2>1
  <2>4. at[c] > 0 /\ at[t] > 0
    <3>1. at[c] # 0 /\ at[c] \in 0..7
      BY <1>2, <2>1, <2>2, <2>3 DEF TypeOK
    <3> QED BY <1>0, <1>1, <3>1 DEF IInv, OpenHolds
  <2> QED BY <2>2, <2>3, <2>4 DEF IInv, OneCall
<1>6. PostedOnce'
  BY <1>0, <1>1, <1>3 DEF IInv, PostedOnce, TypeOK
<1> HIDE DEF t, r
<1> USE DEF IInv
<1>7. NewUntilMade' BY <1>1, <1>4 DEF NewUntilMade
<1>8. WorkedIsProcessing' BY <1>1, <1>4 DEF WorkedIsProcessing, Active
<1>9. ProcessingIsSourced' BY <1>1, <1>4 DEF ProcessingIsSourced
<1>10. StuckHasCause' BY <1>1, <1>4, WorkedIs DEF StuckHasCause, Active
<1> QED BY <1>2, <1>5, <1>6, <1>7, <1>8, <1>9, <1>10

LEMMA RefuseKeeps ==
  ASSUME TypeOK, IInv, NEW t \in Transactions, Refuse(t)
  PROVE  IInv'
<1>1. tx[t] = "open" /\ Ends(t, {}) /\ UNCHANGED rowVars /\ crashes' = crashes
  BY DEF Refuse, Ends
<1>2. \A s \in Requests : t # <<"make", s>> /\ t # <<"run", s>> /\ t # <<"mark", s>>
  <2>1. t \notin Makes \cup Runs \cup Marks
    BY DEF Refuse, MayGoOn
  <2> QED BY <2>1 DEF Makes, Runs, Marks
<1>3. /\ \A u \in Transactions \ {t} : tx'[u] = tx[u]
      /\ OpenHolds' /\ OneCall' /\ AnswerReads' /\ AnswerFindsQuestion' /\ ReadLooks'
  BY <1>1, EndsKeeps DEF rowVars
<1>4. \A s \in Requests : /\ tx'[<<"make", s>>] = tx[<<"make", s>>]
                          /\ tx'[<<"run", s>>] = tx[<<"run", s>>]
                          /\ tx'[<<"mark", s>>] = tx[<<"mark", s>>]
  BY <1>2, <1>3, Members
<1> USE DEF IInv, rowVars
<1>5. NewUntilMade' BY <1>1, <1>4 DEF NewUntilMade
<1>6. WorkedIsProcessing' BY <1>1, <1>4 DEF WorkedIsProcessing, Active
<1>7. ProcessingIsSourced' BY <1>1, <1>4 DEF ProcessingIsSourced
<1>8. PostedOnce' BY <1>1 DEF PostedOnce
<1>9. StuckHasCause' BY <1>1, <1>4, WorkedIs DEF StuckHasCause, Active
<1> QED BY <1>3, <1>5, <1>6, <1>7, <1>8, <1>9

\* A transaction is rolled back: only a run leaves a mark behind.
LEMMA RollbackKeeps ==
  ASSUME TypeOK, IInv, NEW t \in Transactions, Active(t), NEW q \in SUBSET (Runs \cup Marks),
         Ends(t, q), UNCHANGED rowVars,
         \/ q = {} /\ \A r \in Requests :
              t = <<"run", r>> => via[r] \notin {"none", "post"}
         \/ \E r \in Requests : t = <<"run", r>> /\ q = {<<"mark", r>>}
  PROVE  IInv'
<1>1. \A r \in Requests : t = <<"run", r>> =>
        status[r] = "PROCESSING" /\ tx[<<"mark", r>>] \notin {"ready", "open"}
  BY DEF IInv, WorkedIsProcessing, Active
<1>2. \A u \in q : tx[u] # "open"
  BY <1>1
<1>3. /\ tx'[t] = "ended" /\ crashes' = crashes
      /\ \A u \in q : u # t => tx'[u] = "ready"
      /\ \A u \in Transactions : u # t /\ u \notin q => tx'[u] = tx[u]
      /\ OpenHolds' /\ OneCall' /\ AnswerReads' /\ AnswerFindsQuestion' /\ ReadLooks'
  BY <1>2, EndsKeeps DEF rowVars, Ends
<1>4. ASSUME NEW s \in Requests
      PROVE  /\ \/ tx'[<<"make", s>>] = tx[<<"make", s>>]
                \/ t = <<"make", s>> /\ tx'[<<"make", s>>] = "ended"
             /\ \/ tx'[<<"run", s>>] = tx[<<"run", s>>]
                \/ t = <<"run", s>> /\ tx'[<<"run", s>>] = "ended"
             /\ \/ tx'[<<"mark", s>>] = tx[<<"mark", s>>] /\ t # <<"mark", s>>
                   /\ (t = <<"run", s>> => via[s] \notin {"none", "post"})
                \/ t = <<"mark", s>> /\ tx'[<<"mark", s>>] = "ended"
                \/ t = <<"run", s>> /\ tx'[<<"mark", s>>] = "ready"
  <2>1. <<"make", s>> \in Transactions /\ <<"run", s>> \in Transactions
        /\ <<"mark", s>> \in Transactions
    BY Members
  <2>2. CASE q = {} /\ \A r \in Requests : t = <<"run", r>> => via[r] \notin {"none", "post"}
    BY <1>3, <2>1, <2>2
  <2>3. CASE \E r \in Requests : t = <<"run", r>> /\ q = {<<"mark", r>>}
    <3>1. PICK r \in Requests : t = <<"run", r>> /\ q = {<<"mark", r>>}
      BY <2>3
    <3>2. <<"make", s>> # t /\ <<"make", s>> \notin q /\ <<"run", s>> \notin q /\ t \notin q
      BY <3>1
    <3>3. s # r => <<"run", s>> # t /\ <<"mark", s>> \notin q /\ <<"mark", s>> # t
      BY <3>1
    <3> QED BY <1>3, <2>1, <3>1, <3>2, <3>3
  <2> QED BY <2>2, <2>3
<1> USE DEF IInv, rowVars
<1>5. NewUntilMade' BY <1>4 DEF NewUntilMade
<1>6. WorkedIsProcessing'
  <2>1. SUFFICES ASSUME NEW s \in Requests
                 PROVE  LET run == tx'[<<"run", s>>]  mark == tx'[<<"mark", s>>]
                        IN  /\ run \in {"ready", "open"} \/ mark \in {"ready", "open"}
                               => status[s] = "PROCESSING"
                            /\ ~(run \in {"ready", "open"} /\ mark \in {"ready", "open"})
    BY DEF WorkedIsProcessing, Active
  <2>2. CASE t = <<"run", s>>
    BY <1>1, <1>3, <2>2
  <2>3. CASE t # <<"run", s>>
    BY <1>4, <2>3 DEF WorkedIsProcessing, Active
  <2> QED BY <2>2, <2>3
<1>7. ProcessingIsSourced'
  <2>1. \A s \in Requests : tx'[<<"make", s>>] # "idle" => tx[<<"make", s>>] # "idle"
    BY <1>4 DEF Active
  <2> QED BY <2>1 DEF ProcessingIsSourced
<1>8. PostedOnce' BY DEF PostedOnce
<1>9. StuckHasCause'
  <2>1. SUFFICES ASSUME NEW s \in Requests, status[s] = "PROCESSING", ~Worked(s)',
                        ~(crashes > 0), via[s] \notin {"sse", "chat"}
                 PROVE  tx'[<<"mark", s>>] = "ended"
    BY <1>3 DEF StuckHasCause
  <2>2. via[s] = "post" /\ tx[<<"make", s>>] = "ended"
    BY <2>1 DEF ProcessingIsSourced, NewUntilMade
  <2>3. Worked(s) \/ tx[<<"mark", s>>] = "ended"
    BY <2>1 DEF StuckHasCause
  <2>4. tx'[<<"mark", s>>] # "ready"
    BY <2>1, WorkedIs
  <2>5. tx'[<<"run", s>>] \notin {"ready", "open"} /\ tx'[<<"mark", s>>] \notin {"ready", "open"}
    BY <2>1, WorkedIs
  <2> QED BY <1>4, <2>2, <2>3, <2>4, <2>5, WorkedIs DEF Active
<1> QED BY <1>3, <1>5, <1>6, <1>7, <1>8, <1>9

LEMMA RollbacksKeep ==
  ASSUME TypeOK, IInv, NEW t \in Transactions, Active(t), Rollback(t)
  PROVE  IInv'
<1>1. PICK r \in Requests :
        /\ Subject(t) = r
        /\ \/ Ends(t, {})
           \/ t = <<"run", r>> /\ via[r] \in {"post", "chat"} /\ Ends(t, {<<"mark", r>>})
        /\ t = <<"run", r>> /\ via[r] \in {"post", "chat"} => Ends(t, {<<"mark", r>>})
        /\ UNCHANGED rowVars
  BY RollbackEnds
<1>2. CASE t = <<"run", r>> /\ via[r] \in {"post", "chat"}
  <2>1. {<<"mark", r>>} \in SUBSET (Runs \cup Marks)
    BY DEF Marks
  <2> QED BY <1>1, <1>2, <2>1, RollbackKeeps
<1>3. CASE ~(t = <<"run", r>> /\ via[r] \in {"post", "chat"})
  <2>1. Ends(t, {})
    BY <1>1, <1>3
  <2>2. \A s \in Requests : t = <<"run", s>> => s = r /\ via[s] # "none"
    <3>1. \A s \in Requests : t = <<"run", s>> => s = r
      BY <1>1, Kinds
    <3>2. t = <<"run", r>> => status[r] = "PROCESSING"
      BY DEF IInv, WorkedIsProcessing
    <3> QED BY <3>1, <3>2 DEF IInv, ProcessingIsSourced
  <2> QED BY <1>1, <1>3, <2>1, <2>2, RollbackKeeps
<1> QED BY <1>2, <1>3

LEMMA CutKeeps ==
  ASSUME TypeOK, IInv, NEW r \in Requests, Cut(r)
  PROVE  IInv'
<1>1. PICK t \in {<<"make", r>>, <<"run", r>>, <<"mark", r>>} : Active(t) /\ Ends(t, {})
  BY DEF Cut
<1>2. t \in Transactions /\ \A s \in Requests : t = <<"run", s>> => s = r
  <2>1. t \in Transactions
    BY Members
  <2>2. \A s \in Requests : t = <<"run", s>> => s = r
    OBVIOUS
  <2> QED BY <2>1, <2>2
<1>3. via[r] \in {"chat", "graph"} /\ UNCHANGED rowVars
  BY DEF Cut
<1> QED BY <1>1, <1>2, <1>3, RollbackKeeps

LEMMA StutterKeeps == IInv /\ UNCHANGED vars => IInv'
  BY DEF vars, IInv, OpenHolds, OneCall, NewUntilMade, WorkedIsProcessing,
     ProcessingIsSourced, AnswerReads, AnswerFindsQuestion, ReadLooks, PostedOnce,
     StuckHasCause, Worked, Active, Subject

LEMMA Starts == Init => TypeOK /\ IInv
<1> SUFFICES ASSUME Init PROVE TypeOK /\ IInv
  OBVIOUS
<1>1. TypeOK
  BY BoundAssumption DEF Init, TypeOK, Statuses
<1>2. /\ \A t \in Transactions : tx[t] = "idle" /\ at[t] = 0
      /\ \A r \in Requests : status[r] = "none" /\ posts[r] = 0
      /\ \A c \in AnswerCalls \cup ReadCalls : saw[c] = "none" /\ c \in Transactions
      /\ Calls \subseteq Transactions /\ AnswerCalls \cup ReadCalls \subseteq Calls
  BY Members DEF Init, Calls
<1> HIDE DEF Init
<1>3. OpenHolds /\ OneCall
  BY <1>2 DEF OpenHolds, OneCall
<1>4. NewUntilMade /\ PostedOnce /\ StuckHasCause
  BY <1>2 DEF NewUntilMade, PostedOnce, StuckHasCause
<1>5. WorkedIsProcessing /\ ProcessingIsSourced
  BY <1>2, Members DEF WorkedIsProcessing, ProcessingIsSourced, Active
<1>6. AnswerReads /\ ReadLooks
  BY <1>2 DEF AnswerReads, ReadLooks
<1>7. AnswerFindsQuestion
  BY <1>2, Members DEF AnswerFindsQuestion
<1> QED BY <1>1, <1>3, <1>4, <1>5, <1>6, <1>7 DEF IInv

LEMMA Kept == TypeOK /\ IInv /\ [Next]_vars => IInv'
<1> SUFFICES ASSUME TypeOK, IInv, [Next]_vars PROVE IInv'
  OBVIOUS
<1>1. CASE UNCHANGED vars
  BY <1>1, StutterKeeps
<1>2. CASE Next
  BY <1>2, Steps, StartKeeps, CallKeeps, AcquireKeeps, AskUnassessedKeeps, InsertKeeps,
     OutcomesKeep, AnswerKeeps, ReplyKeeps, RefuseKeeps, RollbacksKeep, CutKeeps,
     CrashKeeps
<1> QED BY <1>1, <1>2

(***************************************************************************)
(* The refinement, step by step.                                           *)
(***************************************************************************)
Shown(r) == status[r] # "none" /\ resolved[r]
shown == [r \in Requests |-> Shown(r)]

\* Steps that change no status change what is shown of no request.
LEMMA QuietStep ==
  ASSUME status' = status,
         \A r \in Requests : status[r] # "none" => resolved'[r] = resolved[r]
  PROVE  UNCHANGED Promise!vars
<1>1. \A r \in Requests : Shown(r)' = Shown(r)
  BY DEF Shown
<1>2. shown' = shown
  BY <1>1 DEF shown
<1> QED BY <1>2 DEF Promise!vars, shown, Shown

\* A step of one request: what it shows afterwards is a function of its row.
LEMMA ShownStep ==
  ASSUME TypeOK, NEW r \in Requests, NEW x \in Statuses \ {"none"}, NEW b \in BOOLEAN,
         status' = [status EXCEPT ![r] = x], resolved' = [resolved EXCEPT ![r] = b]
  PROVE  shown' = [shown EXCEPT ![r] = b]
<1>1. /\ status'[r] = x /\ resolved'[r] = b
      /\ \A s \in Requests \ {r} : status'[s] = status[s] /\ resolved'[s] = resolved[s]
  BY DEF TypeOK
<1>2. Shown(r)' = b
  BY <1>1 DEF Shown
<1>3. \A s \in Requests \ {r} : Shown(s)' = Shown(s)
  BY <1>1 DEF Shown
<1>4. shown' = [s \in Requests |-> IF s = r THEN b ELSE shown[s]]
  BY <1>2, <1>3 DEF shown
<1> QED BY <1>4 DEF shown

LEMMA OutcomeRefines ==
  ASSUME TypeOK, IInv, NEW r \in Requests, NEW t \in {Runner(r), <<"mark", r>>},
         NEW x \in {"FOLLOW_UP_REQUIRED", "COMPLETED", "FAILED"},
         t = <<"mark", r>> <=> x = "FAILED",
         tx[t] = "open", status' = [status EXCEPT ![r] = x],
         x = "FOLLOW_UP_REQUIRED" => ~resolved[r], UNCHANGED resolved
  PROVE  Promise!Next
<1>1. \/ t = <<"make", r>> /\ status[r] = "none" /\ x # "FAILED"
      \/ status[r] = "PROCESSING"
  BY OpenRunners
<1>2. resolved[r] \in BOOLEAN /\ resolved' = [resolved EXCEPT ![r] = resolved[r]]
  BY DEF TypeOK
<1>3. x \in Statuses \ {"none"}
  BY DEF Statuses
<1>4. shown' = [shown EXCEPT ![r] = resolved[r]]
  BY <1>2, <1>3, ShownStep
<1>5. CASE status[r] = "none" /\ x # "FAILED"
  <2>1. Promise!Create(r, x)
    BY <1>2, <1>4, <1>5 DEF Promise!Create, shown, Shown
  <2> QED BY <2>1 DEF Promise!Next
<1>6. CASE status[r] = "PROCESSING"
  <2>1. shown[r] = resolved[r]
    BY <1>2, <1>6 DEF shown, Shown
  <2>2. shown' = shown
    BY <1>4, <2>1 DEF shown
  <2>3. CASE x = "FOLLOW_UP_REQUIRED"
    <3>1. Promise!Ask(r)
      BY <1>6, <2>1, <2>2, <2>3 DEF Promise!Ask, shown, Shown
    <3> QED BY <3>1 DEF Promise!Next
  <2>4. CASE x # "FOLLOW_UP_REQUIRED"
    <3>1. Promise!Settle(r, x)
      BY <1>6, <2>2, <2>4 DEF Promise!Settle, shown, Shown
    <3> QED BY <3>1 DEF Promise!Next
  <2> QED BY <2>3, <2>4
<1> QED BY <1>1, <1>5, <1>6

LEMMA InsertRefines ==
  ASSUME TypeOK, IInv, NEW r \in Requests, Insert(r)
  PROVE  Promise!Next
<1>1. status[r] = "none" /\ status' = [status EXCEPT ![r] = "PROCESSING"]
  BY DEF Insert, Finished, IInv, NewUntilMade
<1>2. resolved[r] \in BOOLEAN /\ resolved' = [resolved EXCEPT ![r] = resolved[r]]
  BY DEF TypeOK, Insert
<1>3. shown' = [shown EXCEPT ![r] = resolved[r]]
  BY <1>1, <1>2, ShownStep DEF Statuses
<1>4. Promise!Create(r, "PROCESSING")
  BY <1>1, <1>2, <1>3 DEF Promise!Create, shown, Shown
<1> QED BY <1>4 DEF Promise!Next

LEMMA AnswerRefines ==
  ASSUME TypeOK, IInv, NEW a \in Answers, Answer(a)
  PROVE  Promise!Next
<1> DEFINE t == <<"answer", a>>
           r == About[a]
<1>1. t \in AnswerCalls /\ r \in Requests /\ t \in Transactions
  BY Members, Kinds
<1>2. tx[t] = "open" /\ at[t] = Len(Program(t))
  BY DEF Answer, Finished
<1>3. at[t] = 3
  BY <1>1, <1>2, Programs
<1>4. saw[t] = "FOLLOW_UP_REQUIRED"
  BY <1>1, <1>3 DEF IInv, AnswerReads
<1>5. status[r] = "FOLLOW_UP_REQUIRED" /\ ~resolved[r]
  BY <1>1, <1>2, <1>4 DEF IInv, AnswerFindsQuestion, ProcessingIsSourced
<1>6. /\ status' = [status EXCEPT ![r] = "PROCESSING"]
      /\ resolved' = [resolved EXCEPT ![r] = TRUE]
  BY DEF Answer
<1>7. shown' = [shown EXCEPT ![r] = TRUE]
  BY <1>1, <1>6, ShownStep DEF Statuses
<1>8. Promise!Answer(r)
  BY <1>1, <1>5, <1>6, <1>7 DEF Promise!Answer, shown, Shown
<1> QED BY <1>1, <1>8 DEF Promise!Next

LEMMA StepRefines == TypeOK /\ IInv /\ [Next]_vars => [Promise!Next]_(Promise!vars)
<1> SUFFICES ASSUME TypeOK, IInv, [Next]_vars PROVE [Promise!Next]_(Promise!vars)
  OBVIOUS
<1>1. ASSUME UNCHANGED <<status, resolved>> PROVE UNCHANGED Promise!vars
  BY <1>1, QuietStep
<1>a. CASE UNCHANGED vars
  BY <1>a, <1>1 DEF vars
<1>b. ASSUME NEW r \in Requests, Start(r) PROVE UNCHANGED Promise!vars
  <2>1. status' = status /\ status[r] = "none"
    BY <1>b DEF Start, IInv, NewUntilMade
  <2>2. \A s \in Requests : status[s] # "none" => resolved'[s] = resolved[s]
    BY <1>b, <2>1 DEF Start, TypeOK
  <2> QED BY <2>1, <2>2, QuietStep
<1>c. ASSUME NEW t \in Transactions,
             Call(t) \/ Acquire(t) \/ Refuse(t) \/ Rollback(t)
      PROVE  UNCHANGED Promise!vars
  BY <1>c, <1>1 DEF Call, Acquire, Refuse, Rollback, rowVars
<1>d. ASSUME NEW r \in Requests, AskUnassessed(r) \/ Cut(r) PROVE UNCHANGED Promise!vars
  BY <1>d, <1>1 DEF AskUnassessed, Cut, rowVars
<1>e. ASSUME NEW g \in Reads, Reply(g) PROVE UNCHANGED Promise!vars
  BY <1>e, <1>1 DEF Reply
<1>f. CASE Crash
  BY <1>f, <1>1 DEF Crash, rowVars
<1>g. ASSUME NEW r \in Requests, Ask(r) PROVE Promise!Next
  <2>1. Runner(r) # <<"mark", r>>
    BY DEF Runner
  <2> QED BY <1>g, <2>1, OutcomeRefines DEF Ask, Finished
<1>h. ASSUME NEW r \in Requests, Complete(r) PROVE Promise!Next
  <2>1. Runner(r) # <<"mark", r>>
    BY DEF Runner
  <2> QED BY <1>h, <2>1, OutcomeRefines DEF Complete, Finished
<1>i. ASSUME NEW r \in Requests, MarkFailed(r) PROVE Promise!Next
  BY <1>i, OutcomeRefines DEF MarkFailed, Finished
<1> QED
  BY <1>a, <1>b, <1>c, <1>d, <1>e, <1>f, <1>g, <1>h, <1>i, Steps, InsertRefines,
     AnswerRefines

LEMMA StartRefines == Init => Promise!Init
<1>1. Init => shown = [r \in Requests |-> FALSE]
  BY DEF Init, shown, Shown
<1> QED BY <1>1 DEF Init, Promise!Init, shown, Shown

(***************************************************************************)
(* Theorems.                                                               *)
(***************************************************************************)
\* Every variable keeps its type, and no transaction has more than seven locks.
THEOREM RequestTypes == Spec => []TypeOK
<1>1. Init => TypeOK
  BY Starts
<1> QED BY <1>1, Typed, PTL DEF Spec

\* Calls of clients exclude each other by their lock on users, what they have
\* read stays true, and only a request that is PROCESSING is worked on.
THEOREM RequestInvariance == Spec => []IInv
<1>1. Init => IInv
  BY Starts
<1> QED BY <1>1, RequestTypes, Kept, PTL DEF Spec

\* The status an answer was admitted for is still there when it commits: two
\* answers to one question are never both run.
THEOREM AnswersFind == Spec => []AnswerFindsQuestion
<1>1. IInv => AnswerFindsQuestion
  BY DEF IInv
<1> QED BY <1>1, RequestInvariance, PTL

\* A result is posted to the chat session at most once, however many reads race.
THEOREM PostsOnce == Spec => []PostedOnce
<1>1. IInv => PostedOnce
  BY DEF IInv
<1> QED BY <1>1, RequestInvariance, PTL

\* What stays PROCESSING with nobody at work has seen a crash or a failed mark, or was asked
\* for over an event stream or by a chat turn.
THEOREM StuckCause == Spec => []StuckHasCause
<1>1. IInv => StuckHasCause
  BY DEF IInv
<1> QED BY <1>1, RequestInvariance, PTL

\* Calls of clients never deadlock among themselves: while one has a lock, no
\* other has any.
THEOREM CallsDoNotDeadlock == Spec => []CallsNeverDeadlock
<1>1. ASSUME OneCall PROVE CallsNeverDeadlock
  <2>1. SUFFICES ASSUME NEW S \in SUBSET {t \in Calls : at[t] > 0}, Deadlocked(S)
                 PROVE  FALSE
    BY DEF CallsNeverDeadlock
  <2>2. PICK t \in S, u \in S : WaitsFor(t, u)
    BY <2>1 DEF Deadlocked
  <2>3. u # t
    BY <2>2 DEF WaitsFor, Blockers
  <2> QED BY <1>1, <2>1, <2>3 DEF OneCall
<1>2. IInv => CallsNeverDeadlock
  BY <1>1 DEF IInv
<1> QED BY <1>2, RequestInvariance, PTL

\* Whatever its transactions do, a request goes through the life it promises:
\* it asks once at most, and an outcome is final.
THEOREM RequestsKeepPromise == Spec => PromiseSpec
<1>1. Spec => Promise!Init /\ [][Promise!Next]_(Promise!vars)
  BY StartRefines, StepRefines, RequestTypes, RequestInvariance, PTL DEF Spec
<1> QED BY <1>1 DEF PromiseSpec, Promise!Spec
=============================================================================
