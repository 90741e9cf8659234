--------------------------- MODULE SummaryProofs ---------------------------
(***************************************************************************)
(* Proofs about SummaryCache: its inductive invariant, the freshness of    *)
(* what is handed out, and the refinement of SummaryPromise.               *)
(*                                                                         *)
(* There is one lemma for each action, with one step for each part of the  *)
(* invariant.  What carries it is LockInv: whoever is inside a transaction *)
(* on the cache is alone, so the tag a call compared and the status a task *)
(* looked at are still the row's when it writes.                           *)
(***************************************************************************)
EXTENDS SummaryCache, TLAPS

USE GetAssumption, BoundAssumption DEF Version, Statuses, Holders

\* Whoever is inside the table is alone there.
LEMMA Alone ==
  ASSUME LockInv, NEW g \in Gets
  PROVE  /\ holder = {} => get[g] # "held" /\ gen[g] # "run"
         /\ get[g] = "held" => \A k \in Gets :
              gen[k] # "run" /\ (get[k] = "held" => k = g)
         /\ gen[g] = "run" => \A k \in Gets :
              get[k] # "held" /\ (gen[k] = "run" => k = g)
<1>1. ASSUME NEW k \in Gets, NEW a, NEW b, {<<g, a>>} = {<<k, b>>}
      PROVE  k = g /\ a = b
  <2>1. <<g, a>> = <<k, b>>
    BY <1>1
  <2> QED BY <2>1
<1>2. "get" # "gen" /\ \A a : {<<g, a>>} # {}
  OBVIOUS
<1> QED BY <1>1, <1>2 DEF LockInv

\* It holds at the start, and every step keeps it.
LEMMA InitInv == Init => IInv
BY DEF Init, IInv, TypeOK, LockInv, TagIsHonest, LoadingIsBusy, CallInv, TaskInv

\* A call that queues for the table.
LEMMA OpenKeeps == ASSUME IInv, NEW g \in Gets, Open(g) PROVE IInv'
<1> USE DEF IInv
<1>1. TypeOK'
  BY DEF Open, rowVars, envVars, TypeOK
<1>2. LockInv'
  BY DEF Open, rowVars, envVars, TypeOK, LockInv
<1>3. TagIsHonest'
  BY DEF Open, rowVars, envVars, TypeOK, TagIsHonest, TaskInv, CallInv
<1>4. LoadingIsBusy'
  BY DEF Open, rowVars, envVars, TypeOK, LoadingIsBusy, Busy, Row, LockInv
<1>5. (\A k \in Gets : CallInv(k))'
  BY DEF Open, rowVars, envVars, TypeOK, CallInv, LockInv, Row, Changed, TagIsHonest
<1>6. (\A k \in Gets : TaskInv(k))'
  BY DEF Open, rowVars, envVars, TypeOK, TaskInv, LockInv, Row, CallInv
<1>7. (\A r \in Policies : tag[r] <= profile[r])'
  BY DEF Open, rowVars, envVars, TypeOK, CallInv
<1> QED BY <1>1, <1>2, <1>3, <1>4, <1>5, <1>6, <1>7

\* The call that gets it: its profile is the current one, no older than the tag.
LEMMA AcquireKeeps == ASSUME IInv, NEW g \in Gets, Acquire(g) PROVE IInv'
<1> USE DEF IInv
<1>1. TypeOK'
  BY DEF Acquire, rowVars, envVars, TypeOK
<1>2. LockInv'
  BY DEF Acquire, rowVars, envVars, TypeOK, LockInv
<1>3. TagIsHonest'
  BY DEF Acquire, rowVars, envVars, TypeOK, TagIsHonest, TaskInv, CallInv
<1>4. LoadingIsBusy'
  BY DEF Acquire, rowVars, envVars, TypeOK, LoadingIsBusy, Busy, Row, LockInv
<1>5. (\A k \in Gets : CallInv(k))'
  <2> SUFFICES ASSUME NEW k \in Gets PROVE CallInv(k)'
    OBVIOUS
  <2>1. CASE k = g
    BY <2>1, Alone DEF Acquire, rowVars, envVars, TypeOK, CallInv
  <2>2. CASE k # g
    BY <2>2, Alone DEF Acquire, rowVars, envVars, TypeOK, CallInv
  <2> QED BY <2>1, <2>2
<1>6. (\A k \in Gets : TaskInv(k))'
  BY DEF Acquire, rowVars, envVars, TypeOK, TaskInv, LockInv, Row, CallInv
<1>7. (\A r \in Policies : tag[r] <= profile[r])'
  BY DEF Acquire, rowVars, envVars, TypeOK, CallInv
<1> QED BY <1>1, <1>2, <1>3, <1>4, <1>5, <1>6, <1>7

\* The holder of the table makes the row its own; nobody else is inside.
LEMMA StartKeeps == ASSUME IInv, NEW g \in Gets, Start(g) PROVE IInv'
<1> USE DEF IInv
<1>1. TypeOK'
  BY DEF Start, End, envVars, TypeOK
<1>2. LockInv'
  BY DEF Start, End, envVars, TypeOK, LockInv
<1>3. TagIsHonest'
  BY DEF Start, End, envVars, TypeOK, TagIsHonest, TaskInv, CallInv
<1>4. LoadingIsBusy'
  BY DEF Start, End, envVars, TypeOK, LoadingIsBusy, Busy, Row, LockInv
<1>5. (\A k \in Gets : CallInv(k))'
  <2> SUFFICES ASSUME NEW k \in Gets PROVE CallInv(k)'
    OBVIOUS
  <2>1. CASE k = g
    BY <2>1, Alone DEF Start, End, envVars, TypeOK, CallInv
  <2>2. CASE k # g
    BY <2>2, Alone DEF Start, End, envVars, TypeOK, CallInv
  <2> QED BY <2>1, <2>2
<1>6. (\A k \in Gets : TaskInv(k))'
  <2> SUFFICES ASSUME NEW k \in Gets PROVE TaskInv(k)'
    OBVIOUS
  <2>1. CASE k = g
    BY <2>1, Alone DEF Start, End, envVars, TypeOK, TaskInv, Row
  <2>2. CASE k # g
    BY <2>2, Alone DEF Start, End, envVars, TypeOK, TaskInv, Row
  <2> QED BY <2>1, <2>2
<1>7. (\A r \in Policies : tag[r] <= profile[r])'
  BY DEF Start, End, envVars, TypeOK, CallInv
<1> QED BY <1>1, <1>2, <1>3, <1>4, <1>5, <1>6, <1>7

\* A row served as completed has the tag its reader saw.
LEMMA ServeKeeps == ASSUME IInv, NEW g \in Gets, Serve(g) PROVE IInv'
<1> USE DEF IInv
<1>1. TypeOK'
  BY DEF Serve, End, rowVars, envVars, TypeOK
<1>2. LockInv'
  BY DEF Serve, End, rowVars, envVars, TypeOK, LockInv
<1>3. TagIsHonest'
  BY DEF Serve, End, rowVars, envVars, TypeOK, TagIsHonest, TaskInv, CallInv
<1>4. LoadingIsBusy'
  BY DEF Serve, End, rowVars, envVars, TypeOK, LoadingIsBusy, Busy, Row, LockInv
<1>5. (\A k \in Gets : CallInv(k))'
  BY DEF Serve, End, rowVars, envVars, TypeOK, CallInv, LockInv, Row, Changed, TagIsHonest
<1>6. (\A k \in Gets : TaskInv(k))'
  BY DEF Serve, End, rowVars, envVars, TypeOK, TaskInv, LockInv, Row, CallInv
<1>7. (\A r \in Policies : tag[r] <= profile[r])'
  BY DEF Serve, End, rowVars, envVars, TypeOK, CallInv
<1> QED BY <1>1, <1>2, <1>3, <1>4, <1>5, <1>6, <1>7

\* A task that goes on finds a row to settle, a profile no older than its tag.
LEMMA GenerateKeeps == ASSUME IInv, NEW g \in Gets, Generate(g) PROVE IInv'
<1> USE DEF IInv
<1>1. TypeOK'
  BY DEF Generate, Stop, callVars, rowVars, envVars, TypeOK
<1>2. LockInv'
  BY DEF Generate, Stop, callVars, rowVars, envVars, TypeOK, LockInv
<1>3. TagIsHonest'
  BY DEF Generate, Stop, callVars, rowVars, envVars, TypeOK, TagIsHonest, TaskInv, CallInv
<1>4. LoadingIsBusy'
  BY DEF Generate, Stop, callVars, rowVars, envVars, TypeOK, LoadingIsBusy, Busy, Row, LockInv
<1>5. (\A k \in Gets : CallInv(k))'
  BY DEF Generate, Stop, callVars, rowVars, envVars, TypeOK, CallInv, LockInv, Row, Changed, TagIsHonest
<1>6. (\A k \in Gets : TaskInv(k))'
  BY DEF Generate, Stop, callVars, rowVars, envVars, TypeOK, TaskInv, LockInv, Row, CallInv
<1>7. (\A r \in Policies : tag[r] <= profile[r])'
  BY DEF Generate, Stop, callVars, rowVars, envVars, TypeOK, CallInv
<1> QED BY <1>1, <1>2, <1>3, <1>4, <1>5, <1>6, <1>7

\* The task that runs settles the row with what it read.
LEMMA CompleteKeeps == ASSUME IInv, NEW g \in Gets, Complete(g) PROVE IInv'
<1> USE DEF IInv
<1>1. TypeOK'
  BY DEF Complete, Stop, callVars, envVars, TypeOK
<1>2. LockInv'
  BY DEF Complete, Stop, callVars, envVars, TypeOK, LockInv
<1>3. TagIsHonest'
  BY DEF Complete, Stop, callVars, envVars, TypeOK, TagIsHonest, TaskInv, CallInv
<1>4. LoadingIsBusy'
  BY DEF Complete, Stop, callVars, envVars, TypeOK, LoadingIsBusy, Busy, Row, LockInv
<1>5. (\A k \in Gets : CallInv(k))'
  BY DEF Complete, Stop, callVars, envVars, TypeOK, CallInv, LockInv, Row, Changed, TagIsHonest
<1>6. (\A k \in Gets : TaskInv(k))'
  <2> SUFFICES ASSUME NEW k \in Gets PROVE TaskInv(k)'
    OBVIOUS
  <2>1. CASE k = g
    BY <2>1, Alone DEF Complete, Stop, callVars, envVars, TypeOK, TaskInv, Row
  <2>2. CASE k # g
    BY <2>2, Alone DEF Complete, Stop, callVars, envVars, TypeOK, TaskInv, Row
  <2> QED BY <2>1, <2>2
<1>7. (\A r \in Policies : tag[r] <= profile[r])'
  BY DEF Complete, Stop, callVars, envVars, TypeOK, CallInv
<1> QED BY <1>1, <1>2, <1>3, <1>4, <1>5, <1>6, <1>7

\* The task that runs gives the row up.
LEMMA FailKeeps == ASSUME IInv, NEW g \in Gets, Fail(g) PROVE IInv'
<1> USE DEF IInv
<1>1. TypeOK'
  BY DEF Fail, Stop, callVars, envVars, TypeOK
<1>2. LockInv'
  BY DEF Fail, Stop, callVars, envVars, TypeOK, LockInv
<1>3. TagIsHonest'
  BY DEF Fail, Stop, callVars, envVars, TypeOK, TagIsHonest, TaskInv, CallInv
<1>4. LoadingIsBusy'
  BY DEF Fail, Stop, callVars, envVars, TypeOK, LoadingIsBusy, Busy, Row, LockInv
<1>5. (\A k \in Gets : CallInv(k))'
  BY DEF Fail, Stop, callVars, envVars, TypeOK, CallInv, LockInv, Row, Changed, TagIsHonest
<1>6. (\A k \in Gets : TaskInv(k))'
  <2> SUFFICES ASSUME NEW k \in Gets PROVE TaskInv(k)'
    OBVIOUS
  <2>1. CASE k = g
    BY <2>1, Alone DEF Fail, Stop, callVars, envVars, TypeOK, TaskInv, Row
  <2>2. CASE k # g
    BY <2>2, Alone DEF Fail, Stop, callVars, envVars, TypeOK, TaskInv, Row
  <2> QED BY <2>1, <2>2
<1>7. (\A r \in Policies : tag[r] <= profile[r])'
  BY DEF Fail, Stop, callVars, envVars, TypeOK, CallInv
<1> QED BY <1>1, <1>2, <1>3, <1>4, <1>5, <1>6, <1>7

\* A failing call.
LEMMA FaultGetKeeps == ASSUME IInv, NEW g \in Gets, FaultGet(g) PROVE IInv'
<1> USE DEF IInv
<1>1. TypeOK'
  BY DEF FaultGet, Fault, End, rowVars, envVars, TypeOK
<1>2. LockInv'
  BY DEF FaultGet, Fault, End, rowVars, envVars, TypeOK, LockInv
<1>3. TagIsHonest'
  BY DEF FaultGet, Fault, End, rowVars, envVars, TypeOK, TagIsHonest, TaskInv, CallInv
<1>4. LoadingIsBusy'
  BY DEF FaultGet, Fault, End, rowVars, envVars, TypeOK, LoadingIsBusy, Busy, Row, LockInv
<1>5. (\A k \in Gets : CallInv(k))'
  BY DEF FaultGet, Fault, End, rowVars, envVars, TypeOK, CallInv, LockInv, Row, Changed, TagIsHonest
<1>6. (\A k \in Gets : TaskInv(k))'
  BY DEF FaultGet, Fault, End, rowVars, envVars, TypeOK, TaskInv, LockInv, Row, CallInv
<1>7. (\A r \in Policies : tag[r] <= profile[r])'
  BY DEF FaultGet, Fault, End, rowVars, envVars, TypeOK, CallInv
<1> QED BY <1>1, <1>2, <1>3, <1>4, <1>5, <1>6, <1>7

\* A failing task.
LEMMA FaultGenerateKeeps == ASSUME IInv, NEW g \in Gets, FaultGenerate(g) PROVE IInv'
<1> USE DEF IInv
<1>1. TypeOK'
  BY DEF FaultGenerate, Fault, Stop, callVars, rowVars, envVars, TypeOK
<1>2. LockInv'
  BY DEF FaultGenerate, Fault, Stop, callVars, rowVars, envVars, TypeOK, LockInv
<1>3. TagIsHonest'
  BY DEF FaultGenerate, Fault, Stop, callVars, rowVars, envVars, TypeOK, TagIsHonest, TaskInv, CallInv
<1>4. LoadingIsBusy'
  BY DEF FaultGenerate, Fault, Stop, callVars, rowVars, envVars, TypeOK, LoadingIsBusy, Busy, Row, LockInv
<1>5. (\A k \in Gets : CallInv(k))'
  BY DEF FaultGenerate, Fault, Stop, callVars, rowVars, envVars, TypeOK, CallInv, LockInv, Row, Changed, TagIsHonest
<1>6. (\A k \in Gets : TaskInv(k))'
  BY DEF FaultGenerate, Fault, Stop, callVars, rowVars, envVars, TypeOK, TaskInv, LockInv, Row, CallInv
<1>7. (\A r \in Policies : tag[r] <= profile[r])'
  BY DEF FaultGenerate, Fault, Stop, callVars, rowVars, envVars, TypeOK, CallInv
<1> QED BY <1>1, <1>2, <1>3, <1>4, <1>5, <1>6, <1>7

\* Profiles only get newer.
LEMMA ChangeProfileKeeps == ASSUME IInv, NEW p \in Policies, ChangeProfile(p) PROVE IInv'
<1> USE DEF IInv
<1>1. TypeOK'
  BY DEF ChangeProfile, callVars, rowVars, envVars, TypeOK
<1>2. LockInv'
  BY DEF ChangeProfile, callVars, rowVars, envVars, TypeOK, LockInv
<1>3. TagIsHonest'
  BY DEF ChangeProfile, callVars, rowVars, envVars, TypeOK, TagIsHonest, TaskInv, CallInv
<1>4. LoadingIsBusy'
  BY DEF ChangeProfile, callVars, rowVars, envVars, TypeOK, LoadingIsBusy, Busy, Row, LockInv
<1>5. (\A k \in Gets : CallInv(k))'
  BY DEF ChangeProfile, callVars, rowVars, envVars, TypeOK, CallInv, LockInv, Row, Changed, TagIsHonest
<1>6. (\A k \in Gets : TaskInv(k))'
  BY DEF ChangeProfile, callVars, rowVars, envVars, TypeOK, TaskInv, LockInv, Row, CallInv
<1>7. (\A r \in Policies : tag[r] <= profile[r])'
  BY DEF ChangeProfile, callVars, rowVars, envVars, TypeOK, CallInv
<1> QED BY <1>1, <1>2, <1>3, <1>4, <1>5, <1>6, <1>7

\* Time passes.
LEMMA AgeKeeps == ASSUME IInv, NEW p \in Policies, Age(p) PROVE IInv'
<1> USE DEF IInv
<1>1. TypeOK'
  BY DEF Age, callVars, envVars, TypeOK
<1>2. LockInv'
  BY DEF Age, callVars, envVars, TypeOK, LockInv
<1>3. TagIsHonest'
  BY DEF Age, callVars, envVars, TypeOK, TagIsHonest, TaskInv, CallInv
<1>4. LoadingIsBusy'
  BY DEF Age, callVars, envVars, TypeOK, LoadingIsBusy, Busy, Row, LockInv
<1>5. (\A k \in Gets : CallInv(k))'
  BY DEF Age, callVars, envVars, TypeOK, CallInv, LockInv, Row, Changed, TagIsHonest
<1>6. (\A k \in Gets : TaskInv(k))'
  BY DEF Age, callVars, envVars, TypeOK, TaskInv, LockInv, Row, CallInv
<1>7. (\A r \in Policies : tag[r] <= profile[r])'
  BY DEF Age, callVars, envVars, TypeOK, CallInv
<1> QED BY <1>1, <1>2, <1>3, <1>4, <1>5, <1>6, <1>7

\* Nothing is inside the table after a crash.
LEMMA CrashKeeps == ASSUME IInv, Crash PROVE IInv'
<1> USE DEF IInv
<1>1. TypeOK'
  <2>1. get' \in [Gets -> {"idle", "queued", "held", "ended"}]
    BY DEF Crash
  <2>2. gen' \in [Gets -> {"none", "queued", "run", "ended"}]
    BY DEF Crash
  <2>3. holder' \in SUBSET Holders /\ up' \in BOOLEAN
    BY DEF Crash
  <2>4. crashes' \in Nat
    BY DEF Crash, TypeOK
  <2>5. UNCHANGED <<seen, told, served, material, rowVars, profile, faults>>
    BY DEF Crash
  <2> QED BY <2>1, <2>2, <2>3, <2>4, <2>5 DEF rowVars, TypeOK
<1>2. LockInv'
  BY DEF Crash, rowVars, TypeOK, LockInv
<1>3. TagIsHonest'
  BY DEF Crash, rowVars, TypeOK, TagIsHonest, TaskInv, CallInv
<1>4. LoadingIsBusy'
  BY DEF Crash, rowVars, TypeOK, LoadingIsBusy, Busy, Row, LockInv
<1>5. (\A k \in Gets : CallInv(k))'
  BY DEF Crash, rowVars, TypeOK, CallInv, LockInv, Row, Changed, TagIsHonest
<1>6. (\A k \in Gets : TaskInv(k))'
  BY DEF Crash, rowVars, TypeOK, TaskInv, LockInv, Row, CallInv
<1>7. (\A r \in Policies : tag[r] <= profile[r])'
  BY DEF Crash, rowVars, TypeOK, CallInv
<1> QED BY <1>1, <1>2, <1>3, <1>4, <1>5, <1>6, <1>7

\* A restart changes nothing else.
LEMMA RestartKeeps == ASSUME IInv, Restart PROVE IInv'
<1> USE DEF IInv
<1>1. TypeOK'
  BY DEF Restart, callVars, rowVars, TypeOK
<1>2. LockInv'
  BY DEF Restart, callVars, rowVars, TypeOK, LockInv
<1>3. TagIsHonest'
  BY DEF Restart, callVars, rowVars, TypeOK, TagIsHonest, TaskInv, CallInv
<1>4. LoadingIsBusy'
  BY DEF Restart, callVars, rowVars, TypeOK, LoadingIsBusy, Busy, Row, LockInv
<1>5. (\A k \in Gets : CallInv(k))'
  BY DEF Restart, callVars, rowVars, TypeOK, CallInv, LockInv, Row, Changed, TagIsHonest
<1>6. (\A k \in Gets : TaskInv(k))'
  BY DEF Restart, callVars, rowVars, TypeOK, TaskInv, LockInv, Row, CallInv
<1>7. (\A r \in Policies : tag[r] <= profile[r])'
  BY DEF Restart, callVars, rowVars, TypeOK, CallInv
<1> QED BY <1>1, <1>2, <1>3, <1>4, <1>5, <1>6, <1>7

-----------------------------------------------------------------------------
\* Every step of the specification keeps the invariant.
LEMMA NextInv == IInv /\ [Next]_vars => IInv'
<1> SUFFICES ASSUME IInv, [Next]_vars PROVE IInv'
  OBVIOUS
<1>1. ASSUME NEW g \in Gets, Open(g) \/ Call(g) PROVE IInv'
  BY <1>1, OpenKeeps, AcquireKeeps, StartKeeps, ServeKeeps DEF Call
<1>2. ASSUME NEW g \in Gets, Task(g) PROVE IInv'
  BY <1>2, GenerateKeeps, CompleteKeeps, FailKeeps DEF Task
<1>3. ASSUME NEW g \in Gets, FaultGet(g) \/ FaultGenerate(g) PROVE IInv'
  BY <1>3, FaultGetKeeps, FaultGenerateKeeps
<1>4. ASSUME NEW p \in Policies, ChangeProfile(p) \/ Age(p) PROVE IInv'
  BY <1>4, ChangeProfileKeeps, AgeKeeps
<1>5. CASE Crash \/ Restart
  BY <1>5, CrashKeeps, RestartKeeps
<1>6. CASE UNCHANGED vars
  BY <1>6 DEF vars, IInv, TypeOK, LockInv, TagIsHonest, LoadingIsBusy, Busy,
              CallInv, TaskInv, Row
<1> QED BY <1>1, <1>2, <1>3, <1>4, <1>5, <1>6 DEF Next

\* Every reachable state satisfies the invariant.
THEOREM SummaryInvariance == Spec => []IInv
BY InitInv, NextInv, PTL DEF Spec

\* Every variable keeps its type.
THEOREM SummaryTypes == Spec => []TypeOK
<1>1. IInv => TypeOK
  BY DEF IInv
<1> QED BY <1>1, SummaryInvariance, PTL

\* No call hands out a summary made from a profile older than the one it saw.
THEOREM SummaryFresh == Spec => []DoneIsFresh
<1>1. IInv => DoneIsFresh
  BY DEF IInv, CallInv, DoneIsFresh
<1> QED BY <1>1, SummaryInvariance, PTL

\* A completed row's tag is no newer than what its summary was made from.
THEOREM SummaryTagged == Spec => []TagIsHonest
<1>1. IInv => TagIsHonest
  BY DEF IInv
<1> QED BY <1>1, SummaryInvariance, PTL

\* Without crashes and database errors a PROCESSING row has a task.
THEOREM SummaryBusy == Spec => []LoadingIsBusy
<1>1. IInv => LoadingIsBusy
  BY DEF IInv
<1> QED BY <1>1, SummaryInvariance, PTL

\* Nobody throws an up-to-date summary away: a call that could restart the row
\* saw a tag no newer than the profile, a task that could settle it found it
\* PROCESSING.
THEOREM SummaryKept == Spec => FreshIsKept
<1> DEFINE Kept == \A p \in Policies :
      status[p] = "COMPLETED" /\ tag[p] = profile[p]
        => status'[p] = "COMPLETED" /\ source'[p] = source[p]
<1>1. IInv /\ [Next]_vars => [Kept]_vars
  <2> SUFFICES ASSUME IInv, Next, NEW p \in Policies,
                      status[p] = "COMPLETED", tag[p] = profile[p]
               PROVE  status'[p] = "COMPLETED" /\ source'[p] = source[p]
    OBVIOUS
  <2>1. ASSUME NEW g \in Gets, Start(g) PROVE PolicyOf[g] # p
    BY <2>1 DEF Start, IInv, TypeOK, CallInv, Row, Abandoned, Changed
  <2>2. ASSUME NEW g \in Gets, gen[g] = "run" PROVE PolicyOf[g] # p
    BY <2>2 DEF IInv, TaskInv, Row
  <2>3. ASSUME NEW g \in Gets, Start(g)
        PROVE  status'[p] = status[p] /\ source'[p] = source[p]
    BY <2>1, <2>3 DEF Start, IInv, TypeOK
  <2>4. ASSUME NEW g \in Gets, Complete(g) \/ Fail(g)
        PROVE  status'[p] = status[p] /\ source'[p] = source[p]
    BY <2>2, <2>4 DEF Complete, Fail, IInv, TypeOK
  <2>5. ASSUME NEW g \in Gets,
               \/ Open(g) \/ Acquire(g) \/ Serve(g) \/ Generate(g)
               \/ FaultGet(g) \/ FaultGenerate(g)
        PROVE  UNCHANGED <<status, source>>
    BY <2>5 DEF Open, Acquire, Serve, Generate, FaultGet, FaultGenerate, rowVars
  <2>6. ASSUME \/ \E r \in Policies : ChangeProfile(r) \/ Age(r)
               \/ Crash \/ Restart
        PROVE  UNCHANGED <<status, source>>
    BY <2>6 DEF ChangeProfile, Age, Crash, Restart, rowVars
  <2> QED BY <2>3, <2>4, <2>5, <2>6 DEF Next, Call, Task
<1> QED BY <1>1, SummaryInvariance, PTL DEF Spec, FreshIsKept

-----------------------------------------------------------------------------
\* The cache implements SummaryPromise: the calls and tasks, with their lock,
\* their failures and crashes, fill and empty cells as if each of their
\* transactions were one step.
THEOREM SummaryImplements == Spec => PromiseSpec
<1>1. Init => Promise!Init
  BY DEF Init, Promise!Init
<1>2. IInv /\ [Next]_vars => [Promise!Next]_(Promise!vars)
  <2> SUFFICES ASSUME IInv, [Next]_vars
               PROVE  Promise!Next \/ UNCHANGED Promise!vars
    OBVIOUS
  <2>1. ASSUME NEW g \in Gets, Start(g) PROVE Promise!Next
    <3> DEFINE p == PolicyOf[g]
    <3>1. p \in Policies /\ seen[g] \in 0..profile[p]
      BY DEF IInv, TypeOK, CallInv
    <3>2. Promise!Begin(p, seen[g])
      BY <2>1 DEF Start, IInv, TypeOK, CallInv, Row, Abandoned, Changed, Promise!Begin
    <3> QED BY <3>1, <3>2 DEF Promise!Next
  <2>2. ASSUME NEW g \in Gets, Complete(g) PROVE Promise!Next
    <3> DEFINE p == PolicyOf[g]
    <3>1. p \in Policies /\ material[g] \in 0..profile[p]
      BY <2>2 DEF Complete, IInv, TypeOK, TaskInv
    <3>2. Promise!Fill(p, material[g])
      BY <2>2 DEF Complete, IInv, TypeOK, TaskInv, Row, Promise!Fill
    <3> QED BY <3>1, <3>2 DEF Promise!Next
  <2>3. ASSUME NEW g \in Gets, Fail(g) PROVE Promise!Next
    <3>1. PolicyOf[g] \in Policies /\ Promise!GiveUp(PolicyOf[g])
      BY <2>3 DEF Fail, IInv, TaskInv, Row, Promise!GiveUp
    <3> QED BY <3>1 DEF Promise!Next
  <2>4. ASSUME NEW p \in Policies, ChangeProfile(p) PROVE Promise!Next
    <3>1. Promise!Change(p)
      BY <2>4 DEF ChangeProfile, rowVars, Promise!Change
    <3> QED BY <3>1 DEF Promise!Next
  <2>5. ASSUME NEW g \in Gets,
               \/ Open(g) \/ Acquire(g) \/ Serve(g) \/ Generate(g)
               \/ FaultGet(g) \/ FaultGenerate(g)
        PROVE  UNCHANGED Promise!vars
    BY <2>5 DEF Open, Acquire, Serve, Generate, FaultGet, FaultGenerate, rowVars,
                Promise!vars
  <2>6. ASSUME (\E p \in Policies : Age(p)) \/ Crash \/ Restart \/ UNCHANGED vars
        PROVE  UNCHANGED Promise!vars
    BY <2>6 DEF Age, Crash, Restart, vars, rowVars, Promise!vars
  <2> QED BY <2>1, <2>2, <2>3, <2>4, <2>5, <2>6 DEF Next, Call, Task
<1> QED BY <1>1, <1>2, SummaryInvariance, PTL DEF Spec, PromiseSpec, Promise!Spec
=============================================================================
