---------------------------- MODULE SummaryCache ----------------------------
(***************************************************************************)
(* The cache of policy summaries: GET /policies/{slug}/summary, which      *)
(* serves, creates or restarts a summary, and the background task that     *)
(* generates it (PolicySummaryService, PolicySummaryRepository).           *)
(*                                                                         *)
(* Every transaction on the cache begins with ensure_schema.  Its ALTER    *)
(* TABLE takes an ACCESS EXCLUSIVE lock, kept until the transaction ends:  *)
(* a generation holds the table, for all policies, while it waits for the  *)
(* language model.                                                         *)
(*                                                                         *)
(* A policy's condition profile is its version (updated_at); 0 is none.    *)
(* The task a GET starts is indexed by that GET.                           *)
(***************************************************************************)
EXTENDS Naturals

CONSTANTS Gets,        \* calls of get_policy_summary
          Policies,
          PolicyOf,    \* the policy a call asks for
          MaxVersion,  \* bound: changes of a condition profile
          MaxFaults,   \* bound: failing database calls
          MaxCrashes   \* bound: crashes of the server process

ASSUME GetAssumption == PolicyOf \in [Gets -> Policies]

ASSUME BoundAssumption ==
  MaxVersion \in Nat /\ MaxFaults \in Nat /\ MaxCrashes \in Nat

VARIABLES
  get, seen, told, served,  \* a call, the profile it read, its response
  gen, material,            \* its task, and the profile that generates from
  status, tag, source, old, \* the cache row; source: what summary is made of
  profile,                  \* policy_condition_profile.updated_at
  holder,                   \* the lock on policy_summary_cache
  up, crashes, faults

callVars == <<get, seen, told, served>>
rowVars  == <<status, tag, source, old>>
envVars  == <<up, crashes>>
vars == <<get, seen, told, served, gen, material, status, tag, source, old,
          profile, holder, up, crashes, faults>>

Version == 0..MaxVersion
Statuses == {"none", "PROCESSING", "COMPLETED", "FAILED"}
Holders == Gets \X {"get", "gen"}

TypeOK ==
  /\ get \in [Gets -> {"idle", "queued", "held", "ended"}]
  /\ seen \in [Gets -> Version] /\ served \in [Gets -> Version]
  /\ told \in [Gets -> {"none", "loading", "done", "error"}]
  /\ gen \in [Gets -> {"none", "queued", "run", "ended"}]
  /\ material \in [Gets -> Version]
  /\ status \in [Policies -> Statuses] /\ old \in [Policies -> BOOLEAN]
  /\ tag \in [Policies -> Version] /\ source \in [Policies -> Version]
  /\ profile \in [Policies -> Version] /\ holder \in SUBSET Holders
  /\ up \in BOOLEAN /\ crashes \in Nat /\ faults \in Nat

Init ==
  /\ get = [g \in Gets |-> "idle"] /\ seen = [g \in Gets |-> 0]
  /\ told = [g \in Gets |-> "none"] /\ served = [g \in Gets |-> 0]
  /\ gen = [g \in Gets |-> "none"] /\ material = [g \in Gets |-> 0]
  /\ status = [p \in Policies |-> "none"] /\ old = [p \in Policies |-> FALSE]
  /\ tag = [p \in Policies |-> 0] /\ source = [p \in Policies |-> 0]
  /\ profile \in [Policies -> Version] /\ holder = {}
  /\ up = TRUE /\ crashes = 0 /\ faults = 0

Row(g) == status[PolicyOf[g]]

\* Mutant: whatever is ten minutes old is made again.
AbandonedByAge(g) == old[PolicyOf[g]]

\* Mutant: the age is never reached, as with a clock in another time zone.
AbandonedNever(g) == FALSE

\* _should_restart_processing, _profile_changed
Abandoned(g) == Row(g) = "PROCESSING" /\ old[PolicyOf[g]]
Changed(g)   == Row(g) # "none" /\ tag[PolicyOf[g]] # seen[g]

End(g, answer) ==
  /\ get' = [get EXCEPT ![g] = "ended"] /\ told' = [told EXCEPT ![g] = answer]
  /\ holder' = holder \ {<<g, "get">>}

Stop(g) == gen' = [gen EXCEPT ![g] = "ended"] /\ holder' = holder \ {<<g, "gen">>}

Fault == faults < MaxFaults /\ faults' = faults + 1

-----------------------------------------------------------------------------
(* The call. *)

\* find_policy_detail finds the policy; ensure_schema waits for the table.
Open(g) ==
  /\ up /\ get[g] = "idle" /\ get' = [get EXCEPT ![g] = "queued"]
  /\ UNCHANGED <<seen, told, served, gen, material, rowVars, profile, holder,
                 envVars, faults>>

\* Mutant: the schema is not touched, and nothing is locked.
AcquireUnlocked(g) ==
  /\ up /\ get[g] = "queued"
  /\ holder' = holder \cup {<<g, "get">>} /\ get' = [get EXCEPT ![g] = "held"]
  /\ seen' = [seen EXCEPT ![g] = profile[PolicyOf[g]]]
  /\ UNCHANGED <<told, served, gen, material, rowVars, profile, envVars, faults>>

\* The table is locked; then the condition profile's version is read.
Acquire(g) ==
  /\ up /\ get[g] = "queued" /\ holder = {}
  /\ holder' = {<<g, "get">>} /\ get' = [get EXCEPT ![g] = "held"]
  /\ seen' = [seen EXCEPT ![g] = profile[PolicyOf[g]]]
  /\ UNCHANGED <<told, served, gen, material, rowVars, profile, envVars, faults>>

\* Mutant: a restart is not reported to the caller.
StartForgets(g) ==
  /\ up /\ get[g] = "held"
  /\ Row(g) = "none" \/ Abandoned(g) \/ Changed(g)
  /\ status' = [status EXCEPT ![PolicyOf[g]] = "PROCESSING"]
  /\ tag' = [tag EXCEPT ![PolicyOf[g]] = seen[g]]
  /\ source' = [source EXCEPT ![PolicyOf[g]] = 0]
  /\ old' = [old EXCEPT ![PolicyOf[g]] = FALSE]
  /\ gen' = [gen EXCEPT ![g] = IF Row(g) = "none" THEN "queued" ELSE @]
  /\ End(g, "loading")
  /\ UNCHANGED <<seen, served, material, profile, envVars, faults>>

\* INSERT ... ON CONFLICT DO NOTHING, or reset_processing: the row is as new.
\* The commit comes before the background task is added to the response.
Start(g) ==
  /\ up /\ get[g] = "held"
  /\ Row(g) = "none" \/ Abandoned(g) \/ Changed(g)
  /\ status' = [status EXCEPT ![PolicyOf[g]] = "PROCESSING"]
  /\ tag' = [tag EXCEPT ![PolicyOf[g]] = seen[g]]
  /\ source' = [source EXCEPT ![PolicyOf[g]] = 0]
  /\ old' = [old EXCEPT ![PolicyOf[g]] = FALSE]
  /\ gen' = [gen EXCEPT ![g] = "queued"] /\ End(g, "loading")
  /\ UNCHANGED <<seen, served, material, profile, envVars, faults>>

\* Mutant: the profile is not compared.
ServeUnchecked(g) ==
  /\ up /\ get[g] = "held" /\ ~Abandoned(g)
  /\ \/ Row(g) = "PROCESSING" /\ End(g, "loading")
     \/ Row(g) = "COMPLETED"  /\ End(g, "done")
     \/ Row(g) = "FAILED"     /\ End(g, "error")
  /\ served' = [served EXCEPT ![g] = source[PolicyOf[g]]]
  /\ UNCHANGED <<seen, gen, material, rowVars, profile, envVars, faults>>

\* The row is answered as it is.  FAILED is not tried again.
Serve(g) ==
  /\ up /\ get[g] = "held" /\ ~Abandoned(g) /\ ~Changed(g)
  /\ \/ Row(g) = "PROCESSING" /\ End(g, "loading")
     \/ Row(g) = "COMPLETED"  /\ End(g, "done")
     \/ Row(g) = "FAILED"     /\ End(g, "error")
  /\ served' = [served EXCEPT ![g] = source[PolicyOf[g]]]
  /\ UNCHANGED <<seen, gen, material, rowVars, profile, envVars, faults>>

-----------------------------------------------------------------------------
(* The task. *)

\* Mutant: the status is not looked at.
GenerateBlind(g) ==
  /\ up /\ gen[g] = "queued" /\ holder = {}
  /\ gen' = [gen EXCEPT ![g] = "run"] /\ holder' = {<<g, "gen">>}
  /\ material' = [material EXCEPT ![g] = profile[PolicyOf[g]]]
  /\ UNCHANGED <<callVars, rowVars, profile, envVars, faults>>

\* find_generation_context, behind the table's lock, reads the row and the
\* profile as they are now.  A row somebody else settled is left alone.
Generate(g) ==
  /\ up /\ gen[g] = "queued" /\ holder = {}
  /\ IF Row(g) = "PROCESSING"
     THEN /\ gen' = [gen EXCEPT ![g] = "run"] /\ holder' = {<<g, "gen">>}
          /\ material' = [material EXCEPT ![g] = profile[PolicyOf[g]]]
     ELSE Stop(g) /\ UNCHANGED material
  /\ UNCHANGED <<callVars, rowVars, profile, envVars, faults>>

\* mark_completed and the commit
Complete(g) ==
  /\ up /\ gen[g] = "run" /\ Stop(g)
  /\ status' = [status EXCEPT ![PolicyOf[g]] = "COMPLETED"]
  /\ source' = [source EXCEPT ![PolicyOf[g]] = material[g]]
  /\ UNCHANGED <<callVars, material, tag, old, profile, envVars, faults>>

\* Mutant: the status of the response is stored.
FailAsError(g) ==
  /\ up /\ gen[g] = "run" /\ Stop(g)
  /\ status' = [status EXCEPT ![PolicyOf[g]] = "error"]
  /\ UNCHANGED <<callVars, material, tag, source, old, profile, envVars, faults>>

\* Mutant: a failure leaves the transaction open.
FailHolds(g) ==
  /\ up /\ gen[g] = "run" /\ gen' = [gen EXCEPT ![g] = "ended"]
  /\ status' = [status EXCEPT ![PolicyOf[g]] = "FAILED"]
  /\ UNCHANGED <<callVars, material, tag, source, old, profile, holder, envVars,
                 faults>>

\* The graph raises or runs into the 60 seconds: mark_failed and the commit.
Fail(g) ==
  /\ up /\ gen[g] = "run" /\ Stop(g)
  /\ status' = [status EXCEPT ![PolicyOf[g]] = "FAILED"]
  /\ UNCHANGED <<callVars, material, tag, source, old, profile, envVars, faults>>

-----------------------------------------------------------------------------
(* The environment. *)

\* upsert_profile, which also creates it
ChangeProfile(p) ==
  /\ profile[p] < MaxVersion /\ profile' = [profile EXCEPT ![p] = @ + 1]
  /\ UNCHANGED <<callVars, gen, material, rowVars, holder, envVars, faults>>

\* POLICY_SUMMARY_STALE_AFTER_MINUTES pass.
Age(p) ==
  /\ status[p] = "PROCESSING" /\ ~old[p] /\ old' = [old EXCEPT ![p] = TRUE]
  /\ UNCHANGED <<callVars, gen, material, status, tag, source, profile, holder,
                 envVars, faults>>

\* A database call of the request fails: rolled back, an error response.
FaultGet(g) ==
  /\ up /\ Fault /\ get[g] \in {"queued", "held"} /\ End(g, "error")
  /\ UNCHANGED <<seen, served, gen, material, rowVars, profile, envVars>>

\* A database call of the task fails: so does mark_failed, in the same broken
\* transaction; it is rolled back and the row is left as it was.
FaultGenerate(g) ==
  /\ up /\ Fault /\ gen[g] \in {"queued", "run"} /\ Stop(g)
  /\ UNCHANGED <<callVars, material, rowVars, profile, envVars>>

\* Open transactions are rolled back, tasks that were to be run are forgotten.
Crash ==
  /\ up /\ crashes < MaxCrashes /\ up' = FALSE /\ crashes' = crashes + 1
  /\ get' = [g \in Gets |-> IF get[g] = "idle" THEN "idle" ELSE "ended"]
  /\ gen' = [g \in Gets |-> IF gen[g] = "none" THEN "none" ELSE "ended"]
  /\ holder' = {}
  /\ UNCHANGED <<seen, told, served, material, rowVars, profile, faults>>

Restart ==
  /\ ~up /\ up' = TRUE
  /\ UNCHANGED <<callVars, gen, material, rowVars, profile, holder, crashes,
                 faults>>

Call(g) == Acquire(g) \/ Start(g) \/ Serve(g)
Task(g) == Generate(g) \/ Complete(g) \/ Fail(g)

Next ==
  \/ \E g \in Gets : \/ Open(g) \/ Call(g) \/ Task(g)
                     \/ FaultGet(g) \/ FaultGenerate(g)
  \/ \E p \in Policies : ChangeProfile(p) \/ Age(p)
  \/ Crash \/ Restart

Spec == Init /\ [][Next]_vars

(* The lock is handed out in the order it is asked for, the graph is given   *)
(* 60 seconds, and a dead server is started again.  Nobody has to call.      *)
Fairness ==
  /\ \A g \in Gets : WF_vars(Call(g)) /\ WF_vars(Task(g))
  /\ WF_vars(Restart)

FairSpec == Spec /\ Fairness

-----------------------------------------------------------------------------
(* Safety. *)

\* A summary handed out was made from the condition profile its reader saw, or
\* a newer one: a profile change is noticed however it interleaves with
\* generations, restarts and other calls.
DoneIsFresh == \A g \in Gets : told[g] = "done" => served[g] >= seen[g]

\* The row never claims a newer profile than its summary was made from, so that
\* comparing the tag with the profile is enough to tell that it is stale.
TagIsHonest ==
  \A p \in Policies : status[p] = "COMPLETED" => source[p] >= tag[p]

Busy(p) == \E g \in Gets : PolicyOf[g] = p /\ gen[g] \in {"queued", "run"}

\* A row is left PROCESSING with no task to settle it only by a crash or a
\* database error; a restart does not orphan it.
LoadingIsBusy == crashes = 0 /\ faults = 0 =>
  \A p \in Policies : status[p] = "PROCESSING" => Busy(p)

(* The inductive strengthening of the safety properties above. *)

\* The lock is held by the one call or task that is inside its transaction.
LockInv ==
  /\ \A g \in Gets : get[g] = "held" => holder = {<<g, "get">>}
  /\ \A g \in Gets : gen[g] = "run" => holder = {<<g, "gen">>}
  /\ ~up => \A g \in Gets : /\ get[g] \in {"idle", "ended"}
                            /\ gen[g] \in {"none", "ended"}

\* A call that holds the table has read a profile at least as new as the tag.
CallInv(g) ==
  /\ seen[g] <= profile[PolicyOf[g]]
  /\ get[g] = "held" => tag[PolicyOf[g]] <= seen[g]
  /\ told[g] = "done" => get[g] = "ended" /\ served[g] >= seen[g]

\* So has a task that runs, and the row is still its own to settle.
TaskInv(g) == gen[g] = "run" =>
  /\ Row(g) = "PROCESSING" /\ tag[PolicyOf[g]] <= material[g]
  /\ material[g] <= profile[PolicyOf[g]]

IInv ==
  /\ TypeOK /\ LockInv /\ TagIsHonest /\ LoadingIsBusy
  /\ \A g \in Gets : CallInv(g) /\ TaskInv(g)
  /\ \A p \in Policies : tag[p] <= profile[p]

(* Steps. *)

\* A summary that is up to date is not thrown away and generated again, by a
\* reader that saw an older profile or by a task that comes late.
FreshIsKept == [][\A p \in Policies :
  status[p] = "COMPLETED" /\ tag[p] = profile[p]
    => status'[p] = "COMPLETED" /\ source'[p] = source[p]]_vars

(* Liveness, under FairSpec. *)

\* Whoever asks is answered, though every generation locks the whole table.
EveryCallEnds == \A g \in Gets : get[g] = "queued" ~> get[g] = "ended"

\* Once nothing fails any more, a call that finds a row whose task was lost more
\* than ten minutes ago has it settled.
AbandonedIsSettled == \A g \in Gets :
  (/\ get[g] = "held" /\ Row(g) = "PROCESSING" /\ old[PolicyOf[g]]
   /\ faults = MaxFaults /\ crashes = MaxCrashes) ~> Row(g) # "PROCESSING"

(* Refinement. *)

Promise == INSTANCE SummaryPromise

PromiseSpec == Promise!Spec
=============================================================================
