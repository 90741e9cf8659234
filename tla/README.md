# Verification of the policy-chat backend

TLA+ models, TLC runs and TLAPS proofs for the FastAPI backend in `src/app`: a
service that recommends welfare policies to parents, answers questions about
them in chat sessions and checks eligibility, on PostgreSQL and a language
model. Paths below are relative to the repository; line numbers are those of
`PROJECT.json`, whose `map` names the lines behind every definition.

## 1. Inventory

| Component | State it keeps | Operations | What is hard about it |
|---|---|---|---|
| Chat stream lifecycle (`services/chat/chat_service.py`, `chat_cancel_registry.py`, `repositories/chat_request_repository.py`) | `chat_request` rows, messages, `chat_session` rows and their locks, in-memory cancel events, recovery tasks | `POST .../messages/stream`, replay by idempotency key, disconnect recovery, delete and bulk delete of sessions, sweep of stale requests at startup | retries racing with the first post, cancellation at every `await`, cut COMMITs, deletion under a running stream, crashes |
| Chat message persistence (`services/chat/persistence/`) | messages, policy links, `slot_json` | `persist_assistant_outputs`, slot builder | slots are read, merged and written back; all-or-nothing with the status |
| Non-streaming chat (`send_message`, `create_session`, title task) | the same tables | one transaction each | sequence numbers, unlocked slots |
| AI requests (`api/ai_request_controller.py`, `services/ai_request_lifecycle_service.py`) | `recommendation_request`, `eligibility_request`, candidates, assessments | create, answer the follow-up question, process in the background, SSE stream, get | double answers, failures that leave PROCESSING, results saved on a second connection |
| Policy summary cache (`services/policy_summary_service.py`, `repositories/policy_summary_repository.py`) | `policy_summary_cache` rows, `policy_condition_profile.updated_at` | GET (read, create, restart), background generation | generations racing with profile changes and with each other, abandoned generations |
| Favorites, sign-up, checklists, family profile (`auth_service.py`, `user_service.py`, `favorite_service.py`, `apply_preparation_service.py`, `family_profile_service.py`) | `users`, `user_favorite`, `user_policy_progress`, `user_policy_checklist_item`, `user_profile`, `family_member` | check-then-write requests | lookups before inserts, ticks beside imports |
| Rule evaluation and recommendation scoring (`policy_rule_*.py`, `recommendation_*.py`, `policy_judgement_service.py`) | candidates, assessments, the result of a request | search, filter, assess, judge, rerank, ask, run again | three-valued comparisons, two readers of the same rules, unruly models, state carried into a second round |
| Graphs and agents (`app/ai`) | the state of one run | nodes in a fixed order, language model calls | outcomes are arbitrary |
| Search, comparison, similar policies | read-only | queries | none of state |
| Import, documents, rule ingest (`policy_*_service.py` behind the administrative endpoints) | raw rows, policies, profiles, rules, documents, chunks, vectors, checklist templates | fetch, import, read profiles, derive rules, cut chunks, embed | calls that overlap on connections which commit every statement; what a condition means after five conversions |
| Authentication, schemas, configuration | none | tokens, validation, `ensure_user_schema` | a table lock in every authenticated transaction |

How they interact: a chat stream and its recovery task share the session's row
lock and the `chat_request` row; a deletion reaches running streams through the
cancel registry first and through the database afterwards; the startup hook
touches the rows of a process that is gone; chat branches call the AI request
lifecycle in process; condition profiles written by the ingest decide whether a
cached summary is served or generated again, become the rules a recommendation
and an eligibility check evaluate, and the texts the search finds; an import
rewrites policies, rules, documents and the templates of everybody's checklist.

What makes each correct is listed under `hazards` in `PROJECT.json`, with the
line where it bites and the properties that would catch it.

## 2. What is modelled

### ChatStream: the life of one streamed chat request

`ChatStream.tla` models `ChatService.send_message_stream` and everything that
runs against it. One *handler* is one run of the async generator; its `pc` names
the `await` it stands at, because other coroutines run, and a cancellation is
delivered, only there. What lies between two awaits is one action.

| State | Code |
|---|---|
| `pc`, `gone`, `flow`, `sent` | the generator: where it waits, whether its client has gone, which branch it took, the last event yielded |
| `cancelled` | `asyncio.Event`s of `chat_cancel_registry` |
| `rec` | the task of `_run_disconnect_recovery` |
| `delpc` | a call of `delete_session` or `bulk_delete_sessions` |
| `row`, `answers`, `old` | `chat_request.status`, the assistant messages of its user message, and whether five minutes have passed |
| `inflight`, `late` | a COMMIT whose client was cancelled while it waited for it, and whether it took effect after the recovery had read the row |
| `live`, `lock` | the `chat_session` row and its `SELECT ... FOR UPDATE` |
| `up`, `crashes`, `faults` | the server process, and the failures so far |

The actions follow the generator from top to bottom: `Open`, `Lookup` (and
`Replay`, `_yield_existing_request`), `Insert`/`InsertRefused`, `Route` into the
follow-up branches or the chat task, `Assess`, `Poll`/`StreamEnd` (the queue
loop), `Check`, `Lock`, `Save`/`SaveRejected` (`_persist_success`),
`MarkFailed`, `MarkCancelled`, `Reply`. `Disconnect*` deliver a cancellation at
each of these awaits, `Recovery*` are the recovery task (`RecoveryChat` runs the
chat, `RecoveryRead` looks at the status only afterwards), `DeleteBegin` and
`DeleteEnd` the two halves of a deletion (the cancel events are set before the
DELETE waits for the row lock), `Fault*` a failing database call, `LateCommit`
and `LateRollback` the fate of a cut COMMIT, `Crash` and `Restart` the process
with its one sweep.

Facts the model takes from the libraries the code runs on, because the outcome
depends on them:

* A client that goes away cancels the response's task group; the cancellation is
  delivered again at the next await as long as the scope is left, so the
  handling of a first cancellation can be cut off by a second one.
* `session.rollback()`, and a failed flush, expire ORM objects although
  `expire_on_commit` is off. The next attribute access needs a query, which
  async sessions refuse outside of an awaited call: it raises. `pc = "lost"` is
  a handler whose error handling ended that way.
* Authentication runs `ensure_user_schema`, whose ALTER TABLE locks `users` until
  the transaction ends. A deletion is one transaction with its authentication, so
  deletions exclude each other; a stream begins after the transaction of its
  authentication.
* A cancelled COMMIT may have been carried out, may never be, or may be carried
  out after the handler is gone, with its locks held until then.
* `FOR UPDATE` on a session row waits for the share locks which the foreign keys
  of uncommitted inserts hold, and the other way round. A unique index makes an
  insert wait for an uncommitted equal key.

`ChatLifecycle.tla` is the abstract specification: requests, without handlers,
locks, tasks or a server. A request is accepted once per idempotency key into an
open session, gets one final status, is cancelled only if somebody asked, has an
answer exactly if it is completed, and goes with its session. The single
exception the code makes is stated there too (`Overwrite`): a request whose
commit overtook its recovery. `LifecycleSpec` says that `ChatStream` implements
it, under the mapping `status <- row, asked <- cancelled, raced <- late`.

`MCChatStream.tla` gives the constants their values for TLC.

### SummaryCache: the cache of policy summaries

`SummaryCache.tla` models `GET /policies/{slug}/summary`
(`get_policy_summary` of `policy_controller.py`, which calls
`PolicySummaryService.get_or_start_summary`) and the background task it starts
(`process_policy_summary`, which calls `PolicySummaryService.process_summary`). A call and its task have one index; each is a
database transaction.

| State | Code |
|---|---|
| `get`, `seen`, `told`, `served` | the call: where it stands, the `updated_at` of the condition profile it read, the status of its response and what the summary in it was made from |
| `gen`, `material` | the task the call added to its response, and the profile `find_generation_context` gave it |
| `status`, `tag`, `source`, `old` | the row of `policy_summary_cache`: `request_status`, `condition_profile_updated_at`, what `summary` was made from, and whether ten minutes have passed |
| `profile` | `policy_condition_profile.updated_at`, 0 without a profile |
| `holder` | who holds the lock on the table |
| `up`, `crashes`, `faults` | the server process, and the failures so far |

`Open`, `Acquire`, `Start` (insert, restart of an abandoned row, restart after a
profile change) and `Serve` are the call, `Generate`, `Complete` and `Fail` the
task. The environment changes profiles, lets rows age, fails database calls
(`FaultGet`, `FaultGenerate`: the transaction is rolled back, also the attempt to
record the failure in it) and crashes.

Facts the outcome depends on:

* `ensure_schema` opens every transaction with `ALTER TABLE ... ADD COLUMN IF NOT
  EXISTS`, which takes an ACCESS EXCLUSIVE lock before it finds that there is
  nothing to add, and keeps it until the transaction ends. So transactions on the
  cache exclude each other, for all policies, and a generation holds the table
  while it waits for the language model. That is what makes reading the row and
  writing it later safe, and what makes liveness worth checking.
* A failed generation is kept: `FAILED` is answered as an error until the profile
  changes.
* Policies are imported active, so the answer for an inactive one is left out.

`SummaryPromise.tla` is the abstract specification: a cell per policy that is
filled for a version of its profile, never from an older one, and emptied only
for a newer one. There are no calls, tasks, locks or failures in it.
`SummaryCache` implements it under the identity on `status`, `tag`, `source` and
`profile`; what it adds is hidden.
`MCSummaryCache.tla` gives the constants their values.

### AiRequest: recommendation and eligibility requests

`AiRequest.tla` models the endpoints of `ai_request_controller.py`, the service
behind them and the runners the chat branches call. Its unit is the database
transaction: `<<"make", r>>` creates the row of request `r`, `<<"run", r>>` is
`process_condition_request` for it, `<<"mark", r>>` the transaction of
`_mark_ai_request_failed`, `<<"answer", a>>` and `<<"read", g>>` are calls of
`submit_recommendation_answers` and of `GET /eligibility/requests/{id}`.

| State | Code |
|---|---|
| `tx`, `at` | a transaction, from its queueing (`ready`) on, and how far it has come: the number of table locks it has taken |
| `saw`, `found` | the status a call has read, and whether a read has found the result message |
| `via` | how the request came in: `post`, `sse`, `chat`, or `graph` (the one-transaction runs of `EligibilityGraphRunner`) |
| `status`, `resolved` | `request_status` and `follow_up_resolved` of the committed row |
| `saved` | an assessment of an eligibility request, written on a connection of its own |
| `posts` | messages with its result in the chat session |
| `faults`, `crashes` | the failures so far |

`Program(t)` is what a transaction locks, in the order of its statements;
`Acquire` takes the next lock, waiting for those `Blockers` names, and reads what
is read under it. `Insert`, `Ask`, `Complete`, `MarkFailed`, `Answer` and `Reply`
are the commits, `Refuse` a call that finds nothing to do. `Rollback` is what the
except clauses do: a run of a background task or of a chat turn queues a mark,
a run of a stream does not. `Fail`, `LockTimeout` and `Deadlock` lead to it;
`Cut` is a cancelled chat turn, whose `CancelledError` passes the except clauses
by; `Crash` ends everything and is followed by no sweep.

Facts the outcome depends on:

* `ensure_user_schema` and `ensure_request_schema` run DDL in the transactions of
  the requests. `ALTER TABLE ... IF NOT EXISTS` takes an ACCESS EXCLUSIVE lock and
  `CREATE INDEX IF NOT EXISTS` a SHARE lock before they find nothing to do, and
  both are kept until the transaction ends.
* `psycopg_pool` commits every statement, so an assessment is committed whatever
  becomes of the request, and PostgreSQL's deadlock detector cannot see that the
  first connection waits for the second one.
* Background runs, chat runs and chat creations set a lock timeout; the POST
  endpoint, the event streams and marks do not.

`RequestPromise.tla` is the abstract specification: a request is processed, asks
at most once, and an outcome is final. `AiRequest` implements it under
`resolved <- [r |-> status[r] # "none" /\ resolved[r]]`.
`MCAiRequest.tla` gives the constants their values.

### PolicyRules, CandidateRules, Recommendation: what a request computes

`PolicyRules.tla` and `CandidateRules.tla` are pure operators. `PolicyRules` has
the comparison of a condition with a rule (`RuleMatches`: yes, no, unclear), the
grouping of rules into alternatives, the eligibility filter
(`policy_rule_filter_service.py`), and the gate's list of what is missing.
`CandidateRules` has what the candidate search makes of one policy
(`recommendation_candidate_service.py`): guesses from its text in the domains
without a rule, rules and groups, a status and a score; and the assessment of a
candidate. A user is a function from fields to sets of values; a rule a record of
field, operator, values and flags; a text what the code looks for in it.

`Recommendation.tla` is one request of `process_condition_request`.

| State | Code |
|---|---|
| `profile`, `selected`, `denials`, `confirmed`, `resolved`, `status`, `kind` | the row of the request and the saved profile |
| `rules` | `policy_rule` |
| `cands`, `assess`, `result`, `checked` | `recommendation_candidate`, `policy_assessment`, `result_json`, the lists of an eligibility check |
| `pc`, `run` | the node of the graph, and its state |
| `before` | the tables as the transaction found them |

`Analyze`, `CandidateSearch`, `RuleFilter`, `CandidateSave`, `PolicyAssessment`,
`AssessmentSave`, `BuildResult`, `LlmRerank`, `RerankSave` and `Finalize` are the
nodes in their order; `Check` is the eligibility check. `Finalize` and `Check` may
stop to ask; `Answer` and `Confirm` start the second round over the same rows.
`Fail` is a failing statement, which rolls the run back. Searches, the judging and
the ranking model are nondeterministic; the ranking model may name policies that
are not in the pool, name one twice, or fail.

Scores are in ten-thousandths, as the code's have four decimals. `kind` tells an
eligibility check of a policy's page (`policy_detail`) from one of a chat, because only
there the profile wins over what was selected. `RankAdjusted` compares a score as it is
with the rounded one before it and rounds afterwards, so that two policies may be
shown with one priority. What floats do to the decimals of the code is in two
constants: `HalvesUp`, the hundredths at which a half is rounded up, and `ShortBounds`, the
ranks whose bound is a float just below its decimal, so that a score cut to it
counts as lower than an equal one before it.

### PolicyData and UserRecords: the administrative side and the users' records

`PolicyData.tla` models the calls by which policies come into the database, and
`UserRecords.tla`, which extends it, what users write beside them. Each call has
an id; `pending` are the calls to be made and `job[id]` is what a call has still
to do, read when it started.

| State | Code |
|---|---|
| `raw` | `policy_raw_import` |
| `live` | `policy`, `policy_detail`: the detail imported last |
| `profile` | `policy_condition_profile`, an extraction |
| `rules` | `policy_rule`, by the statement that inserted them together |
| `docs`, `vectors` | `policy_document` with its chunks, `langchain_pg_embedding` |
| `templates` | `policy_checklist_template` |
| `strayed` | history only: vectors stored after their chunk had gone |
| `accounts`, `favorites`, `progress`, `items`, `family`, `members` | the tables of the users |
| `inside` | the call that holds the lock on `users`, with what it found |

`Fetch` (list entries, details, pending rows), `Import`, `Profiling`,
`RuleIngesting`, `Documents` and `Embedding` are the administrative calls, each
with its start and its steps; `Abandon` ends one anywhere. `UserBegin` takes the
lock and reads, `UserFinish` writes and commits, `UserAbort` rolls back.

What the steps compute is in modules of its own. `ConditionProfile.tla`: what
`policy_condition_profile_service.py` makes of a model's extraction, from the
names of fields and operators to the validation of every leaf.
`RuleIngest.tla`: the rules `build_rules` derives from that. `PolicyImport.tla`:
the rules, forms and templates the import's SQL finds in the raw data.
`PolicyDocuments.tla`: the reader whose text is taken, and the chunks.
`ConditionReading.tla` is the reference for the first two: what the sentence the
model has read means, defined on the tree of the extraction alone (`Admits`: some part
of the tree that holds what it needs has nothing in it that denies the user), and
the ways in which its meaning is known to be lost (`KnownCause`).

Facts the outcome depends on:

* The pool of `common/psycopg_pool_conf.py` commits every statement; a
  transaction is where the code says `conn.transaction()`, one per policy or
  document.
* `ALTER TABLE policy_rule` at the start of an import and of a rule ingest waits
  for whoever is writing rules. A DELETE takes the rows there are when it starts,
  and waits for a transaction that is deleting them.
* `langchain_pg_embedding` has no foreign key to the chunks.
* Authentication alters `users` (`user_repository.py:9`), so that calls of users
  are one at a time. The model lets nothing else keep two rows apart. In the database
  profiles have a unique `user_id` (`db/models/profile.py:32`), and the documented schema
  has unique keys for checklists and their items (`docs/DB_DIAGRAM.md:298`, `:334`);
  children have none. Without these keys the model can do more than the database.

`MCRecommendation.tla` and `MCPolicyData.tla` give the constants their values.

## 3. Runs

Run one with `tlc -config <cfg> <module>.tla`; the chat runs use `MCChatStream`,
the summary run `MCSummaryCache`, the ai runs `MCAiRequest`, `recommendation` and
`policy_data` the module of their name.

| Run | Instance | Shows |
|---|---|---|
| `chat_retry` | 2 posts with one key to 1 session, 1 fault, 1 crash; one call deletes it together with another session, one deletes the other session | types; two posts with one key never work on the message at once, but for the recovery of an insert that was rolled back; an answer iff completed; answered once; events agree with rows; cancelled only by an event; nothing outlives its session; an orphaned request has a cause; streams are cancelled only for a deletion that goes through; refinement of `ChatLifecycle` |
| `chat_progress` | 2 posts without keys to 1 session, 1 deletion, no faults, fairness | saves of a session exclude each other; every generator and recovery task ends |
| `chat_stale` | 1 post, 1 crash, fairness | **violated**: requests older than five minutes become failed (`db/migrations/269...:12`) |
| `chat_follow_up` | 1 post, no faults | **violated**: links carry admitted types (`docs/API_SPEC_AI.md:991`) |
| `chat_failed_save` | 1 post, no faults | **violated**: a failed save is recorded as failed (`docs/CHAT_REQUEST_LIFECYCLE.md:18`) |
| `chat_disconnect` | 1 post, 1 deletion, no faults | **violated**: a cancellation starts the recovery (`docs/CHAT_REQUEST_LIFECYCLE.md:38`) |
| `summary_cache` | 3 calls for 1 policy, 3 profile changes, 1 fault, 1 crash, fairness | a summary handed out is as fresh as the profile its reader saw; the row's tag is honest; a row that is being filled has a task; a summary that is up to date is kept; every call ends although a generation holds the whole table; an abandoned row is settled; refinement of `SummaryPromise` |
| `ai_answers` | 2 recommendation requests, 2 answers to the first, 1 fault, 1 crash | an admitted answer still finds its question when it commits; what stays PROCESSING has a cause; refinement of `RequestPromise` |
| `ai_reads` | a recommendation and an eligibility request, 2 reads of the latter, 1 crash, fairness | a result is posted once; calls do not deadlock with each other; every transaction ends without any time limit |
| `ai_stream` | 1 recommendation request, 1 fault | **violated**: PROCESSING means the agent is running (`docs/FIELD_MAPPING.md:171`) |
| `recommendation` | 3 policies, 6 rule sets for the first, 2 profiles, 3 selections, 2 readings of what was said, 2 searches, 2 judgements, 4 rankings (two of them end in a tie), every denial, every answer to a point, 1 failure | a bucket passes or fails a numeric rule only for everyone in it; what is shown is a candidate that neither rules nor assessment refused; a denial is respected; priorities never rise with the rank, and tie only at the floor, by rounding or at a bound that is a float; rerank scores are of this round; filter and search agree on refusals; a settled point stays settled |
| `policy_data` | 2 policies, 3 details, 20 extractions, 4 files, 8 scenarios of up to 8 overlapping calls | rules of a policy have one source; nobody is refused by derived rules whom the sentence admits, but for known causes; a vector is of a chunk there is, but for named causes; records of users stay unique |

Bounds of the chat runs. Two posts are enough for every pairwise property (same key,
same session); the proofs lift them to any number. One deletion covers every
interleaving with a stream, two are needed only for a bulk deletion that might find a
session gone. `MaxFaults` and `MaxCrashes` bound failing calls and crashes; one
of each already puts a failure into every state of the others, and the interest
of a second lies in the same code path. The runs without faults are those whose
property a fault would trivially excuse;
`OneSaverPerSession`, checked in one of them, is proved with faults and crashes. The posts of `chat_retry` are
interchangeable, which `PostSymmetry` states.

Bounds of the summary runs. Three calls are one that starts a generation, one
that starts it over and one that reads; with three profile changes each of them
can see another version, and one more change can come after them. A second
policy would add nothing but more transactions that want the same table lock.

Bounds of the AI request runs. Two answers to one question are what can race; a
second recommendation meets the first one at every table, the candidates
included, so that runs deadlock, fail and are marked. Two reads race for one
message, and the two requests of `ai_reads` are where the second connection of an
eligibility run meets the locks of a recommendation run; failures are left out
there, as a wait that only a failure ends is one nobody wants. Racing answers are
interchangeable, which `CallSymmetry` states.

`CHECK_DEADLOCK FALSE` is stated because the system may really stop: when every
post has ended and nobody deletes anything.

Fairness of `ChatStream` (`FairSpec`). Weak fairness of each generator, of each
recovery task, of the end of each deletion (the event loop runs whatever can
run; a row lock is granted when it is free and, there being finitely many
waiters, to each of them), of the resolution of a cut COMMIT (PostgreSQL commits
or rolls back), of time passing, and of the restart of a dead server. Nothing is
assumed of clients: they need not come, go away or delete. Weak fairness of
`Progress` as a whole, not of each alternative, leaves the outcome of the chat
task open, but has it end: `run_chat` bounds its model calls with timeouts.

Fairness of `SummaryCache` (`FairSpec`). Weak fairness of each call and each task
and of the restart: PostgreSQL queues the requests for a table lock and grants
them in order, the graph runs under `asyncio.wait_for` of 60 seconds, the process
is restarted. Every call comes once, so that the queue is finite. Profiles need
not change, rows need not age, and nobody has to call: `AbandonedIsSettled`
speaks of a call that finds the abandoned row.

Fairness of `AiRequest` (`FairSpec`). Weak fairness of the steps of each
transaction (the event loop runs what can run, model calls are under
`asyncio.wait_for`, PostgreSQL queues the requests for a table lock), and of the
deadlock detector. Failures, lock timeouts and cancellations are not assumed.

Bounds of `recommendation`. The first policy has rules of every kind (numeric
limits, lists, alternatives, soft, manual, under review), the second a limit, the
third none, so that every ladder of the search is taken beside one another; two
are shown and two judged, so that a policy falls off either list. A second round
follows every kind of first one; a third has the same code and no new state. The
rankings include two that end level, once by rounding (0.5213 and 0.5187) and once at
the bound of the second rank. `HalvesUp` and `ShortBounds` are what Python's floats do:
`round` takes 0.525 up and 0.575 down, and the bounds of ranks 2 and 5 are floats just
below 0.93 and 0.81.

Bounds of `policy_data`. Each scenario lets the calls overlap that write the same
tables, and orders only what would otherwise find nothing: list, detail and
pending saves around an import; two imports and two rule ingests; a new profile
between two ingests; detail chunks and embeddings around a profile and an import;
files shared by documents, read, seen and embedded; checklists and ticks beside
imports; accounts and families; favourites. Two policies are enough for targets
in an order and limits of one. The twenty extractions have between them every field,
operator, shape of value, exclusion and known cause the code tells apart.

No fairness is assumed in these two runs: they check safety.

The five violated properties are statements of the repository which the code
does not meet; `findings` in `PROJECT.json` quotes them.

## 4. What is proved

### ChatStream

`ChatStreamProofs.tla` and `ChatEventProofs.tla` prove, for any sets of handlers,
sessions, keys and deleting calls, and any bounds:

| Theorem | Statement |
|---|---|
| `Invariance` | `Spec => []IInv` |
| `TypeCorrect` | `Spec => []TypeOK` |
| `OneRun` | `Spec => []OneRunPerKey` |
| `OneSaver` | `Spec => []OneSaverPerSession` |
| `Answered` | `Spec => []AnswerIffCompleted` |
| `OnceAnswered` | `Spec => []AnsweredOnce` |
| `CancelledByEvent` | `Spec => []CancelledOnlyByEvent` |
| `NothingOutlives` | `Spec => []NothingOutlivesSession` |
| `VainCancel` | `Spec => []NoVainCancel` |
| `FinalStaysFinal` | `Spec => FinalStays` |
| `EventsMatch` | `Spec => []EventMatchesRow` |
| `OrphansHaveCause` | `Spec => []OrphanHasCause` |
| `StreamImplements` | `Spec => LifecycleSpec` |

The assumptions are the three named ones of `ChatStream`: handlers post to
sessions and carry a key or none, deleting calls name a non-empty set of
sessions, the bounds are naturals.

Argument. None of the properties is inductive: that `Save` may write
`completed` without reading the row again is right only because of where the
other writers stand. `IInv` says where. `RunInv`: a generator before its insert
has no row, a working one has a processing (or deleted) one, one that saves
holds the session lock. `RecInv`: a recovery task exists only after its
generator ended, and finds the row processing unless a late commit came in
between. `FlightInv`: a commit in flight belongs to an ended generator and is
either the insert's or the last one of a processing row. `RowInv`: answers,
status, session and cancel event of a row agree. Two global parts: of equal keys
only one owns a row or a commit that will create it, and a session lock has one
holder.

Most actions move one handler and leave the rest alone. `Keeps(h)` says what
such a step may change, `OthersKeep` and `KeepsSuffices` reduce `IInv'` to the
moved handler, and one lemma per group of actions (`KeepsProgress`,
`KeepsDisconnection`, `KeepsRecovery`, `KeepsFailure`, `KeepsDatabase`)
discharges it action by action. The actions that touch many handlers at once
(both halves of a deletion, the crash, the restart) have lemmas of their own.
`InvNext` joins them.

`VainCancel` has an argument of its own, `DeletionInv`: deletions exclude each
other from their authentication on, so that one which found its sessions deletes
them.

`EventsMatch` needs two facts. When an event is sent it is true (`StepTells`), and
what it says lasts (`HoldsLasts`): rows are never unmade, a final status is left
alone unless a commit came late, a deleted row stays deleted (`RowsLast`).
`OrphansHaveCause` follows `Settled(h)`: a generator that replies or has ended has
settled its request, left it to a recovery task, or something went wrong
(`StepSettles`), and what went wrong is not undone (`CausesLast`).
`StreamImplements` shows that a landing commit is an `Accept`, `Settle` or
`Overwrite` of the lifecycle, whichever process it comes from (`LandAccepts`,
`LandSettles`, `MarkSettlesOrNot`): `IInv` supplies the guards, which the code does
not test. It also needs that `Open` clears no event that was set, since events are
set for running handlers only (`FreshInv`).

`OneRunPerKey` excepts `Phantom`: the recovery of an insert that was rolled back runs the
chat for a row that never was. From the read of the status on there is no exception, and
`AnsweredOnce` says what that means for answers. `OrphanHasCause` admits `pc = "lost"`, a
generator that stopped with its row object expired, which a disconnect in a save or a mark is
enough for. The second is a finding (`chat_disconnect`).

Only model-checked: `EveryRunEnds`; liveness under fairness is out of the prover's reach and stays with TLC.

### SummaryCache

`SummaryProofs.tla` proves, for any calls, policies and bounds:

| Theorem | Statement |
|---|---|
| `SummaryInvariance` | `Spec => []IInv` |
| `SummaryTypes` | `Spec => []TypeOK` |
| `SummaryFresh` | `Spec => []DoneIsFresh` |
| `SummaryTagged` | `Spec => []TagIsHonest` |
| `SummaryBusy` | `Spec => []LoadingIsBusy` |
| `SummaryKept` | `Spec => FreshIsKept` |
| `SummaryImplements` | `Spec => PromiseSpec` |

from `GetAssumption` (a call asks for one of the policies) and `BoundAssumption`.

Argument. A call compares the tag it finds with the profile it read, a task
writes a summary without looking at the row again; both are right because whoever
is inside a transaction is alone in it (`LockInv`). So a call that holds the lock
has read a profile no older than the tag (`CallInv`), and a task that runs still
owns a PROCESSING row whose tag is no newer than its material (`TaskInv`).
`DoneIsFresh` and `TagIsHonest` follow from these and from the tag never being
ahead of the profile. `SummaryKept` is the action property of the same invariant:
`Start` on a completed row needs a tag that differs from what the caller saw, and
that, being between tag and profile, is newer. `SummaryImplements` maps `Start`
to `Begin`, `Complete` to `Fill`, `Fail` to `GiveUp`, `ChangeProfile` to `Change`
and the rest to stuttering.

Only model-checked: `EveryCallEnds` and `AbandonedIsSettled`, for the reason
above.

### AiRequest

`AiRequestProofs.tla` proves, for any requests, calls and bounds:

| Theorem | Statement |
|---|---|
| `RequestInvariance` | `Spec => []IInv` |
| `RequestTypes` | `Spec => []TypeOK` |
| `AnswersFind` | `Spec => []AnswerFindsQuestion` |
| `PostsOnce` | `Spec => []PostedOnce` |
| `StuckCause` | `Spec => []StuckHasCause` |
| `CallsDoNotDeadlock` | `Spec => []CallsNeverDeadlock` |
| `RequestsKeepPromise` | `Spec => PromiseSpec` |

from `RequestAssumption` (recommendation and eligibility requests differ, an
answer is about a recommendation) and `BoundAssumption`.

Argument. Neither `submit_recommendation_answers` nor `GET` locks the row it
checks. What protects them is a side effect: the authentication of every call
has altered `users` and keeps that lock until the call's transaction ends.
`FirstLockExcludes` shows that a second call cannot take its first lock, which
gives `OneCall`: at most one call has any locks. So what an answer or a read has
seen can be invalidated only by runs and marks, and these touch only requests
that are PROCESSING (`WorkedIsProcessing`), which an answer has seen is not the
case; nobody but reads posts messages. `CallsNeverDeadlock` is a corollary: no
cycle among one. `StuckHasCause` follows the obligation to finish from the
creation to the run, the mark and the mark's end. `EndsKeeps` collects what every
commit and rollback has in common; one lemma per action adds the rest. The
refinement maps `Insert`, `Ask`, `Complete`, `MarkFailed` and `Answer` to steps of
the promise and all others to stuttering.

Only model-checked: `ComesToRest` (liveness).

### Recommendation

`RuleProofs.tla` and `RecommendationProofs.tla` prove, for any policies, rule sets,
conditions and texts, any answers of the searches and of the two models, and any
length of the list:

| Theorem | Statement |
|---|---|
| `InductiveInvariant` | `Spec => []IInv` |
| `TypeCorrect` | `Spec => []TypeOK` |
| `ShownAreEligible` | `Spec => []ShownIsEligible` |
| `DeniedAreNotShown` | `Spec => []DeniedIsNotShown` |
| `RanksDoAgree` | `Spec => []RanksAgree` |
| `ScoresDoMatchRun` | `Spec => []ScoresMatchRun` |
| `SettledDoStaySettled` | `Spec => []SettledStaysSettled` |
| `BucketsDecideSoundly` | `Spec => []BucketsAreSound` |
| `RefusedAreExcluded` | `Spec => []RefusedIsExcluded` |

The assumptions are the named ones of the three modules: policies are a finite,
non-empty set of ids (`PolicyAssumption`); numerals denote naturals below the number
that stands for no bound (`NumeralAssumption`); rules are rows of `policy_rule`,
finitely many for a policy, and answers and texts are finite (`RuleAssumption`,
`ConditionAssumption`, `TextAssumption`); a similarity is a natural
(`SearchAssumption`); what the models answer passes the schemas it is parsed with
(`AnswerAssumption`: one of five assessments, scores between 0 and 1, with four decimals);
something is shown (`LimitAssumption`); `HalvesUp` and `ShortBounds` are any sets of
naturals (`FloatAssumption`), so that nothing is assumed of what floats do. Which policies a model names, how often, and in which
order, is not assumed.

Argument. The properties speak of the end of a run and are made true by its
nodes one after the other, so `IInv` says what each node leaves for the next.
`CandidateInv`: the candidates are those found, each as `Candidate` makes it of
this round's condition and rules. `SavedInv` and `VerdictInv`: the table rows are the
run's, without rerank scores until the ranking model has chosen, and every
candidate is assessed. `ShownInv`: the base result, then the list made of it, has
eligible candidates only, each once. `DenialInv`: a denied benefit is in the
selected conditions and, through the merges of `Analyze`, in the condition of the
run. `ResultInv` is what `Finalize` makes of these. `TableInv` holds of the tables
and of the copy a rollback restores; `RequestInv` keeps a run at the nodes of its
kind. One lemma per action shows that it preserves `IInv`.

Under it are the lemmas about the operators. For the list: `LexLess` orders any
set of keys of one length without ties, so that `Sorted` has each element once
(`Ranking`, `SortedHasAll`); what the rerank takes over of the model's answer, fills up,
cuts and reorders stays a list of the pool without repetition
(`SanitizedType`, `BackfilledType`, `DemotedType`), and the priorities presented
never rise (`RankAdjustedFalls`, `PresentedType`). Rounding moves a score by half a
hundredth at most and leaves whole hundredths alone (`RoundedIsNear`, `RoundedWhole`),
and all that is presented is a whole hundredth; so a score below the one before it may
come up to it, which is the tie `RanksAgree` admits, and not pass it. The recursive function in `Presented` is reasoned about with
the least number that would break the claim (`LeastNumber`), an ordinary lemma, where
an induction theorem with an operator parameter cannot be used. For the rules:
`NumericIsSound` takes the buckets comparison by comparison; `FlatFails`,
`MergedRefuses` and `RefusedCandidate` follow a refusal from the filter's merged list
back to single rules and from these to the candidate search; `DeniedBenefitRefuses`
has the rule fail on a denied benefit, which excludes the candidate.

### PolicyData and UserRecords

`PolicyDataProofs.tla` proves, for any policies, details, extractions, files,
calls and users:

| Theorem | Statement |
|---|---|
| `RulesHaveOneSource` | `Spec => []OneSource` |
| `SearchFindsChunks` | `Spec => []VectorsHaveTheirChunk` |
| `RecordsStayUnique` | `Spec => []RecordsAreUnique` |
| `EverythingTyped` | `Spec => []TypeOK` |
| `RefusalsHaveCause` | `Spec => []RefusalHasCause` |

from `AccountAssumption` (the accounts there are at the start are unique) and three
that say what the data are: `PortalAssumption` (policies are finitely many ids, the
details of a policy and the files of a URL are among those there are, a model reads
a detail into an extraction, a policy has fewer than a hundred steps and forms: with
more, the numbers the import gives to steps would run into those of the forms), `ScenarioAssumption` (the rows of `policy_raw_import` there are at the
start, and the calls, are about policies and details the portal has shown, and a row
that is COMPLETED has a detail, as `upsert_detail_item` leaves it) and
`ChunkAssumption` (a text has at most ten thousand chunks: `replace_document_chunks`
numbers them from ten thousand times the document's id, and more would run into the
next document's; at several hundred characters a chunk that is a text of megabytes).

Argument. `OneSource`: a rule ingest dooms all rules of the policy when its
DELETE starts and inserts its own at its commit. What has come in between can
only be rules of another ingest, because an import waits for whoever is writing
(`RulesUnlocked`); so the rules outside of `doomed` are of profiles while a call is
writing. `VectorsHaveTheirChunk`: by cases over the steps that move chunks or
vectors. Whoever replaces a text deletes the vectors of the document in the same
transaction, except the vision path, whose texts are excepted; an import leaves
vectors of documents that are gone or without a text. `RecordsAreUnique` rests on
`LockInv`: one call is inside, and what it has found is still so, since nobody else
may write these tables; an import writes templates, and only adds positions to
them, so that an item stays on a template of its policy.

`TypeOK` relates what a call stores to tables it has read in an earlier transaction,
with others' in between, so its proof has to say what a call carries along. `DataInv`
does: what is queued in a job (`JobTyped`) is about policies that have been imported,
documents that are numbers and texts that are there, and stays so while others work,
since an import only adds to the policies that are imported (`ImportedGrows`) and a
detail is never taken back. A document is one of its policy's detail or a form of the
detail that was imported last (`DocInv`): an import deletes the forms of the details
it replaces, without which a target's number would name no form any more. The targets
of a call are read as a sequence in the order of the query, and to know that its
elements are targets takes the ranking lemma of `RuleProofs`, used for
recommendations too: in a finite order, the number of those before one counts without
gaps. `UsersInv` adds that whoever is inside has been let in (`Admitted`): the user and
the policy were there when the call began, and no account and no policy is deleted. A
percentage stays one because ticked items are some of the checklist's own (`Rounded`).
`DataInv /\ UsersInv` and `ReadingsInv` were checked by TLC on all states of the run
`policy_data` before they were proved. `RecordsStayUnique` uses `DataInv` for the
positions of templates: a template's number tells the policy it is of.

`RefusalHasCause` says of the rules that are stored what `ReadingProofs.tla` proves of
the rules of every extraction (`RefusedIsDenied`): if the filter refuses a user's
answers by them and no known cause applies, no reading of the sentence admits him.
What the steps add is `ReadingsInv`: rules of profiles come from an extraction, though
a rule ingest inserts at its commit what it found in a profile when it started;
`DataInv` carries that along in the job. The operators go from the model's answer to
a refusal in five passes, and the proof goes back through them:

* The filter (`RefusalByRules`): a refusal is of one rule that stands alone, or of all
  trusted rules of a group of alternatives; a rule left to the user refuses nobody.
* The rules (`TrustedRulesAre`): a rule that is trusted, in a profile of which no review
  was asked, is of a leaf of the validated tree, with its field, operator and list.
* The leaf (`LeafRefuses`, one lemma per field): the list of a rule that refuses is what
  validation kept of the condition, and unless the condition is misread
  (`Misread`), that is all of it, so that the condition itself denies the user. Ages
  and percentages are compared bucket by bucket (`NumericIsSound` of `RuleProofs`).
* The tree (`NormalizedTreeIs`, `StoredTreeIs`): every leaf of the stored tree was
  collected, or was kept for one of its group that says the same, with the same text
  and confidence, which denies the same users (`SameDeny`).
* The sentence (`PartOfAll`): a part that is no alternative and cannot hold takes its
  group with it. Going up is no induction on the tree: of the nodes that are
  part of a reading though something they need cannot hold, take the least
  (`LeastNumber`); its parent has a smaller index.

Nothing here is an induction over data. `Pruned`, `Select` and `Admits` would be written
recursively by a programmer; they say instead which nodes or items are kept, and that
there is a part of the tree in which everything that is required holds. The known causes
are all needed: without any of them TLC finds a small tree that refuses whom it admits
(duplicates that differ in confidence, of an alternative; a list compared with "is";
a stage of life compared with an operator it does not have; an empty list of words).

Beside the assumptions above, and `NumeralAssumption`, it rests on three. `TreeAssumption`: the model's answer is a tree as
`_normalize_extraction` walks it, numbered from the root down, and a single value is
one. `NumberAssumption`: a text that parses as a number is none of the words of the
forms. `AnswerAssumption`: a user's condition has one age and one income at most, and
regions, statuses, stages and circumstances are no numbers or buckets;
`condition_agent.py:420-460` takes each as one value of a closed list, and
`profile_condition_merge_service.py` passes words from the profile. TLC checks all
three on the run's constants.

Every invariant and every action property of this component is proved.

## 5. What is not modelled

* What the language model, the retrieval and the handlers compute: outcomes are
  nondeterministic (a payload, none, an exception).
* `send_message` (it takes no row lock and ignores the idempotency key),
  `create_session` and the title task, which touch the same tables.
* In the chat stream: the 60-second timeout of the follow-up assessment cutting a
  flush short; a recovery task garbage-collected because `asyncio.create_task`'s
  result is not kept; a database clock in another time zone than the UTC cutoff
  of the sweep; `sequence_no = max + 1` computed without a lock.
* In the summary cache: the text of a summary; other inputs than the condition
  profile (a changed policy text does not start a summary over, in the code
  either); a task lost because the client went away before the response was sent,
  which is the crash of that task alone.
* In AI requests: what is in a request, its result and its history; a COMMIT whose
  outcome is unknown to the client (a request might then be marked failed after
  it was completed); row locks and those of foreign keys; the queue of
  PostgreSQL's lock manager, in which a waiting request holds up later ones; the
  `lock_timeout` of a `policy_assessment` wait on the second connection, which has
  none. Every eligibility request is taken to come from a chat session. `Cut`
  covers a cancelled chat turn and, for `graph`, a cancelled event stream as well.
  Eligibility runs inside the transaction of a chat stream
  (`run_follow_up_eligibility`) and the connection pool are left out.
* In recommendations: the wording of reasons and questions; `policy_judgement_controller`,
  which assesses on demand; more than one confirmed point.
* In `PolicyData`: an import reads the raw rows as one snapshot (its statements
  could see different ones); the oldest pending rows may be any of the right
  number; chunks are told apart by their document's text and their index; the item
  of a tick is looked up when it is written; `ensure_*` statements of read-only
  calls. A language model's extraction is any of a set, whatever the text says.
* Several server processes: the deployment runs one uvicorn process, and the
  cancel registry is in its memory.
* Everything listed `not_modelled` in `PROJECT.json`, with the reason.

What the models do and no property forbids, for a reader who wonders whether it
was overlooked:

* A recovery runs the chat before it looks whether its request exists
  (`chat_service.py:471`), so that after an insert that was rolled back the chat runs for
  nothing, beside the retry (`docs/CHAT_REQUEST_LIFECYCLE.md:50` says that a resend of a key
  runs no new handler). `OneRunPerKey` excepts it.
* Two recommendations can be shown with one priority: `_rank_adjusted_score` compares
  before it rounds, and some of its bounds are floats just below their decimal.
  `RanksAgree` admits both. Scores the models give are taken with four decimals, like
  those of the candidates; a model might answer with more.
* The filter takes an applicant's age from the child's
  (`policy_rule_filter_service.py:172`), which a comment in
  `policy_rule_condition_value.py:42` rules out for the other reader of the rules,
  and leaves out rules under review, so that their alternatives become mandatory.
  `RefusedIsExcluded` excepts both.
* Two overlapping rule ingests can leave the rules of two profiles of one policy,
  required together; the docstring at `policy_rule_ingest_repository.py:130` says
  that the rules of a profile are the single truth. `OneSource` admits it.
* Words or ages a validator does not know are dropped from a list without a review; of
  a list that something "is" the first is taken; an operator that is not understood
  becomes "is" or "one of" for a stage of life or a circumstance; an empty list of words
  admits nobody; an alternative that is a group, or has no word, leaves its siblings
  mandatory, and so does one that is dropped as a duplicate although another text or
  another confidence is behind it (`_dedupe_conditions` compares neither).
  `KnownCause` names these. The text "below median" becomes 100 %, for the reference as
  well.
* A list entry that changes does not fetch its detail again; a profile read from an
  older detail stays; a row marked FAILED is never fetched again, also when its
  detail had come meanwhile.
* Late embeddings, imports and the vision path leave vectors without a chunk, which
  the search still finds; `VectorsHaveTheirChunk` excepts exactly these.
* A tick stays with the position of its step; the percentage returned by a tick
  counts items that are no longer active.
* `required_document` is deleted by a column `source_type` that `docs/DB_DIAGRAM.md:94`
  does not list.

## 6. Plan

In order of importance; all but 8 and 9 are done.

1. `ChatStream`, `ChatLifecycle`, `MCChatStream`, `ChatStreamProofs`,
   `ChatEventProofs`.
2. `SummaryCache`, `SummaryPromise`, `MCSummaryCache`, `SummaryProofs`.
3. `AiRequest`, `RequestPromise`, `MCAiRequest`, `AiRequestProofs`: requests and
   the table locks their transactions meet at.
4. `PolicyRules`, `CandidateRules`, `Recommendation`: what a request computes.
5. `ConditionProfile`, `RuleIngest`, `ConditionReading`, `PolicyImport`,
   `PolicyDocuments`, `PolicyData`: how policies, rules and texts come in.
6. `UserRecords`, `ReadingProofs` and `PolicyDataProofs`: every property.
7. `RuleProofs` and `RecommendationProofs`: every property of `Recommendation`.
8. `ChatTurn`: `send_message` and the slot merge against streams of the same
   session (lost slot updates, sequence numbers), `create_session`, the title task.
9. `ConnectionPool`: chat streams hold one connection while their branch asks for
   a second one, and an eligibility run one of each pool.
