# TrueFigure in TLA+

A verification development for TrueFigure, a service that ingests business
events about software deployments (the *witness store*), folds them into daily
aggregates, computes graded *figures* from them and issues reports, alerts and
webhooks. The specifications here are written from the Python code and the SQL
schema under `src/`; every definition that models code is tied to its lines by
`map` in `PROJECT.json`.

The system has no shared memory. API processes, cron jobs and operator
commands are independent processes that meet in PostgreSQL (READ COMMITTED), in
object storage and, for the client, in a file. Almost everything that is hard
about it is therefore a matter of *which statement sees what*: in the concurrent
modules one action is one SQL statement, one storage call or one HTTP exchange,
and a process may die between any two of them.

## 1. Inventory

| Component (source) | State | Operations | Interacts with | What makes it correct |
|---|---|---|---|---|
| Event ingestion (`api/routes/ingest.py`, `entities/eventkey.py`) | rows of `events` and `rejected_events`, results of the running batch | `ingest_events`, `_process_one`, `event_status` | configuration (deployments, namespaces), auth mode and scope, imports | a fact is stored once whoever races; an answer never claims more than is committed; the status of a key is never taken back |
| Pipeline (`policies/pipeline.py`) | resolution columns of events, `work_items`, three daily aggregate tables | `run_pipeline` per event | events, roster, namespaces | every event is folded exactly once, with nothing lost between workers or at a death |
| Webhooks (`policies/webhooks_delivery.py`, `routes/config_plane.py`) | subscriptions, delivery queue | `create_webhook`, `delete_webhook`, `verify_webhook`, `emit`, `deliver_once` | engine and alerts emit; the consumer's endpoint | attempts are accounted, a log entry is true, every delivery ends |
| Reference client (`sdk/truefigure/client.py`) | pending queue, spool file | `track`, `flush`, `echo`, retry | ingestion | no event is forgotten, an answered one is not sent again |
| Bulk imports (`routes/imports.py`) | job rows, uploaded files, reject reports | `create_import`, upload, `run_import` | storage, `_process_one` | counts are those of a real run, a promised report exists |
| Engine (`domain/engine.py`) | versioned figures, reports, artifacts | `compute_deployment`, `issue_report` | aggregates, parameters, change log, license; emits webhooks; storage | versions without gaps or twins, reports are snapshots, values are explained by their stamps |
| Alerts (`domain/engine.py`, `routes/read_plane.py`) | alert queue | `run_monitors`, `_raise_alert`, `ack_alert` | aggregates; emits webhooks | the queue and the notifications agree |
| Configuration plane (`routes/config_plane.py`) | deployments, licenses, parameters, changes, roster, namespaces, subscriptions, contracts, label schemas | creation, update, deletion, roster upserts | read by all of the above | repeated declarations agree, versions have no gaps, licenses no overlap, roster answers are true |
| Authentication, rate limits, quotas (`application_services/auth.py`, `billing/ratelimit.py`, `ops/opsctl.py`) | API keys and grants, window counters of each process, limits, plans | `require_principal`, `check_rate`, `check_quota`, `key_issue`, `key_revoke`, `grant_add`, `limits_set`, `plan_set` | ingestion, operators | nothing is stored without authority; how far the limits can be exceeded |
| Read plane, envelopes, wire models, references, periods | none of their own | formatting of SELECTs and ids | all tables | faithful formatting |
| Schema (`supabase/migrations`) | constraints | | all | the constraints that decide races |

The hard behaviours, each with its line, are the `hazards` of `PROJECT.json`:
races between a lookup and an insert, transactions that die around their
commit, folds of the same row by two workers, retries of what was already done,
notifications that commit before or after what they announce, limits that are
checked before they are used up, values read before and used after another process committed, and queues that must drain.

## 2. Modules

| Module | Models | Actions |
|---|---|---|
| `WitnessStore` | what ingestion promises, atomically | `Witness`, `Tell` |
| `Ingestion` | `POST /v1/events:batch`, `GET .../status`; implements `WitnessStore` | `Admit` `Validate` `Resolve` `CheckNamespaces` `Lookup` `Insert` `Commit` `Quarantine` `Finish` `Respond` `Crash`, registration and pausing of deployments, declaration of formats, `Tick` |
| `Aggregates` | what the pipeline promises, atomically, with the folds as operators | `Ingest`, `Fold` |
| `Pipeline` | `run_pipeline` by several workers; implements `Aggregates` | `Take` `FindNamespace` `Identify` `Profile` `Join` `Stats` `Activity` `Meter` `Commit` `Crash`, roster changes |
| `Webhooks` | subscriptions and deliveries | `CreateWebhook` `DeleteWebhook` `BeginVerify` `EndVerify` `FailVerify` `Emit` `StartRun` `Pick` `Send` `Record` `Crash` `Pass` |
| `System` | `SdkClient`, the store of `WitnessStore` and the folding of `Aggregates`, composed | `Send` `Serve` `Respond` `RespondError` `Disconnect` `Die` `ServeAbandoned` `FailAbandoned` `Fold` |
| `ConfigPlane` | the configuration plane, statement by statement | `Begin` `RequireRole` `ResolveDeployment` `CheckExisting` `NumberVersion` `Insert` `Link` `LinkLicensed` `Supersede` `FindCurrent` `CloseCurrent` `DeleteWebhook` `CheckType` `Rename` `UpsertUser` `CheckOwner` `ClaimIdentifier` `Commit` `Reply` `Deadlock` `Crash` |
| `Admission` | keys, rate limit and quota before a batch is stored | `Arrive` `ResolveKey` `ReadGrants` `ReadRate` `CheckRate` `CheckQuota` `Store`, the operators' commands, `Import` `Tick` `Restart` |
| `SdkClient` | the event path of the client | `Track` `Flush` `Echo` `ReadSpool` `TruncateSpool` `Answered` `Retry` `GiveUp` `Outage` `Spool` `Crash` |
| `Imports` | jobs and `run_import` | `CreateImport` `Upload` `Start` `SetFailed` `SetProcessing` `AcceptLine` `RejectLine` `RaiseLine` `PutReport` `Finalize` `Crash`, live traffic |
| `Engine` | `compute_deployment` and `issue_report` | `Measure` `NumberFigure` `InsertFigure` `CommitFigures` `Announce` `CheckLifted`, `SelectFigures` `NumberReport` `IssueReport` `PutArtifact` `NotifyIssued`, `Crash`, changes of the inputs |
| `Alerts` | monitors and the queue | `Scan` `Raise` `Announce` `CommitAlerts` `Die`, acknowledgement, conditions that appear and clear |
| `MC*` | small instances of the above for TLC | |
| `Ingestion_proofs` `Webhooks_proofs` `Admission_proofs` `Engine_proofs` `ConfigPlane_proofs` | the theorems about the module each is named after | |
| `Pipeline_proofs` | the theorems about `Aggregates` and `Pipeline` | |
| `System_proofs` | the theorems about `SdkClient` and `System` | |
| `Opsctl_proofs` | the theorems about `Imports` and `Alerts`, the jobs that operators start | |

`Ingestion` uses the abstract specification `WitnessStore` through `INSTANCE`, with
the committed keys and the given answers in place of its variables. `Pipeline` extends
`Aggregates`: the tables and their folds are the same, the workers and their transactions are
added, `PipeSpec` is the specification of the workers and `ImplementsAggregates` is the
`Spec` of `Aggregates`. `System` extends `SdkClient`: its
server actions are those of the abstract store and of the atomic folding, which
is what `Ingestion` and `Pipeline` are proved to implement, and it adds
what only the composition has: a request that goes on after its client left.
The other modules are joined at the tables they share: what one writes is an input chosen by `\E` in the
other (live traffic in `Imports`, roster changes in `Pipeline`, changed
evidence and parameters in `Engine`).

Conventions:

- `pc[p]` names the statement that process `p` executes next; a process that is
  `"idle"` is outside the operation.
- A transaction that is open is a value kept with its process (`draft`, `Open`)
  and reaches the tables in the commit action only. A process that dies loses it.
- Data are abstracted to what the properties tell apart. An event in
  `Ingestion` is its deployment, the fact it is about, its origin, its time,
  whether its identifier breaks the declared format, and the first defect that
  validation would find. A figure is its status, its grade, whether it has a
  value, and its stamps. Amounts, texts and ids are left out.
- Constants marked `bound:` keep the state space finite and have no counterpart
  in the code. History variables are marked `history:`.
- In `ConfigPlane` the handlers share their actions: "look for the natural key,
  then insert" is written once, and the request says which handler it is. The
  unique constraints of the schema are one operator (`UniqueColumns`); an INSERT
  waits for the open transactions that hold an entry of its row (`Holders`), an
  UPDATE for those that have written the row (`Lockers`).
- An operator whose comment begins with *Faulty:* is a version of the following
  definition with a plausible mistake in it. It is used by no specification; it is there to show
  that a property would notice the mistake (`mutants` in `PROJECT.json`).

## 3. Runs

Each run is started as `tlc -config <run>.cfg <module>`. They take between a few
seconds and about three minutes (`Engine`). Deadlock is not an error
in any of them: every process may be idle and every bound used up, and the runs
that must not get stuck say so by a liveness property.

### Ingestion (`MCIngestion`)

Two production processes and one sandbox process, one deployment that is
registered and paused, a format that is declared meanwhile, a clock of two
values, seven possible submissions of which two are made. Two submissions are
what a race needs; seven kinds contain the same fact twice, a batch that holds
it beside another event, a key without scope, an event that the configuration
or the passage of time invalidates, malformed events, an event that makes the
batch fail, and a test-mode key. `Horizon` and `Skew` are zero, so that one tick
moves an event across both boundaries.

- `OneRowPerFact`: no two rows of `events` have one dedup key.
- `AcksDurable`: whatever was answered as accepted or duplicate (even if the
  answer is still in `results`) is committed.
- `AcceptedOnce`: of all answers about a fact at most one is "accepted".
- `StatusNeverRegresses`: `event_status` never takes back an answer.
- `EveryRequestEnds`: a submission is answered, or its process dies.
- `ImplementsWitnessStore`: every statement is a step of the atomic store or
  changes nothing there.

### Aggregates (`MCAggregates`) and Pipeline (`MCPipeline`)

`Aggregates`: nine events of two days, which share statistics, work item and
meter rows, ingested and folded in every order; one quantity exceeds the
capacity of its column, two events tell a size of the work item, and a gauge is
read twice on one day. `StatsExact`, `ActivityExact`, `CountersExact` and
`ItemsExact` compare the incrementally kept rows with a reference definition over
the processed events: `StatsExact` includes the greatest event time;
`CountersExact` says that a counter is the sum of its deltas, that no reading of
a gauge is added up and that a gauge shows one of its readings (not necessarily
the last one, section 4); `ItemsExact` says that a work item is there exactly when
an event is joined to it and has a size exactly when one was told, whatever is
folded afterwards.

`Pipeline`: two workers, four events that all meet in the same statistics row
and in pairs in the same work item and meter rows, two changes of the roster,
one death, and a counter that overflows with the second reading.
`ImplementsAggregates` says that the statements of all workers together are the
atomic folding (in particular, all invariants of `Aggregates` hold of the tables);
`EveryEventFolded` that no event stays accepted for ever unless it, or one that
stands before it in the queue, overflows.

### Webhooks (`MCWebhooks`)

One subscription, two workers, one verifier, a schedule of two attempts, two
notifications, one death. Two attempts contain the first, a middle and the last
one; two notifications let the suspension by one delivery meet the other.
`TriesAccounted`: the POSTs made are those recorded, plus those in flight, plus
those whose record was rolled back. `LogIsTruthful`: a delivery recorded as
delivered was received, a suspension has a dropped delivery behind it, and the run
of each recorded attempt began at least the delay of the schedule after the run of
the one before (`began` keeps when they did). `EndedStaysEnded`: an ended delivery is not touched
again. `EveryDeliveryEnds`.

### System (`MCSystem`)

Three events, one of which the server rejects, in chunks of two, one retry, with
and without a buffer file. The server may answer with an error after any number
of events of a batch; the connection may break and the client may die while the
request goes on, to be carried out later, in part or never; the pipeline folds
whenever it likes. Three events are the least that make a second chunk.
`AnsweredIsDone`: what was answered is nowhere kept to be sent again.
`AnsweredIsStored`: what the client let go of because it was answered is in the
store, or in quarantine if it was rejected. `CallsReturn`: every `flush` and
`echo` ends. `TrackedIsCounted`: what is given to a buffered client is folded
into the aggregates (or quarantined), provided that the application keeps
calling `flush` and the server stops failing at some time; events given to
`echo`, and behaviours with a crash or a broken connection, are excepted, because
the client does not keep those events (section 4).

### Imports (`MCImports`)

Two jobs, two runners of which one may die, three executions: two that overlap
and one that repeats. `CountsTruthful`: the counts of a finished job are those
its file can have produced, and every accepted or duplicate line is stored.
`ReportExists`: a job that promises a report has one.

### Engine (`MCEngine`)

One deployment of type agent, two processes, two executions of computation or
report, three changes among evidence (weak, then clear), parameter versions (one
in force when the period starts, one not yet), a license without a price and
two changes of
one period (one of the whole workspace and a later one of the tool, declared in any order,
of which the second may supersede the first), and one death. Two processes and executions are what a race
for a version needs; three changes allow a figure to be refused, to become
answerable and to be priced.
`VersionsContiguous`: the versions of a figure are 1..n, without twins.
`ReportsAreSnapshots`: a report binds figures of one committed state.
`IssuedIsReadable`: what `report.issued` announces can be read.
`UpdatesAccounted`: a committed version was announced, is about to be, or was
lost with its process; and a lift is announced only of a figure that was
refused. `PricedFromStamp`: the parameter version stamped on a figure is in
force when the period starts and has the labor rate that hours saved were
multiplied with, whatever versions are created meanwhile.
`TreatmentFromLog`: the change
treatment of a figure is that of the earliest change of its window known when the
log held its first n changes, for some n, and not of a later one. To say this, the
log is kept in the order of its ids and a change remembers which one superseded it
first (`KnownAt`). Changes of other deployments are not in the instance; the
theorem `StampedTreatment` has them.
`RunsEnd`: a computation ends, also when one of its figures cannot be stored.

### Alerts (`MCAlerts`)

Two monitors, three executions, three changes of conditions, one death.
`QueuedIsAnnounced`: an alert in the queue was announced.

### ConfigPlane (`MCConfigPlane`)

Two processes, three requests, one death; a behaviour serves the requests of one
of six workloads, each of which contains the requests that meet in the same rows or
index entries: onboarding of a deployment and its service account, declarations
by natural key (an empty roster among them) and their deletion, parameters and the current license, upkeep,
corrections of one change event, and roster batches that claim the same
identifiers in opposite order. Two requests make a race or a deadlock, the third
repeats one of them after its answer (or its process) was lost.
`RetriesAgree`: all answers that name the row of a natural key name the same
committed row, with all its links. `VersionsGapless`: parameter versions are
1..n. `LicensesTile`: the licenses of a deployment do not overlap, each ends
where a later one begins, and one is current. `RosterAnswersTrue`: an entry is
rejected only for an identifier another user has, and after "upserted" the user
is there and each identifier has one owner (not necessarily this user, section
4). `EveryRequestEnds`: no request is stuck, deadlocks included.

### Admission (`MCAdmission`)

Two API processes, one of which has two requests in flight, three requests, a
key scoped to one of two deployments and a test-mode key, one edit (a command of an operator,
an import or a restart), a window of two seconds and a month that ends with it.
Batches have two events, so that a batch crosses the quota.
`RateBounded`: in one window no more requests are admitted than the highest
limit allows for each process and each restart (the counters are in memory).
`QuotaBounded`: the quota, which is compared before the batch is stored, is
overshot by no more than one batch for each process. `AuthorizedOnly`: nothing is
stored for a request that arrived after its key was revoked, for a key of
another mode, or in a deployment that a scoped key was not granted.
The slots of one process are symmetric; no property names a slot.

### Fairness

- `Ingestion`, `Engine`: weak fairness of the steps of each process. Nothing in a
  handler waits for a client, and a lock is granted when it is free. Starting an
  operation is not fair.
- `Pipeline`: strong fairness of each worker. `run_pipeline` is the tick of a loop.
  PostgreSQL queues the waiters of a row lock in order of arrival; a worker that
  fails and comes back cannot overtake the waiting one for ever.
- `Webhooks`: weak fairness of the workers (`deliver_once` runs from cron, and a
  POST times out), of verification and of time. Consumers may fail for ever.
- `ConfigPlane`: weak fairness of the request that a process serves. A statement
  that waits for nobody is executed, and PostgreSQL looks for deadlocks.
- `System`: weak fairness of the running call (`Progress`: requests time out) and of
  folding each stored event (`run_pipeline` runs from cron, and `EveryEventFolded`
  is checked for it in `Pipeline`; overflow is left out here). Nothing is
  assumed of requests nobody waits for. `TrackedIsCounted` has a premise of its own,
  `Recovery`: `flush` is called from time to time, and the server's errors end.
  `CallsReturn` does not need it.
- `SdkOutage` checks an invariant and needs none.

`Aggregates`, `Imports`, `Alerts` and `Admission` have safety properties only.

## 4. Where the code and its documentation disagree

Two disagreements have a run that shows them.

- **WebhooksResume** (`ReverifyResumes`): the comment at
  `webhooks_delivery.py:133` says "re-verify to resume"; `verify_webhook`
  accepts unverified subscriptions only, and nothing makes a suspended one
  unverified. The run uses the real schedule.
- **SdkOutage** (`SpooledSurvive`): `INTEGRATION.md:97` says "failed flushes survive
  crashes/outages"; `flush` drains and truncates the spool and writes it back
  only on `TrueFigureError`, which a broken connection is not.

The others were met while the models were written. The models behave as the
code does in each case, and the properties above are stated so that they hold of it.

- `api/routes/ingest.py:229`. An event of a paused deployment (or a race on the
  dedup key) raises out of the loop of ingest_events: the events before it are
  committed, the batch is answered by one error and the events behind it are
  never looked at. api/routes/ingest.py:3 says "one bad event never blocks the
  rest", and docs/error-codes.md:5 "Batch rejections are per-item,
  index-aligned".
- `domain/entities/eventkey.py:54`. The natural key does not contain the origin,
  so the second witness of a fact is answered as a duplicate.
  docs/semantics.md:49 says "Different origins (customer_system vs
  vendor_product) are never deduped against each other".
- `api/routes/ingest.py:95`. The timestamp and format checks run before the
  dedup lookup, so a stored event that is sent again can be rejected (TF-EVT-009
  or TF-EVT-004). sdk/INTEGRATION.md:49 says "resend the same fact freely; the
  server deduplicates it".
- `domain/policies/pipeline.py:224`. gauge_last is overwritten by whichever
  reading is folded last. tests/test_p4_pipeline.py:125 says "GAUGE: last
  reading of the day".
- `domain/policies/pipeline.py:70`. An unresolved event gets the status
  resolved, and run_pipeline only ever selects accepted events: it is never
  resolved again, also when the roster learns the identifier later. The comment at
  domain/policies/pipeline.py:70 says "unresolved identity stays re-resolvable",
  the one at domain/policies/pipeline.py:135 "re-resolvable later", and
  docs/semantics.md:97 "unresolved-event policy defined (re-resolvable forever".
  No property asks that such a row stays as it is.
- `api/routes/ingest.py:296`. event_status finds a rejection as long as its row
  exists, and nothing in the repository deletes rows of rejected_events.
  supabase/migrations/0001_certified_schema.sql:793 says "App-managed retention,
  default 90 days" (docs/IMPLEMENTATION.md:33 calls it a retention job). With such
  a job a rejection would be forgotten: `StatusNeverRegresses` holds of the code
  as it is and would then have to be limited to the time of retention.
- `api/routes/config_plane.py:501`. create_webhook looks for a subscription with
  the same url and the same array of events, in the order they were given, so the
  same events in another order make a second subscription. The comment before it
  says "Idempotent by (workspace, url, event set)"; the key of
  `ConfigPlane` is abstract and does not tell two orders of one set apart.
- `domain/policies/pipeline.py:229`. A meter value that does not fit
  NUMERIC(20,6) raises, the event stays accepted and is the oldest again at
  every run, so later events are never folded. domain/policies/pipeline.py:3
  says "For each newly-accepted event" and line 6 "It then folds the event into
  the three live-serving daily aggregates exactly once".
- `domain/policies/webhooks_delivery.py:140`. next_retry_at is the time of this
  run plus the offset. domain/policies/webhooks_delivery.py:32 says "Cumulative
  retry offsets from first attempt".
- `domain/policies/webhooks_delivery.py:127`. The sixth failed attempt suspends
  the subscription, about a day and a half after the first.
  domain/policies/webhooks_delivery.py:133 says "7 days of total failure ->
  suspend the webhook".
- `domain/policies/webhooks_delivery.py:161`. The UPDATE after the challenge
  does not test the status, so a subscription deleted meanwhile becomes
  verified. supabase/migrations/0001_certified_schema.sql:784 says
  "webhook_status moves unverified -> verified via the 30s challenge".
- `sdk/truefigure/client.py:158`. When a chunk fails and there is no buffer,
  only that chunk is put back; the chunks behind it are gone.
  sdk/truefigure/client.py:7 says "At-least-once delivery".
- `sdk/truefigure/client.py:65`. drain truncates the file before the events are
  sent. sdk/INTEGRATION.md:97 says "failed flushes survive crashes/outages".
- `api/routes/ingest.py:187`. The server looks at the mode of the key and never
  at X-TrueFigure-Mode, so echo with a production key stores the events.
  sdk/truefigure/client.py:180 says "stores nothing server-side".
- `api/routes/imports.py:131`. Two runs of one job write the same report path
  and finalize in either order. docs/semantics.md:109 promises a "per-line
  reject report" of the job.
- `api/routes/imports.py:117`. Nothing catches what _process_one raises, and the
  status processing stays. sdk/truefigure/client.py:412 polls "until the job
  reaches a terminal state".
- `domain/engine.py:171`. A seat figure without any price is written as computed
  with no value, which ck_figures_computed_shape refuses: the computation of all
  figures fails. domain/engine.py:5 says refusal and awaiting-parameters are
  "first-class PERSISTED states, never errors".
- `domain/engine.py:316`. The last two versions are read after the commit; when
  another computation commits in between, the change from refused to computed is
  no longer among them. domain/engine.py:315 says "a previously-refused figure
  that is now computed became answerable".
- `domain/engine.py:340`. The figures are selected before the version is taken,
  so a slower run can issue the later version with the older figures.
  domain/engine.py:326 says "Bind the latest version of each figure".
- `domain/engine.py:165`. A seat figure priced from the license is computed
  without a parameter version when none is in force.
  supabase/migrations/0001_certified_schema.sql:782 says "version is stamped
  onto every dollarized figure".
- `domain/engine.py:91`. LIMIT 1 takes the earliest change of the period; a tool
  change behind another change is ignored. domain/engine.py:84 says "incumbent
  tool_change is never credited to the measured vendor".
- `domain/engine.py:346`. The path of the artifact does not contain the
  deployment, so the reports of two deployments for one period and version
  overwrite each other's artifact. domain/engine.py:326 says "into an immutable
  report".
- `api/routes/config_plane.py:230`. ON CONFLICT DO NOTHING drops an identifier
  that another batch claimed after the lookup, and the entry is answered as
  upserted. contract/openapi.yaml:106 says "identifier uniqueness per namespace
  (TF-CFG-004 per item)".
- `api/routes/config_plane.py:238`. An entry that fails with anything but a
  TFError (a kind the database does not know, a deadlock) ends the batch with
  TF-SRV-001 after earlier entries were committed. contract/openapi.yaml:106
  says "Per-item results".
- `domain/engine.py:417`. emit commits on a connection of its own before the
  alert's transaction does. docs/semantics.md:116 calls the queue the "durable
  stateful twin of alert.raised".
- `domain/engine.py:395`. run_monitors only inserts open alerts.
  supabase/migrations/0001_certified_schema.sql:801 says "resolved when the
  condition clears".

(Paths without a directory prefix are under `src/src/truefigure_server/`; `sdk/`,
`docs/`, `tests/` and `supabase/` are under `src/`.)

## 5. Proofs

### Ingestion

`Ingestion_proofs` proves, for every set of processes, deployments and
submissions and every value of the bounds:

| Theorem | Statement |
|---|---|
| `TypeCorrect` | `Spec => []TypeOK` |
| `Invariance` | `Spec => []IInv` |
| `OneRowPerFactHolds` | `Spec => []OneRowPerFact` |
| `AcksDurableHolds` | `Spec => []AcksDurable` |
| `AcceptedOnceHolds` | `Spec => []AcceptedOnce` |
| `StatusNeverRegressesHolds` | `Spec => StatusNeverRegresses` |
| `Refinement` | `Spec => ImplementsWitnessStore` |

Assumptions: `BoundsAssumption` (the bounds are natural numbers) and
`RequestsAssumption` (what a submission and an event look like). Nothing is
assumed about how many processes or submissions there are, and processes of
both environments are covered.

The argument. `OneRowPerFact` is not inductive: `Commit` appends the open row of
a process, and nothing in `OneRowPerFact` says that this row is new. It is new
because the insert waited for every transaction with the same key and failed if
the key had been committed, and no row with that key can be committed while
this one is open. That is `OpenRowsFresh`: an open row has no
committed twin and no open twin. `AcceptedOnce` needs more of the same: a fact
that is answered as accepted is stored (`AcksDurable`), so a later commit, whose
row is fresh, is about another fact. The inductive invariant is

    IInv == TypeOK /\ Safe
    Safe == OneRowPerFact /\ OpenRowsFresh /\ AcksDurable /\ AcceptedOnce

`TypeOK`, `OneRowPerFact`, `AcksDurable` and `AcceptedOnce` are invariants of the run
`Ingestion`; the whole of `IInv` was checked on the same instance. The proof treats the actions in three
classes: those that leave rows, answers and open transactions alone
(`QuietStep`), those that only add an answer about a stored or unstored fact
(`CollectSays`, `FinishSays`), and `Insert` and `Commit`, which have a lemma each.
`StatusNeverRegressesHolds` and `Refinement` follow from `StepEffect`: a step
either leaves the set of stored keys alone or adds one fresh key, and never both stores and
tells.

### Webhooks

`Webhooks_proofs` proves, for every set of subscriptions, workers and verifiers,
every retry schedule and every bound:

| Theorem | Statement |
|---|---|
| `Invariance` | `Spec => []IInv` |
| `TypeCorrect` | `Spec => []TypeOK` |
| `TriesAccountedHolds` | `Spec => []TriesAccounted` |
| `LogIsTruthfulHolds` | `Spec => []LogIsTruthful` |
| `EndedStaysEndedHolds` | `Spec => EndedStaysEnded` |

Assumption: `ScheduleAssumption` (a schedule of at least one positive delay,
natural bounds, and a `None` that is no subscription and no delivery).

The argument. A worker writes `attempt_count` from the value it read before the
POST. That this loses no attempt is a matter of the row lock, so
the inductive invariant adds to `TypeOK`, `TriesAccounted` and `LogIsTruthful`:

- `RowsLocked`: the row a worker has is retrying, its `attempt_count` is the one
  that was read, and no other worker has it;
- `QueueOpen`: a retrying delivery has attempts left, and what is not emitted yet
  is absent (so `emit` cannot write a row that a worker has);
- `AnswersReceived`: a 2xx answer about to be recorded came from a consumer that
  has the notification;
- `DelaysKept`: a delivery that is tried again waits for the delay of the schedule
  after the run of its last recorded attempt, and a worker that has it began after that.

By `RowsLocked` at most one worker has an answer about a delivery in its hands
(`RecordingAlone`), so the set counted in `TriesAccounted` has no member or one,
and a POST moves from there to `attempt_count` or to the lost ones. The whole
invariant was also checked with TLC on the instance of the run `Webhooks`.

### Admission

`Admission_proofs`, for every set of keys, processes, requests in flight, rates,
quotas and bounds (`AdmissionAssumption`: limits are natural numbers, a slot
belongs to a process, there are finitely many processes):

| Theorem | Statement | What makes it inductive |
|---|---|---|
| `Typed` | `Spec => []TypeOK` | |
| `Authorized` | `Spec => []AuthorizedOnly` | `Authenticated`: what was checked of a request holds until it is stored, because keys are revoked for good and grants are only added |
| `RateLimited` | `Spec => []RateBounded` | `Ticketed`: the requests admitted in a window are numbered by (process, count) and (restart, count), with no number given twice and none above the highest limit |
| `QuotaLimited` | `Spec => []QuotaBounded` | `QuotaCovers`: what a month has counted plus what open batches still owe stays below the quota and one batch for each process; `OneHandler`: no process has two requests in a handler |

`RateBounded` counts requests and says nothing of who they were; the tickets turn
the bound into the cardinality of a set of pairs.

### Client and System

`System_proofs`, for every set of events, every size of a chunk, any number of
retries and all faults (`ClientAssumption`, `SystemAssumption`):

| Theorem | Statement |
|---|---|
| `ClientAnsweredOnce` | `Spec => []AnsweredIsDone` |
| `ClientKeeps` | `Spec => []NothingLost` |
| `SystemClient` | `SysSpec => Spec` |
| `AnsweredOnce` | `SysSpec => []AnsweredIsDone` |
| `AnsweredStored` | `SysSpec => []AnsweredIsStored` |
| `NothingLostEndToEnd` | `SysSpec => []Accounted` |
| `SystemStore` | `SysSpec => Store!Spec` |

`ClientInv` adds that the client has an event at one place only (`HeldOnce`: in
`pending`, the batch or the buffer file, and there once) and that it has nothing the
application did not give it. `SystemClient` is a step simulation: a step of the
system is a step of the client or leaves its variables alone. `AnsweredStored`
adds `AwaitedIsSent`: of what the awaited request was sent with, everything that
is not in the store or in quarantine is still to be processed.

`NothingLost` is the safety half of `TrackedIsCounted`: a client with a buffer file
that has met no crash and no outage has every event it was given and that was not
answered. It needs `CallKeeps`, which says where the events of a call are: no batch
outlives its call, the file is truncated only when the batch has its
events, echo sends what is no longer asked to be delivered, and half a line (which
makes `drain` raise and the batch vanish) is left by a crash only. The two conditions are
those without which it is false: the client without a buffer file drops the
chunks behind the one that fails, and section 4 shows the outage. `Accounted` joins
it with `AnsweredStored`: such an event is in the client, in the store or in quarantine.

`SystemStore` closes the composition: with the answered, well-formed events as what was
told, the server of `System`, its abandoned requests included, implements
`WitnessStore`, the specification that `Ingestion` is proved to implement. It needs that only malformed
events are in quarantine (`ServerTypeOK`), or an answer could claim a fact that is not
stored. The client does not distinguish "accepted" from "duplicate", so the
mapping tells it "duplicate", the weaker claim. The invariants `KeepInv` and `StoreInv` and
this refinement were checked with TLC on the instance of the run `System` first.

### Aggregates and Pipeline

`Pipeline_proofs`. The atomic folding, for every finite set of events (`EventsAssumption`):

| Theorem | Statement |
|---|---|
| `Typed` | `Spec => []TypeOK` |
| `StatsTrue` | `Spec => []StatsExact` |
| `ActivityTrue` | `Spec => []ActivityExact` |
| `CountersTrue` | `Spec => []CountersExact` |
| `ItemsTrue` | `Spec => []ItemsExact` |

and the workers, for any number of them, any roster and any deaths
(`PipelineAssumption`: NULL is no row):

| Theorem | Statement |
|---|---|
| `Refinement` | `PipeSpec => ImplementsAggregates` |
| `WorkersExact` | `PipeSpec => [](StatsExact /\ ActivityExact /\ CountersExact /\ ItemsExact)` |
| `NoDeadlock` | `PipeSpec => []NoCircularWait` |

A fold adds one row to the set that the reference definition counts and one to
the counter; `last_event_at` is the larger of two. A meter adds a quantity instead,
and what a sum over a set of events is would take an induction over sets. `CountersExact`
therefore counts units: an event of quantity q reports the pairs of itself with
1 to q (`Units`), the units of different events are different, and a fold adds q of them
(`AddUnits`, from the cardinality of a disjoint union). That `Units` counts what the sum
over the events is, TLC evaluates for all sets of events of the instance
(`UnitsAreSums` in `MCAggregates`). `ItemsTrue` needs that an accepted event is
joined to nothing yet (`Unjoined`).

`Refinement`: the statements of any number of
workers, with their waits and deaths, implement the atomic fold. Its invariant
says that no row is locked twice (`LocksExclusive`), that a worker knows the event
it has locked (`Known`) and, for each table, that what a worker has drafted is the
fold of the row that is committed *now*, which it has locked (`Drafted`). `Commit` is then the
step `Fold` of `Aggregates`, and every other step changes no committed row.
`WorkersExact` is what the theorems about the folding then say of the pipeline's tables.

`NoDeadlock`: in every set of workers there is one that waits for none of the others.
The locks of a worker are those of the statements behind it (`LocksInOrder`), so it waits only for
workers that have fewer statements left. This is the part of
`EveryEventFolded` that needs no fairness, and what makes its fairness assumption
realistic: PostgreSQL never has to break a deadlock between pipeline workers. It is
about the row locks of the upserts; locks that foreign keys take on referenced
rows are shared and not modelled.

### Imports and Alerts

`Opsctl_proofs`, for any number of processes, jobs and runs, files of any length
(`FileAssumption`) and any conditions:

| Theorem | Statement |
|---|---|
| `TrueCounts` | `Spec => []CountsTruthful` (`Imports`) |
| `ReportThere` | `Spec => []ReportExists` (`Imports`) |
| `Announced` | `MonSpec => []QueuedIsAnnounced` (`Alerts`) |

`ImportInv` says of each run that what it has counted is true of the lines before the
one it is at (`RunTrue`): they add up to the lines passed, and of the accepted and duplicate
ones there are no more than lines whose fact is stored. The store only grows, so the
steps of other runs, of live traffic and of the run itself keep this (`StaysTrue`);
`Finalize` copies it into the row (`JobTrue`). Two runs of a job need no lock for this: each
finalizes with counts of its own that are true, and a report, once stored, stays.
That the report is there when the row offers it is the order of
`PutReport` and `Finalize`, carried by `RunTrue`.

`AlertInv` says that a monitor has announced every row of its transaction except
the last one while it is still to be announced (`DraftAnnounced`), so a commit puts
announced rows into the queue only.

### Engine

`Engine_proofs`, for any number of processes, deployments, edits, failures and
crashes (`EngineAssumption`):

| Theorem | Statement | Invariant on top of `Core` |
|---|---|---|
| `Typed` | `Spec => []Core` | `Core` is `TypeOK`, `VersionInv` and `ReportsGapless` |
| `Contiguous` | `Spec => []VersionsContiguous` | none |
| `StampedPrice`, `StampedTreatment` | `Spec => []PricedFromStamp`, `Spec => []TreatmentFromLog` | `StampInv`: a figure is explained by a parameter version and a prefix of the change log that are there from the moment it is computed; later changes leave what was known with that prefix alone (`InputsGrow`) |
| `Snapshots` | `Spec => []ReportsAreSnapshots` | `SnapshotInv`: what was selected for a report is what was the latest after some commit |
| `Readable` | `Spec => []IssuedIsReadable` | `ReadableInv`: a report that is about to be stored or announced has its row |
| `Accounted` | `Spec => []UpdatesAccounted` | `PendingInv`, `AccountInv`, `LiftedInv`: a version is announced, lost or owed by exactly one process |

Versions are read with `MAX(version) + 1` before the INSERT, in transactions that
do not see each other. `VersionInv` carries the argument: a number that was read
is never above the next one (`NumberedNext`), the open row of a transaction is
exactly the next one (`OpenIsNext`, by the unique index), so a commit adds the next
version and makes every equal number that somebody still has fail.

### ConfigPlane

`ConfigPlane_proofs`, for any number of processes, any workload and any number of
requests and deaths:

| Theorem | Statement |
|---|---|
| `Consistent` | `Spec => []Inv` |
| `Gapless` | `Spec => []VersionsGapless` |
| `Tile` | `Spec => []LicensesTile` |
| `Idempotent` | `Spec => []RetriesAgree` |
| `RosterTrue` | `Spec => []RosterAnswersTrue` |

Assumptions: `ConfigAssumption` (NULL is no process and no number),
`RequestsAssumption` (what the request models require of a body) and
`SeedAssumption` (the rows to start with are deployments and users, with ids and
keys of their own).

The invariant is in three layers.

- `Db`, about rows and indexes only: ids and entries are unique among the
  committed rows *and* in what each open transaction sees; no transaction has an
  entry that another one has or is about to give up (`EntriesOK`, which is what
  waiting in `Holders` is for); an UPDATE keeps table, key and window
  (`UpdatesOK`); links and identifiers refer to rows that are written before them or
  with them (`RefsOK`). There is one lemma for each way to change the tables:
  `DbInsert`, `DbUpdate`, `DbCommit`, `DbAbort`. They know nothing of handlers.
- `Core` adds for each process what its handler has written when it is at a
  statement (`Written`) and how far it is in its lists (`Control`). A commit of
  another process disturbs neither (`WrittenAfterCommit`), so each action is one
  lemma about the process that takes it.
- `VersionInv` (versions are 1 to n, and nobody holds a number above n + 1),
  `LicensesTile` itself, and `AnswersInv`: what was answered, and what a process is
  about to answer, is true of the committed rows. All actions but `NumberVersion` and
  `Commit` leave these alone or say something true (`Honest`).

`LicensesTile` needs no strengthening beyond `Core`: a transaction that declares a
license either closes the one that is committed and current, or there is none,
since otherwise the index on the current license would have refused its INSERT.

The proof found an ambiguity in the model, now gone: `AfterInsert` had two cases for a license without
users, of which TLC silently takes the first.

### Model-checked only

All safety properties of the passing runs are proved. What TLC alone checks is liveness, because the prover treats
neither fairness nor `ENABLED`: `EveryRequestEnds` (of `Ingestion` and of
`ConfigPlane`), `EveryEventFolded`, `EveryDeliveryEnds`, `CallsReturn`,
`TrackedIsCounted` and `RunsEnd`. So are the two disagreements of section 4 that have a
run, which are counterexamples and not theorems.

## 6. Not modelled

- Hashing of keys and tokens, encryption of webhook secrets, signatures: pure
  functions of libraries.
- Duplicates in `Admission` and limits in `Ingestion`: each module takes what the
  other one has as passed. `rate_limit_epm` is stored and shown, and no check
  reads it.
- The retries that a deadlocked client makes in `ConfigPlane`, beyond the repeated
  requests of a workload; the listing endpoints.
- In `System`: the interleaving inside a batch with other clients, which
  `Ingestion` has, and overflow, which `Pipeline` has.
- Wire models, error envelopes, formatting of ids, calendar arithmetic of
  periods, SELECTs of the read plane: no state.
- HTTP adapter of object storage: a path is assigned, read or absent.
- A secret that cannot be decrypted, which raises outside the try block of
  `deliver_once` (listed under `hazards`).
- Grants, row-level security and partitions of the schema; operator bootstrap;
  scripts, tests and generated documents.

## 7. Plan

Done, in this order: `Ingestion` with its abstract store and proofs; `Aggregates`
and `Pipeline`; `Webhooks` and its proofs; `SdkClient`; `Imports`; `Engine`;
`Alerts`; `ConfigPlane`; `Admission`; `System`.

What is left of the code is formatting of SELECTs, wire models, the natural key's
digest and calendar arithmetic: functions without state, which unit tests reach.

Proved: the theorems of section 5, among them every invariant, action property and
refinement that a run checks. What is left is liveness, which stays with TLC, and
what section 6 leaves out.
