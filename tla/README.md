# Verification of the event-driven data platform

TLA+ models of the parts of the platform that are hard to test, TLC runs over
small instances, and TLAPS proofs for every instance. File names below are
relative to the repository; `worker.py` and `repository.py` without a path are
those of `services/processing-service/app`.

1. The system  2. The modules  3. What the runs check  4. What is proved
5. Not modelled  6. Behaviours without a property  7. Running

## 1. The system

Producers send events to the ingestion service over HTTP; it wraps them in
envelopes and publishes them to one Kafka topic per domain, keyed by tenant and
business id. The processing service (a consumer group) applies each event to
Postgres: an inbox row, the raw event, a domain row, alerts, hourly and daily
metrics, a watermark. A Spark job consumes the same topics into serving tables.
The analytics service reads the metrics through a Redis cache, under row-level
security. A schema registry guards the contracts, a metadata service keeps
tenants and issues tokens. Scripts replay dead letters, rebuild and reconcile
metrics, check data quality, rehearse restores and onboard tenants; the ops
console shows what they leave behind.

| Component | State | Operations | Interacts through | What makes it correct | Hard behaviours | Module |
| --- | --- | --- | --- | --- | --- | --- |
| Processing service (`worker.py`, `repository.py`, `processors.py`) | consumer position, batch; tables `event_inbox`, `raw_events`, domain tables, `alerts`, `tenant_metrics_*`, `pipeline_watermarks` | poll, decode, nine repository calls per record, commit | Kafka group protocol, Postgres | each event counted once and in order; a commit passes nothing over; the inbox status is true | rebalances, redelivery, failure or crash between any two calls, fenced commits | `ProcessingWorker` |
| Ingestion service, producer SDK, `platform_shared/kafka.py` | none | ingest one, ingest batch, demo events; retry; publish with retries | HTTP, producer | an accepted event is in Kafka; copies are recognisable | lost answers, handlers that outlive their client, partial batches | `Ingestion` |
| Outbox (`sql/outbox`, `scripts/outbox_dispatch_plan.py`) | `event_outbox` status, attempts, lease | lease, mark published, mark failed | Postgres, producer | marks are true and final | dispatcher crash, slow dispatcher | `Outbox` |
| DLQ tool (`scripts/dlq_tool.py`) | `dlq_replay_audit` | replay | Kafka, Postgres | replays leave audits | death between publish and audit | `DlqTool` |
| Streaming job (`spark/streaming`) | checkpoints, watermark, dedup state, sink tables | micro-batches of four queries | Kafka, Postgres | sinks idempotent under replay, what arrives in time counted, what is refused dead-lettered | failure between sink calls and before the checkpoint; a watermark that follows the producers' clocks | `StreamingRecords`, `StreamingJob` |
| Analytics service, cache (`platform_shared/cache.py`), database access (`platform_shared/database.py`, `database/security/tenant_rls.sql`) | cached metrics, rate counters, pooled connections | cached, limited, plain, two-query and catalogue reads | Redis, Postgres | own data only; bounded staleness and rate; every request ends | racing fills, outages, expiring keys, one pool for all | `AnalyticsApi` |
| Authentication (`auth.py`, `oidc.py`) | JWKS cache | verify, get key, refresh | identity provider | withdrawn keys expire | unlocked cache under threads | `Access`, `SigningKeys` |
| Metadata service | `tenant_config`, `tenant_users`, tokens | issue token, upsert tenant and user | HTTP, Postgres | tokens open no more than their issuers had | chains of tokens | `TokenIssuer` |
| Schema registry (`services/schema-registry-service`) and rules (`platform_shared/schema_compatibility.py`) | subjects, versions, checks | register, check, read | HTTP, Postgres, contract scripts | versions immutable, numbered, compatible | racing registrations, retries, transitivity of the rules | `SchemaRegistry`, `SchemaCompatibility` |
| Backfill, three serving reconciliations, onboarding (`scripts/backfill_metrics.py`, `reconcile_metrics.py`, `platform_cli/tenant_onboarding.py`) | daily rows, `pipeline_run_log`, lineage | rebuild, compare, seed | the tables of the processing service | no count lost; alarms have a cause | two rebuilds at once, both beside the worker | `MetricRepair` |
| Backup and restore (`scripts/backup_restore_drill.py` and its parts) | dumps, manifests, scratch databases | dump, count, restore, verify, drop | Postgres tools | "passed" means restored | writers meanwhile, ignored exit code, names by the second | `BackupDrill` |
| Data quality (`scripts/run_data_quality_checks.py`) | results, daily scores | eight checks per tenant, save | Postgres | a score has its results | runs that cross or stop | `DataQuality` |
| Ops console, reconciliation and exercise records | gauges, `reconciliation_audit`, `pipeline_run_log` | refresh on scrape; write rows | Postgres, Prometheus | a scrape shows the tables | overlapping scrapes, refreshes that fail alone | `OpsSignals` |
| Spark batch jobs and their DAG | output directories, stage tables | normalize, aggregate, sessionize, compact | `raw_events`, files | outputs whole | overlapping runs, in-place overwrite, jobs that die | `BatchJobs` |
| Data products, lineage and catalogue, copilot, deployment, dbt, pages | - | reports, configuration, reads | - | - | none that a model checker reaches | section 5 |

`PROJECT.json` lists the hazards these behaviours amount to, each at its line,
with the properties about it.

## 2. The modules

| Modules | Role |
| --- | --- |
| `EventLedger` | the abstract promise about an event's additive effects: claimed once, then alert, hourly, daily in this order, then closed |
| `ProcessingWorker` | refines `EventLedger` |
| `StreamingJob`, `Ingestion`, `Outbox`, `DlqTool`, `AnalyticsApi`, `TokenIssuer`, `SchemaRegistry`, `SigningKeys`, `MetricRepair`, `BackupDrill`, `DataQuality`, `OpsSignals`, `BatchJobs` | state machines, as in the table above |
| `StreamingRecords`, `Access`, `SchemaCompatibility` | pure rules: the verdicts of the streaming job on one record; who a caller is and what it may see; schema compatibility, and what documents a schema accepts |
| `ProcessingWorkerProofs`, `SchemaRegistryProofs`, `StreamingJobProofs`, `IngestionProofs`, `MetricRepairProofs` | theorems about one module |
| `DispatchProofs` (`Outbox`, `DlqTool`), `TenantApiProofs` (`AnalyticsApi`, `TokenIssuer`), `OperationsProofs` (`SigningKeys`, `BackupDrill`, `DataQuality`, `OpsSignals`, `BatchJobs`) | theorems about several modules |
| `MCProcessingWorker`, `MCSchemaRegistry`, `MCStreaming` | constants of the runs of one module |
| `MCServices`, `MCOperations` | several modules in one run: components that share nothing a property is about, so a behaviour runs one of them (its `scene`), and the others stay in one initial state |

### ProcessingWorker

`log`, `committed` and `owner` are Kafka's; `inbox`/`status`, `raw`, `rows`,
`stock`, `alerts`, `hourly`, `daily` and `watermark` are tables; `pc`, `member`,
`position`, `handled`, `cur`, `rec` and `counted` are one worker's loop.
`failed` is the error log ("failed to process Kafka record"), and `budget` bounds
the faults.

Each repository call is a transaction of its own (`execute_scoped`), so each is
one action, in the order of `handle`: `WriteInboxRow`, `WriteRawEvent`,
`MarkEventDuplicate` (only when the raw event was there), `WriteDomainRow`,
`WriteRiskAlert` (risky payments), `WriteMetricHourly`, `WriteMetricDaily`,
`MarkEventProcessed`; then `UpdateWatermark` and `CountProcessed` of `start`. An
event already in the inbox skips to `UpdateWatermark`, as `handle` returns early.
`Fail` is the `except Exception` of the loop at any of these points: the next
call raised, or the last one took effect and its answer was lost. `Crash` stops
the process anywhere and `Restart` starts it.

The consumer: `Join` is the rejoin inside `poll` after a rebalance, from the
committed offsets; `Poll` fetches records and resets `processed_since_commit`;
`TakeEnvelope`/`TakePoison` take the next record, partition by partition;
`SkipCommit`, `Commit` and `CommitFails` end the batch. A commit of an old
generation is refused by the coordinator; the exception is outside the `try`, so
the worker is `dead` - the process lives and answers `/health`, and nothing
starts the consumer again except a restart of the process.

Abstractions, and why they are sound for the properties:

- An envelope is a model value with the attributes the code branches on. Its
  metric delta is fixed by the envelope, so a metric row is how often each is in it.
  Only the stock is a number, because `greatest(..., 0)` cuts it off: `Delta` is an
  integer of either sign (`schemas.py:108`), as producers send (`main.py:286` of the
  ingestion service).
- A record that fails validation is `Poison`. One whose tenant has no
  `tenant_config` row fails at the inbox insert with no effect, like `Poison`.
- `poll` returns at most 250 records; no modelled log is that long.
- `Rebalance` assigns the partitions among live workers, in any way, and makes
  every generation old; each worker rejoins when it polls. Assigning a partition
  to a worker in the middle of a batch is allowed, which gives more behaviours
  than the group protocol. kafka-python's eager protocol discards positions at a
  rejoin, which `Join` does.
- `SeedRawEvent` stands for `tenant_onboarding.py` and the demo seed, which write
  `raw_events` without an inbox row; what they write to the metrics is in
  `MetricRepair`.
- Each write of a domain table is "the row now holds this event's values"; columns
  that an upsert leaves alone are not distinguished.

### Ingestion

`program`, `pos`, `attempt`, `client` and `outcome` are a program that uses the
SDK; `handler` holds one handler of the service per attempt, `fresh` counts
random ids and `topic` is the domain topic. `SendRequest`, `ReceiveReply` and
`TransportError` are an attempt in the SDK's loop: a 2xx is returned, a 4xx
raised, a 5xx and every transport error tried again up to `MaxRetries`. The
handler goes on after its client has given up: `RefuseBatch`, `Refuse` and
`RefuseDemo` are the error answers, `BuildEnvelope` chooses the id (given, derived from
the idempotency key, or random), `SendSucceeds` and `SendFails` are one round of
`KafkaEventProducer.publish`, which may fail with the record in the topic, and
`ReplyToBatch` collects the results. The producer keeps one request in
flight, so a send that outlives its future lands before the next one. Events are
model values; ids are integers, random ones positive, fixed ones not. `RefuseBody`
stands for what is answered before the handler runs: a 401 and a 422 are one
refusal, since the SDK raises on both.

### Outbox and DlqTool

The repository ships the outbox's statements and a plan of the loop, no
dispatcher. `LeasePending`, `PublishRow`, `MarkPublished` and `MarkFailed` are
the plan with these statements; `RetryDelayEnds` is `available_at` passing and
`CrashDispatcher` loses a lease. Batches are one row each: a batch is marked row
by row, and no property is about its size.

A replay (`StartReplay`, then per record `SkipRecord`, `ReplayRecord` or
`ReplayFails`, and `AuditReplay`) reads the dead letters from the start, since the
tool commits no offset; `EndReplay` is its end or its death, at any point. A
letter is its event, its partition and its shape: written by `publish_dlq`, without
the original event, written by the streaming job, or unreadable. A read covers a
prefix of each partition (`Reads`): `--max-records` ends the loop over one partition's
records (`dlq_tool.py:110`), so each further partition of a poll may add one more.

### StreamingRecords and StreamingJob

A record is a model value with the set of its flaws, its key (tenant and event id) and
its timestamp, both of which the producer chooses: copies of an event may carry
different timestamps, and an event may be dated ahead of the clock, which nothing
refuses (`classify_lateness` calls it on time). `ValidationReason` is the
when-chain of `validate_events`, `Classification` that of `classify_lateness`,
and `ConfigAssumption` is what `validate_config` demands. `log` and `dlq` are
topics; `offset`, `batch`, `planned`, `watermark`, `seen` and `counted` are what
Spark keeps in the checkpoints of each query; `window` and `late` are sink
tables. A query plans a batch (`PlanBatch`), or runs a planned one again after a
restart (`ReplayBatch`), its callback makes its sink calls one at a time
(`WriteWindowMetrics`, `WriteWatermark`; `WriteToDlq`, `DlqLateRows`;
`DedupAuditBatch`; `LateAcceptedBatch`; `WriteCheckpointAudit`), and
`CommitBatch` writes offsets and state. `FailBatch` is a sink call that still
raises after `_with_retries`: `awaitAnyTermination` raises in `main`, so the whole
process ends; `Crash` is a death or an interrupt, `Restart` a new start from the
checkpoints. Spark's own part is external code, modelled from how the job uses
it: replay of planned batches, watermark from the last committed batch, state
eviction once the watermark passes event time plus the delay, and the drop of
rows behind the watermark before any of the job's own stages. Time counts
triggers: the unit in which two batches of one query differ.

### AnalyticsApi and Access

`call` is a request in progress, `conn` the pool, `counter` and `entry` Redis,
`written` the writes of the worker that metrics show, `passed` a history of
counted requests. `Receive` is `get_principal` with the scope check (`Access`);
`Incr` and `Expire` are the two Redis calls of `incr_rate_limit`, and
`IncrUnanswered` an INCR that Redis counts and the service does not hear of, after
which the request goes on unlimited and no EXPIRE follows; `GetJson`,
`Acquire`, `Fetch`, `Release`, `FetchRuns` and `SetJson` the cached read, with a
connection taken, used under its transaction-local tenant and given back;
`LogUsage` the middleware's row after the handler. `FetchFails` (no connection, or a
statement that raises, in any query), `RedisFails`,
`RedisReturns` and `Crash` are the faults. `Tick` lets keys expire; `Flight` is
the time from a query's snapshot to its cache write, which `command_timeout` and
the socket timeouts bound. The eight cached metrics are one endpoint; rows are
the set of their tenants and how many writes they show. A credential is what its
header carries: an exception that is no `ValueError` - of PyJWT, of the JWKS client, or
the `KeyError` of a local token without `sub` or `tenant_id` - is a 500.

### TokenIssuer and SigningKeys

`tokens` are all tokens ever issued, each with the claims its chain began with;
`IssueToken`, `UpsertTenant` and `UpsertUser` are the metadata service's writes,
under the role checks of their handlers. `SigningKeys` is `JWKSClient.get_key` in
FastAPI's thread pool: `GetKey`, `FetchKeys`, `StoreKeys`, `StampKeys`, `Lookup`
and `ReturnKey` are its reads and writes of `_keys_by_kid` and `_fetched_at`,
which nothing locks, beside a provider that changes its keys (`Rotate`).

### SchemaRegistry and SchemaCompatibility

`rows` maps versions to schemas, `checks` is the table of recorded checks with
the request and the version each compared with, and `step` and `base` are a
request's progress. Each awaited call is one action: `EnsureSubject`,
`ReadLatest` (and the 200 answer), `Evaluate` (the second read), `RecordCheck`
(and the 409), `RegisterVersion` (201, or 500 when the primary key is taken). A
dry run (`/compatibility`) starts at `Evaluate` and ends at `RecordCheck`. `Fail` loses a call
or an answer; `Retry` is the client (`validate_schema_registry.py`) running again. There is one subject, because
subjects share nothing; its mode never changes after the first insert, so
`get_subject` and the read after it are one step. Schemas that the rules cannot
tell apart are one schema; `Accepts` is a reference definition of validation,
written from JSON Schema and used only in a property.

### MetricRepair

A daily row is what it counts: seeded values (`start`), the rows it was rebuilt
from (`base`), events added since. An event has two words for what happened: the
envelope's `event_type`, by which the worker counts (`MetricDelta`), and the payload's
`status` or `action`, by which backfill and reconciliation count (`Selected`,
`Recount`). Both are free of each other (`schemas.py:85`, `:93`), so they may
contradict each other. The worker writes its fact and its count in
two transactions (`WriteFact`, `CountDaily`, `WorkerDies`). A backfill logs its
run (outside the `try`: if that fails it just ends), deletes and inserts in one
transaction and logs the end (`RunBackfill` to `EmitLineage`; `StatementFails`,
`JobDies`). Postgres runs at READ COMMITTED:
`BeginDelete` and `BeginInsert` take the statement's snapshot, `Delete` and
`Insert` wait for the rows of another transaction, and a row that the delete did
not see is a duplicate key. `SeedTable` is `apply_onboarding`, table by table.
`Verdict` is `evaluate_reconciliation`.

### BackupDrill, DataQuality, OpsSignals, BatchJobs

`BackupDrill` follows a drill from the name of its database (`BeginDrill`) through
dump, row counts, manifest, scratch database, restore (any part of which may be
missing, as the exit code of `pg_restore` is ignored) and verification to the
`finally` clause. Files and databases are named by the second, so drills may meet.

`DataQuality` runs the checks of each tenant one query at a time (`RunCheck`),
then stores each result and the score (`InsertResult`, `UpsertScore`); a run may
stop anywhere, tables change and midnight passes.

`OpsSignals` has writers of rows (a reconciliation, an exercise, the streaming
job, the worker) and scrapes: `QueryTables` and `SetGauges` per refresh,
`RefreshFails` for the `except` around each. `seen` records what the tables said while
a scrape ran.

`BatchJobs` is the DAG `cloudscale_batch_jobs` and its jobs: an overwrite first
clears the output, then reads, then writes piece by piece, and a job that dies
leaves its pieces. Spark is external code. DAG runs overlap because nothing
limits them.

## 3. What the runs check

| Run | Instance | Distinct states | Shows |
| --- | --- | --- | --- |
| `worker_group` | two replicas, a domain and a retry partition, two envelopes with one event id of which one is a risky payment, poison; 2 records, 1 crash, 1 failure, 1 rebalance | 2,072,785 | effects once and in order, true status, offsets that skip nothing, refinement of `EventLedger` |
| `worker_rows` | one replica, two product events of one key in one partition, with deltas of 3 and -2 (the clamp cuts when they change places); 3 records, 2 crashes, a rejoin, a seeded raw event, no failed call | 965,899 | the row holds the last event, the stock is that of the log |
| `worker_live` | two replicas, 2 records, 1 crash, 1 failure, no rebalance, fair | 360,990 | every record is handled or logged |
| `registry_versions` | four registrations (a schema, its extension, an incompatible one, one with a schema-valued `additionalProperties`) and a dry run, 1 failure, mode BACKWARD, the only mode a new subject gets | 2,339,178 | history numbered, immutable, compatible |
| `streaming` | an event that becomes late, a copy of it with a later timestamp in another window, an event dated ahead of the clock, text that is not JSON; 3 records, 2 triggers, 1 stop, at most two queries with data | 3,096,903 | sinks idempotent, lateness and watermark agree where clocks do, refused records kept |
| `services` | scenes: callers with retries (2 attempts of 2 sends) and batches around the limit; two dispatchers, two rows, 1 crash; two replays over five dead letters in two partitions; two requests at once, one connection, one cache, and six offers of up to four calls with faults; chains of up to four tokens | 410,923 | what is accepted, marked or audited is true, copies are recognisable and in order; own data only, bounded staleness and rate, no way out of a tenant; every request ends |
| `operations` | scenes: two threads and two keys; seven scripts of events, backfills and onboarding; two drills; three quality runs; six stories of rows and scrapes; three stories of DAG runs | 2,149,907 | reports and outputs of operational programs are true within stated limits |

**The worker.** `worker_group` is the smallest instance with a redelivery on
another worker, a fenced commit, and two claims on one id. `CountedAtMostOnce`
and `ClaimIsExclusive`: interleaved deliveries never count twice.
`EffectsFollowProgramOrder`: a stopped worker leaves a prefix of the effects.
`StatusTellsEffects`: the inbox's status agrees with the effects.
`CommittedIsAccounted` and `CommittedNeverRetreats`: offsets skip nothing that
was neither handled nor logged, and never go back. `LedgerSpec`: every behaviour
is one of `EventLedger` (`claim` is the inbox, `closed` the ids with status
`processed`). `worker_rows` adds `RowHoldsLatest` and `StockFollowsLog`: the stock is
what the deltas give when each is applied once, clamped, in the order of the log; all
that were counted are in it and none that was not claimed, so a redelivery
adds nothing and an event between its two writes is allowed for. `worker_live` adds
`EveryRecordIsAccounted`.

**The registry.** Numbering is in `TypeOK`; `HistoryCompatible`,
`ClosedDataStaysReadable` and `ChecksAreAgainstPredecessor` say that checking
the latest version is enough for the whole history under any race, and
`VersionsImmutable` that no version changes.

**Streaming.** `WindowsShowState`: the serving rows are those of the committed
state, or of the batch in flight, so a replay leaves neither a partial nor a
doubled row. `CountedAtMostOnce`: an event is in the metrics once, also if its
copies carry other timestamps, as long as these are no further apart than the
watermark delay, for which the deduplication state is kept.

The watermark, which Spark applies before the job's own lateness test, follows the newest
`event_timestamp`, and that is the producer's. `AcceptedIsCounted` says what
`validate_config` achieves by comparing the two thresholds: an event that its batch
finds acceptable is counted, or a copy of it, provided that no event of an earlier
batch was dated ahead of this batch by as much as the thresholds are apart
(`ClocksAgree`; with the defaults, where they are equal, dated not before it). Without this
condition it fails: one event from the future, which the `streaming` instance contains,
and everything behind its watermark is gone. `RefusedIsDeadLettered`: what comes to a verdict
is in the dead-letter topic, although the callback writes topic and audit table one after
the other: invalid records that the query has passed, events that the audit table
calls rejected, and the events of a batch beyond the reject threshold when it commits. The
events that the watermark or the deduplication state takes out before the verdict are
not in it; that the former are promised to be is the finding of `late_dlq`.
A behaviour has data for two queries at most, because queries share only tables
whose writes commute; every pair of the three that share one occurs.

**Ways into the topics.** `AcceptedIsInTopic`: what an answer calls accepted is
there, batch items included. `CopiesShareTheirId`: copies carry one id and no two
events share one. `FirstCopiesInOrder`: once the SDK has returned for an event, a
consumer that skips copies meets it before whatever is new in later requests,
although handlers of attempts that timed out still publish. `EveryRequestEnds`. `MarksAreTrue`, `FinalRowsStay`: outbox marks
are true and final, although the mark statements test neither lease nor
status - it is the lease of pending rows only that protects them.
`OneReplayUnaudited`: wherever a replay dies, one of its copies at most lacks
its audit row.

**Tenants.** `OwnDataOnly` and `ContextEndsWithTransaction`: responses, cached
ones included, hold the caller's tenant only, and no connection goes back to the
pool with a tenant. `FreshEnough`: a metric shows every write older than
`CacheTTL` + `Flight`, although a slow loader may replace a newer entry by an
older one. `LimitHolds`: windows are fixed, so twice the limit in any interval of a
window's length, of the requests that Redis counted with an answer; an outage or a lost
answer lets requests through unlimited by design. `EveryCallEnds`: requests take connections of one pool
several times, the usage log included, and none waits for good.
`ChainStaysInTenant`: exchanging tokens for tokens never leads out of a tenant.

**Operations.** `WithdrawnKeyExpires`: a withdrawn key is trusted no longer than
the cache's life and three calls. `NoCountIsLost`: what the worker counted is in
its daily row, or rebuilt from its fact row under each of its counters, unless the day
was seeded, the fact row overwritten or the payload contradicts the event type
(`payment.captured` with a status `settled`).
`AlarmsAreExplained`: a reconciliation fails only for a cause the property
names, among them events half handled when a day was rebuilt and such payloads.
`PassedMeansRestored`: a drill that passed restored its dump, if nothing was written
after the dump and no drill began in the same second.
`ScoreHasItsResults`: a score is that of one complete stored pass of a run over its
tenant (a run passes over a tenant again when `--tenant-id` repeats).
`ScrapeShowsTables`: a scrape that met no other shows what the tables said while
it ran, except refreshes that failed and samples that outlived their rows.
`BatchOutputsAreWhole`: the output of a DAG run that no other run disturbed is
whole, whatever earlier runs left. The conditions in these properties are
the limits of what the code guarantees; section 6 names what happens beyond them.

Deadlock checking is off in every run, because the modelled systems stop: the
budgets run out, the log is full and the consumers wait in `poll`; requests end
with an answer.

Five runs end in a violation; each is a finding, with the line of the
documentation it contradicts:

- `at_least_once`: an event whose worker dies after the inbox insert has no
  effect, for good, although it is redelivered (`README.md:94`).
- `row_order`: an event that failed and is read again after a crash overwrites
  the newer event of its partition (`kafka/README.md:5`). `worker_rows` shows
  that the order holds when no call fails.
- `dedup_key`: an event is skipped because another tenant used its id
  (`reliability/scenarios/duplicate_event.py:128`).
- `registry_idempotent`: two registrations of one schema both insert it
  (`main.py:208` of the registry).
- `late_dlq`: an event beyond the reject threshold is dropped by the watermark before it is
  classified, and is in neither the dead-letter topic nor the audit table
  (`docs/streaming_architecture.md:43`). It takes one newer event; no clock is wrong in
  this instance.

**Bounds.** Every bound is a constant of its module (`MaxLog`, `MaxCrashes`,
`MaxFailures`, ...; in `AnalyticsApi`, `MetricRepair`, `OpsSignals` and
`BatchJobs` the fields of `Offers`, `Scripts`, `Stories` and `BatchStories`, each a list of what may
happen together) and guards the actions it bounds; the proofs hold for any values.
They leave room for two actors of each kind with one fault between any two steps,
and for a second round after it: a retry, a replay, a restart, a new window, a
second run. Offers and stories keep apart what no property relates: for
example a Redis outage and the refused credentials.

**Fairness.** `FairSpec` of `ProcessingWorker` is weak fairness of each worker's
`Loop`: the loop is a single task that always continues, every call returns or
raises, and a process that died is restarted (`Restart` is in `Loop`) by its
Kubernetes Deployment (`deploy/kubernetes/base/20-services.yaml`); under docker
compose, which sets no restart policy, by an operator. `worker_live` has no
rebalance because after one a worker can die of `CommitFails`, and if all do,
nobody reads on: the code gives no liveness there. `Ingestion`: weak fairness of
the caller, which has a timeout on each request, and of each handler, as the
event loop runs every coroutine and `publish` is bounded by its future's timeout. `AnalyticsApi`:
weak fairness of each request, which is enough since asyncpg's pool serves its
waiters in order and statements have a timeout. Nothing is assumed of
producers, clients or faults.

**Mutants.** Every property of a passing run has one, a plausible bug in a mapped
definition (`auto_offset_reset` of latest, remembered positions after a rejoin,
an upsert of a version, dedup within a batch only, rows leased again after a
while, a setting for the session instead of the transaction, an insert that
overwrites, a score before its results), which makes TLC find the property violated.

## 4. What is proved

All theorems hold for every value of the constants that the `ASSUME`s of the
modules allow: any number of workers, partitions, envelopes, faults, requests,
schemas, dispatchers, rows, calls, connections, tenants, tokens, keys, records
and batches. A theorem that needs more says so in its statement (`RowsHoldTheLatest`,
`StocksFollowTheLog`); the instance of `worker_rows` satisfies the hypothesis.

`ProcessingWorkerProofs`, in five invariants; each of the first three is used by
those after it:

1. `TypeOK`.
2. `ClaimInv`. `CountedAtMostOnce` is not inductive: it says nothing of what a
   worker is about to do. `InboxMatches` ties each inbox row to its event id,
   `OnlyClaimedCounts` says only the envelope in the inbox row has effects, and
   `ClaimIsExclusive` that between the inbox insert and the mark the id has one
   worker. `Progress` then gives, for each `pc`, the effects already done and
   those still missing (`DoneBefore`), which is what keeps the increments at one,
   the effects in order (`EffectsFollowProgramOrder`) and the status true
   (`StatusTellsEffects`), both conjuncts of the invariant themselves. The same
   invariant gives the step lemma of the refinement: each step of the service is
   a step of `EventLedger` or leaves its variables alone (`ImplementsLedger`).
3. `OffsetInv`. `CommittedIsAccounted` needs to know of the batches in flight:
   `BatchInv` says that every record below `handled` is accounted for, that
   `handled` stays within `position` and the log, and that the record in hand is
   the next one; `FenceInv` that a worker of the current generation is never
   behind the committed offset of a partition it owns. Then a commit advances
   the offset, and over accounted records only (`NothingPassedOver`,
   `OffsetsOnlyAdvance`).
4. `ReadInv` and `WriteInv`, under the hypothesis `ReadInOrder`: no failed calls, one
   reader of each partition (no rebalance, or a single replica), all events of a row
   in one partition, tables that are upserted. Each part is needed: `row_order`
   violates the property with two partitions, and a failed call or a second reader
   lets an event be claimed after its successors. Everything below the record
   in hand is then settled (`AllBeforeIsSettled`), so events are claimed where they
   first occur and after all before them (`ClaimedInOrder`), and the event
   that writes a row comes last among those claimed for it (`HandIsLatest`):
   `RowsHoldTheLatest`. Crashes, redeliveries and poison are all allowed.
5. `StockInv`: the stock of each product has a history, a sequence of claimed events
   without repetition in which every counted one occurs, and it is what the deltas
   of the history leave when they are applied one by one and clamped. A write of the domain
   row appends the event in hand, which is not in it yet, because its claim is this worker's.
   `StocksCountOnce` follows for any schedule and deltas of either sign. Under
   `ReadInOrder` the event in hand comes after all in the history (`HandComesLast`), so
   the history is in the order of the log: `StocksFollowTheLog`. What a history leaves is a
   recursive function; `RunsAgree` to `StockUnfolds` prove its equations by
   the least counterexample instead of the induction theorems, which this prover
   cannot instantiate.

`SchemaRegistryProofs`: `CompatibilityIsTransitive` is the lemma that explains
why checking against the latest version is enough. `HistoryInv` adds to
`HistoryCompatible` what a request knows (`RequestInv`: a request about to insert
passed a recorded check against `base`) and `TypeOK` the numbering of versions
without a gap; the primary key then makes `base` the predecessor of the inserted
version, however many requests race. `ClosedDataIsSafe` follows from `ShapeInv`
(no required name and no property of an earlier version changed) for BACKWARD and
FULL; `VersionsStay` is the action property.

`IngestionProofs`: `IngestionInv` knows of each handler what its client does not
(`HandlerOk`: its results are those of a prefix of its request), and of each id
in use, in the topic or in a handler's hand, that it is the event's own or was
drawn for it (`IdsAreOwn`). A send moves an id from a hand to the topic, which
gives `AcceptedStaysInTopic` and `CopiesAreRecognisable`.

`OrderInv` adds where the caller is (`CallerOk`: no handler is ahead of it,
`TopicIsPast`: nor is the topic) and, for each event that was returned for, a copy
in the topic behind nothing but events of the requests up to its own
(`ReturnedIsIn`). The topic is appended to, so this copy stays first:
`ReturnsAreInOrder`.

`DispatchProofs`: the outbox marks rely on `LeaseIsExclusive` (a leased row is in
`publishing`, and nobody else has it) and `SentIsInTopic`; hence `MarksStayTrue` and
`FinalRowsAreFinal`. Of the DLQ tool, `AuditKeepsUp` says that before a publish
nothing of the running command is unaudited and after it the record at hand only;
the next command has a run of its own, so what died stays as it is:
`ReplaysAreAudited`.

`TenantApiProofs`: `ApiInv` says of the cache that each entry holds rows of
the tenant in its key (`EntriesAreOwn`), of each request that its payload is its
tenant's and that it is past the scope check (`RequestsAreOwn`), and of the pool
that only requests between `Acquire` and `Release` hold connections
(`HoldersRun`); hence `ResponsesAreOwn` and `PoolForgetsTenants`. `FreshInv` follows
a payload from its snapshot over the cache to the answer: it shows the writes older
than the snapshot, is set within `Flight` ticks, and lives for `CacheTTL` more.
Then the writes that an answer must show are among the first ones it does show,
and `MetricsAreFresh` compares two cardinalities. `RateInv` relates a counter to the times
at which its requests got through (`Spaced`): those that the present window counted
are its last ones, and of two requests that are `Limit` places apart across a window,
or twice that anywhere, the later one is a window's length behind. A counter whose
`EXPIRE` failed never starts a window again, which only refuses more. `LimitIsKept`
counts again: a larger set would hold two requests twice `Limit` places apart.
`IssuedWithinAccess` says that who may issue a token has all the access it gives;
access then only shrinks along a chain (`ChainsStayInTenant`).

`StreamingJobProofs`: `CountInv` ties the aggregation state to the deduplication
state - an event already counted is remembered in `seen` or is behind the
watermark - so no batch counts it again; `WindowInv` says at each step of the callback whether
the upsert is done. Both rest on records appended meanwhile not changing a
planned batch (`ReadStable`). They give `WindowsStayWhole` and `WindowsCountOnce`.
`ClockInv` (the watermark comes from an event that a committed batch has read, and what the
deduplication state knows is counted or too late for any batch to come) gives `AcceptedCountsIfClocksAgree` from
`RejectLimit <= WatermarkDelay`, for event times that may be any integers; `RefusedInv` gives
`RefusedReachesDlq`.

`MetricRepairProofs`: `NoCountIsLost` needs to know of the backfill in flight.
`BaseIsWhole`: what is counted when a backfill inserts is in what it has read, unless it
was counted since into a row that makes the insert fail. It rests on
`FactsAreKept`: the processed tables hold what the worker began with, save what a later
event of the same order or payment overwrote. `CountsAreKept` follows.
`RowIsExplained` says that a row was rebuilt from events of its day and has counted
others since, and that one counted twice was caught half handled. If none of the
reasons of `AlarmsAreExplained` holds, the events that a check recounts are then
exactly those behind the row, under the same counters (`DeltaIsRecounted`), and the two counts are
cardinalities of one set: `AlarmsHaveReasons`.

`OperationsProofs`, one part per program:

- `SigningKeys`. `WithdrawnKeyExpires` is about the moment a key is used.
  `KeysInv` follows a withdrawn key backwards: a call that still carries it read
  the provider before the withdrawal, so it stores the key within one `CallTime`;
  who stored before that call stamps the time within two; who finds the cache fresh
  began within the cache's life after that, and returns within one more.
- `BackupDrill`. `DrillIsSound` says, step by step, that dump, counts and manifest of
  a drill that nobody disturbed are of its snapshot, and that a table not
  restored is empty; a table that is empty in the snapshot may fail to be restored
  unseen, and is then what it should be (`PassedDrillsRestored`).
- `DataQuality`. `RowsArePast` keeps the rows of earlier passes apart from those of the
  pass under way, and `SavedRowsAreThere` counts the latter; a score is written after
  the eighth (`ScoresAreExplained`).
- `OpsSignals`. `ScrapeIsSound` says of a scrape that is alone which gauges are set and
  which values are in hand; `FailureIsOnRecord` that a reconciliation whose status is
  `failed` has its row (`ScrapesShowTables`).
- `BatchJobs`. While a DAG run is the sole one, the jobs under way are its own
  (`SoleRunsAlone`), the pieces written and those left are the pieces of what was read,
  and its compaction finds the files that it listed (`UndisturbedOutputsAreWhole`).

Each of these invariants was checked by TLC on the instances of section 3 before
it was proved.

The assumptions on constants are those of the code and of its abstraction: ticks stay
below `Never`, the stand-in for a key without TTL; one program is the longest;
`NoRow`, `Nothing`, `Absent` and the like are no values of their tables; sets of rows
and of events are finite; the tables, tenants and verdicts that a program lists are
sequences; each event has a day and one of the seven types that the repair counts.

Checked by TLC only: the liveness properties (`EveryRecordIsAccounted`,
`EveryRequestEnds`, `EveryCallEnds`), because `ENABLED` and fairness are out of
the prover's reach. Every safety invariant and action property of the runs is
stated by a theorem.

## 5. Not modelled

- Data products, lineage and catalogue: generators and validators of documents,
  sequential and without state between runs.
- Incident copilot: a report generator around an external model provider.
- Deployment, Kubernetes, Terraform, observability configuration: no program.
- dbt models are declarative; the two reconciliations that read Kafka counts and
  a dbt mart compare outside systems whose state the repository does not define.
- Pages of the console and the demo dashboard, GET endpoints, reports of the DLQ
  tool: single reads that change nothing.
- Validation of options (onboarding, scripts) and the field checks of envelopes:
  their verdict is in the models, their text is not.
- Scenarios of the reliability exercises: they drive a deployment; they were read
  for what they promise.
- Calendars: an event has one metric date in every module (see section 6).

## 6. Behaviours without a property

Met while modelling, and either outside the abstraction or not promised by
anything in the repository. The models contain the ones marked *.

- *A commit of an old generation ends the consumer task while `/health` still
  answers (`worker.py:136`). A value or header that is not UTF-8 has the same
  effect, at every restart (`worker.py:112`, `kafka.py:208`).
- *Rows of a dispatcher that died stay in `publishing`; no statement reads
  `locked_until`.
- *A failed or interrupted EXPIRE, or a lost answer to the first INCR, leaves a rate-limit
  key without TTL, which blocks its user until somebody deletes it.
- *Expired or forged tokens, and local ones without a claim, give a 500 and no usage row, as
  the exceptions of PyJWT and of the JWKS client and a `KeyError` are no `ValueError` (`main.py:95` of the
  analytics service).
- *Older keys may overwrite newer ones, so that a valid key id is refused
  (`oidc.py:50`).
- *`/generate/demo` admits up to 1000 events, the batch it builds 500: a 500.
- *A failed query ends the whole streaming process (`streaming_job.py:349`),
  where `sinks.py:16` speaks of a retry at the next trigger; a crashed run's row
  stays `running`; a tenant filter drops unparsable records before the dlq query
  sees them.
- *Copies of an event whose timestamps are further apart than the watermark delay are
  counted twice (`deduplication.py:20` bounds its state by the watermark).
- A lost checkpoint with a table that holds absolute counts starts windows from
  zero.
- *`dlq_tool` raises on a record that is no envelope, after which nothing behind
  it can be replayed; `--new-event-id` without `--event-id` gives several events one id.
  `publish_dlq` and `log_failure` have no caller.
- *A status update that fails after its commit marks a repaired run `failed`; onboarding
  again overwrites the day's counts. The backfill's `events_processed` leaves out
  inventory and service-health events.
- `metric_date` is the date in the event's own UTC offset, while the backfill
  groups by the stored timestamp's date (`repository.py:352`).
- *Overlapping DAG runs mix or double outputs; drills of one second share files.
- *`--check all --dry-run` reports passed; an exercise that was `not_run` shows as
  0; samples of labels whose rows are gone keep their value.
- *`issue_token` looks at neither `tenant_users` nor `is_active`.
- A tenant without payments has a NULL rate and a health score of 100.

## 7. Running

In this directory, `tlc -config <run>.cfg <module>.tla`:

| Runs | Module |
| --- | --- |
| `worker_group`, `worker_rows`, `worker_live`, `at_least_once`, `row_order`, `dedup_key` | `MCProcessingWorker` |
| `registry_versions`, `registry_idempotent` | `MCSchemaRegistry` |
| `streaming`, `late_dlq` | `MCStreaming` |
| `services` | `MCServices` |
| `operations` | `MCOperations` |

Each takes less than three minutes on two cores. `tlapm <module>.tla` checks each of
the eight modules whose name ends in `Proofs`.
