----------------------------- MODULE StreamingJob -----------------------------
(***************************************************************************)
(* The Structured Streaming job: queries over one Kafka topic that share   *)
(* nothing but their sinks.  Each query plans a micro-batch (an offset     *)
(* range and a timestamp, written to its checkpoint), runs its foreachBatch*)
(* callback one sink call at a time, and commits.  Spark's own part --     *)
(* planning, state stores, watermark, replay of a planned batch -- is      *)
(* modelled from how the job uses it.                                      *)
(*                                                                         *)
(* Abstractions: one topic partition, so of the rows with one key the      *)
(* first by offset is the one that is kept; a window row is the multiset   *)
(* of the events added to it; sink calls that fail and are repeated by     *)
(* _with_retries write the same rows, so only the last outcome is a step.  *)
(***************************************************************************)
EXTENDS StreamingRecords

CONSTANTS
    Queries,    \* the queries that run() starts, without the metrics-only one
    WindowOf,   \* the tenant, domain and window of each record
    TenantConfig, \* the tenants in the snapshot of tenant_config
    NoBatch,    \* no planned batch
    Active,     \* bound: the sets of queries that get data in one behaviour
    StartingOffsets, \* "latest" or "earliest"
    MaxLog,     \* bound: records in the topic
    MaxTime,    \* bound: triggers
    MaxStops    \* bound: failures, crashes and interrupts

Stateful == {"aggregates", "late-accepted-audit", "dlq"}
AllQueries == Stateful \cup {"dedup-audit"}

ASSUME QueriesAssumption ==
    /\ Queries \subseteq AllQueries
    /\ DOMAIN WindowOf = Records
    /\ NoBatch \notin [upto : Nat, at : Nat]
    /\ {MaxLog, MaxTime, MaxStops} \subseteq Nat

VARIABLES
    now,        \* the clock, in triggers
    log,        \* the topic
    up,         \* whether the driver process runs
    runStatus,  \* status of its stream_processing_runs row
    offset,     \* per query, the records its committed batches have read
    batch,      \* per query, the planned batch: the last offset and the time
    step,       \* per query, the next call of its callback
    planned,    \* per query, when it last planned a batch
    watermark,  \* per query, Spark's event-time watermark
    seen,       \* per query, its deduplication state: keys, with the event time
                \* of the row taken, as the rows taken
    counted,    \* per record, how often it is in the aggregation state
    window,     \* stream_window_metrics: per record, how often its row counts it
    late,       \* streaming_late_events: per key, its classification
    dlq,        \* what is in the dead-letter topic: <<record, reason>>
    stops

kafka == <<log, dlq>>
checkpoint == <<offset, batch, planned, watermark, seen, counted>>
tables == <<window, late>>
driver == <<up, runStatus>>
vars == <<now, kafka, driver, checkpoint, step, tables, stops>>

-------------------------------------------------------------------------------
(* The batches of a query.                                                 *)

\* The records of a planned batch that pass the tenant filter, by offset.
Read(q) ==
    IF batch[q] = NoBatch THEN {}
    ELSE {o \in offset[q] + 1 .. batch[q].upto : PassesFilter(log[o])}

ValidOf(os) == {o \in os : Valid(log[o])}
InvalidOf(os) == os \ ValidOf(os)

RecordsAt(os) == {log[o] : o \in os}

EventKeys == {EventKey[r] : r \in Records}

Copies(d, e) == EventKey[d] = EventKey[e]

\* Of the rows with one key the first stays.
FirstOfKey(os) ==
    RecordsAt({o \in os : \A p \in os : p < o => ~Copies(log[p], log[o])})

\* The rows that Spark does not drop as older than the query's watermark.
AboveWatermark(q) == {o \in ValidOf(Read(q)) : EventTime[log[o]] > watermark[q]}

Known(q, r) == \E s \in seen[q] : Copies(s, r)

\* Mutant: duplicates are dropped within a batch only.
WithinBatch(q) == FirstOfKey(AboveWatermark(q))

\* dropDuplicatesWithinWatermark: late rows and known keys go.
Deduplicate(q) == FirstOfKey({o \in AboveWatermark(q) : ~Known(q, log[o])})

Accepted(q) == {r \in Deduplicate(q) : Aggregatable(r, batch[q].at)}
Rejected(q) == Deduplicate(q) \ Accepted(q)
LateAccepted(q) ==
    {r \in Accepted(q) : Classification(r, batch[q].at) = "late_accepted"}

\* Mutant: an inner join.
JoinInner(rs) == {r \in rs : Tenant[r] \in TenantConfig}

\* A left join: a tenant that tenant_config lacks keeps its rows.
EnrichWithTenantMetadata(rs) == rs

\* mark_duplicates_within_batch: every row of a key but the first.
DuplicatesInBatch(q) ==
    RecordsAt({o \in ValidOf(Read(q)) :
        \E p \in ValidOf(Read(q)) : p < o /\ Copies(log[p], log[o])})

\* The aggregation state after the batch, and the windows it emits.
CountedAfter ==
    [r \in Records |-> counted[r] +
        IF r \in EnrichWithTenantMetadata(Accepted("aggregates")) THEN 1 ELSE 0]
Emitted == {WindowOf[r] : r \in Accepted("aggregates")}

EventTimes(q) == {EventTime[r] : r \in RecordsAt(ValidOf(Read(q)))}

LatestTimes(q) == {t \in EventTimes(q) : \A u \in EventTimes(q) : u <= t}

NextWatermarks(q) ==
    IF EventTimes(q) = {} THEN {watermark[q]}
    ELSE {WatermarkAfter(watermark[q], t) : t \in LatestTimes(q)}

\* State is kept until the watermark passes event time plus the delay.
SeenAfter(q) ==
    {r \in seen[q] \cup Deduplicate(q) :
        EventTime[r] + WatermarkDelay > watermark[q]}

Goto(q, s) == step' = [step EXCEPT ![q] = s]

At(q, s, next) == up /\ step[q] = s /\ Goto(q, next)

\* Mutant: the audit table before the dead-letter topic.
AuditFirst(q) == IF q = "aggregates" THEN "upsert windows" ELSE "write late events"

\* The first sink call of each callback.
FirstCall(q) == CASE q = "aggregates" -> "upsert windows"
                  [] q = "dlq" -> "write dead letters"
                  [] OTHER -> "write late events"

-------------------------------------------------------------------------------

\* Spark's watermark before any event is the epoch.
NoMark == -1000

ASSUME EpochAssumption == \A r \in Records : EventTime[r] > NoMark

\* The log when the job first starts, and where startingOffsets puts it.
Backlogs == {<<>>} \cup {<<r>> : r \in Records}
FirstOffset == IF StartingOffsets = "latest" THEN Len(log) ELSE 0

Init ==
    /\ now = 0
    /\ log \in Backlogs
    /\ up = TRUE
    /\ runStatus = "running"
    /\ offset = [q \in Queries |-> FirstOffset]
    /\ batch = [q \in Queries |-> NoBatch]
    /\ step = [q \in Queries |-> "idle"]
    /\ planned = [q \in Queries |-> -1]
    /\ watermark = [q \in Queries |-> NoMark]
    /\ seen = [q \in Queries |-> {}]
    /\ counted = [r \in Records |-> 0]
    /\ window = [r \in Records |-> 0]
    /\ late = [k \in EventKeys |-> "none"]
    /\ dlq = {}
    /\ stops = 0

Tick ==
    /\ now < MaxTime
    /\ now' = now + 1
    /\ UNCHANGED <<kafka, driver, checkpoint, step, tables, stops>>

\* An event may be old, and from the future: its timestamp is the producer's.
Produce(r) ==
    /\ Len(log) < MaxLog
    /\ log' = Append(log, r)
    /\ UNCHANGED <<now, dlq, driver, checkpoint, step, tables, stops>>

\* At a trigger with new offsets: the plan reaches the checkpoint first.
PlanBatch(q) ==
    /\ At(q, "idle", FirstCall(q))
    /\ batch[q] = NoBatch
    /\ offset[q] < Len(log)
    /\ planned[q] < now
    /\ \E qs \in Active : {p \in Queries : planned[p] >= 0} \cup {q} \subseteq qs
    /\ batch' = [batch EXCEPT ![q] = [upto |-> Len(log), at |-> now]]
    /\ planned' = [planned EXCEPT ![q] = now]
    /\ UNCHANGED <<now, kafka, driver, offset, watermark, seen, counted, tables,
                    stops>>

\* After a restart, a batch that was planned and not committed runs again.
ReplayBatch(q) ==
    /\ At(q, "idle", FirstCall(q))
    /\ batch[q] # NoBatch
    /\ UNCHANGED <<now, kafka, driver, checkpoint, tables, stops>>

\* Mutant: do update adds the batch to the row.
UpsertAdds(r) == window[r] + CountedAfter[r] - counted[r]

\* Absolute values for every window the batch changed.
WindowUpsert(r) == CountedAfter[r]

WriteWindowMetrics ==
    /\ At("aggregates", "upsert windows", "record watermark")
    /\ window' = [r \in Records |->
          IF WindowOf[r] \in Emitted THEN WindowUpsert(r) ELSE window[r]]
    /\ UNCHANGED <<now, kafka, driver, checkpoint, late, stops>>

\* The insert into streaming_watermarks, a table nothing reads.
WriteWatermark ==
    /\ At("aggregates", "record watermark", "audit")
    /\ UNCHANGED <<now, kafka, driver, checkpoint, tables, stops>>

\* on conflict (tenant_id, event_id) do nothing
LateRows(rs, class) ==
    [k \in EventKeys |->
        IF late[k] = "none" /\ \E r \in rs : EventKey[r] = k THEN class ELSE late[k]]

WriteLateEvents(q, rs, class, next) ==
    /\ At(q, "write late events", next)
    /\ late' = LateRows(rs, class)
    /\ UNCHANGED <<now, kafka, driver, checkpoint, window, stops>>

DedupAuditBatch ==
    WriteLateEvents("dedup-audit", DuplicatesInBatch("dedup-audit"), "duplicate", "audit")

LateAcceptedBatch ==
    WriteLateEvents("late-accepted-audit", LateAccepted("late-accepted-audit"),
                    "late_accepted", "commit")

DlqLateRows == WriteLateEvents("dlq", Rejected("dlq"), "late_rejected", "audit")

\* The rows of the union of invalid and late_rejected events.
DeadLetters ==
    {<<log[o], ValidationReason(log[o])>> : o \in InvalidOf(Read("dlq"))}
        \cup {<<r, Late>> : r \in Rejected("dlq")}

WriteToDlq ==
    /\ At("dlq", "write dead letters", "write late events")
    /\ dlq' = dlq \cup DeadLetters
    /\ UNCHANGED <<now, log, driver, checkpoint, tables, stops>>

\* The insert into streaming_checkpoint_audit, a table nothing reads.
WriteCheckpointAudit(q) ==
    /\ At(q, "audit", "commit")
    /\ UNCHANGED <<now, kafka, driver, checkpoint, tables, stops>>

\* foreachBatch returned: Spark commits the batch and its state.
CommitBatch(q) ==
    /\ At(q, "commit", "idle")
    /\ offset' = [offset EXCEPT ![q] = batch[q].upto]
    /\ batch' = [batch EXCEPT ![q] = NoBatch]
    /\ \E w \in NextWatermarks(q) : watermark' = [watermark EXCEPT ![q] = w]
    /\ seen' = [seen EXCEPT ![q] = IF q \in Stateful THEN SeenAfter(q) ELSE @]
    /\ counted' = IF q = "aggregates" THEN CountedAfter ELSE counted
    /\ UNCHANGED <<now, kafka, driver, planned, tables, stops>>

-------------------------------------------------------------------------------
(* The driver process.                                                     *)

Stop(status) ==
    /\ up
    /\ stops < MaxStops
    /\ stops' = stops + 1
    /\ up' = FALSE
    /\ runStatus' = status
    /\ step' = [q \in Queries |-> "idle"]

\* A sink call that raises after its retries ends its query; awaitAnyTermination
\* raises in main, finish_run marks the run and the process exits with all of
\* its queries.  Of the dead letters, some may have been sent.
FailBatch(q) ==
    /\ step[q] \notin {"idle", "commit"}
    /\ Stop("failed")
    /\ \E sent \in SUBSET (IF step[q] = "write dead letters" THEN DeadLetters ELSE {}) :
          dlq' = dlq \cup sent
    /\ UNCHANGED <<now, log, checkpoint, tables>>

\* A crash leaves the run's row as it is; an interrupt marks it as stopped.
\* (--await-termination-seconds, for local tests, ends a run as "completed".)
Crash(status) ==
    /\ status \in {"running", "stopped"}
    /\ Stop(status)
    /\ UNCHANGED <<now, kafka, checkpoint, tables>>

Restart ==
    /\ ~up
    /\ up' = TRUE
    /\ runStatus' = "running"
    /\ UNCHANGED <<now, kafka, checkpoint, step, tables, stops>>

Callback ==
    \/ "aggregates" \in Queries /\ (WriteWindowMetrics \/ WriteWatermark)
    \/ "dlq" \in Queries /\ (WriteToDlq \/ DlqLateRows)
    \/ "dedup-audit" \in Queries /\ DedupAuditBatch
    \/ "late-accepted-audit" \in Queries /\ LateAcceptedBatch

Query(q) ==
    \/ PlanBatch(q) \/ ReplayBatch(q)
    \/ WriteCheckpointAudit(q) \/ CommitBatch(q)

Next ==
    \/ Tick
    \/ \E r \in Records : Produce(r)
    \/ \E q \in Queries : Query(q) \/ FailBatch(q)
    \/ Callback
    \/ \E status \in {"running", "stopped"} : Crash(status)
    \/ Restart

Spec == Init /\ [][Next]_vars

-------------------------------------------------------------------------------
(* Properties.                                                             *)

Near(d, e) ==
    EventTime[d] <= EventTime[e] + WatermarkDelay /\ EventTime[e] <= EventTime[d] + WatermarkDelay

\* An event is in the metrics at most once, however often it was sent and however
\* often the batch that counts it is run again; also if its copies carry other
\* timestamps (an SDK retry without event_timestamp gets a new one), as long as
\* these are no further apart than the watermark delay.
CountedAtMostOnce ==
    \A d, e \in Records :
       /\ window[d] <= 1
       /\ d # e /\ Copies(d, e) /\ Near(d, e) => window[d] = 0 \/ window[e] = 0

\* The serving table shows the committed aggregation state, or that state after
\* the batch in flight: a replay never leaves a partial or a doubled row.
WindowsShowState ==
    "aggregates" \in Queries =>
        \/ window = counted
        \/ batch["aggregates"] # NoBatch /\ window = CountedAfter

\* No event of an earlier batch of q was dated ahead of the present one by as much
\* as the two thresholds are apart.
ClocksAgree(q) ==
    \A o \in 1..offset[q] :
       EventTime[log[o]] < batch[q].at + (WatermarkDelay - RejectLimit)

\* What validate_config is for (config.py:80-85): unless a producer's clock was
\* ahead, an event that its batch finds acceptable is not dropped by the watermark:
\* once the batch commits, its window counts it, or a copy of it; but a copy that came
\* first and is too late keeps it out.  One event from the future, which nothing
\* refuses, moves the watermark and takes this promise away.
AcceptedIsCounted ==
    [][\A q \in Queries \cap {"aggregates"} : \A o \in ValidOf(Read(q)) :
        /\ offset'[q] # offset[q]
        /\ Aggregatable(log[o], batch[q].at)
        /\ ClocksAgree(q)
        => \E r \in seen[q] \cup Deduplicate(q) :
              Copies(r, log[o]) /\ (window'[r] > 0 \/ ~Aggregatable(r, batch[q].at))]_vars

PassedAreDeadLettered ==
    /\ "dlq" \in Queries /\ StartingOffsets = "earliest" =>
          \A o \in 1..offset["dlq"] :
             PassesFilter(log[o]) /\ ~Valid(log[o]) =>
                <<log[o], ValidationReason(log[o])>> \in dlq
    /\ \A k \in EventKeys : late[k] = "late_rejected" =>
          \E r \in Records : EventKey[r] = k /\ <<r, Late>> \in dlq

BatchIsDeadLettered ==
    \A q \in Queries \cap {"dlq"} : \A o \in AboveWatermark(q) :
        /\ offset'[q] # offset[q]
        /\ ~Aggregatable(log[o], batch[q].at)
        /\ ~Known(q, log[o])
        => \E r \in Deduplicate(q) :
              /\ Copies(r, log[o])
              /\ <<r, Late>> \in dlq' \/ Aggregatable(r, batch[q].at)

\* What reaches the verdict of the dlq query is not lost, whatever fails: an
\* invalid record that it has passed is in the dead-letter topic with the reason;
\* an event that the audit table calls rejected is there, although the two are
\* written one after the other; and when a batch commits, so is every event of it
\* beyond the reject threshold, except what the stateful operator drops before the
\* verdict: events behind the watermark, and copies of an event taken up before.
RefusedIsDeadLettered == [][PassedAreDeadLettered' /\ BatchIsDeadLettered]_vars

\* docs/streaming_architecture.md:43 "Beyond the reject threshold: late_rejected,
\* excluded from aggregates, and written to the DLQ and audit table": an event that
\* was sent once and that a batch of the dlq query finds beyond the threshold is in
\* the dead-letter topic when the batch commits.
TooLateIsDeadLettered ==
    [][\A q \in Queries \cap {"dlq"} : \A o \in ValidOf(Read(q)) :
        /\ offset'[q] # offset[q]
        /\ ~Aggregatable(log[o], batch[q].at)
        /\ \A p \in DOMAIN log : Copies(log[p], log[o]) => p = o
        => <<log[o], Late>> \in dlq']_vars

===============================================================================
