--------------------------- MODULE ProcessingWorker ---------------------------
(***************************************************************************)
(* The processing service: a consumer group of KafkaProcessingWorkers, the *)
(* Kafka partitions they read, and the Postgres tables EventProcessor      *)
(* writes.  Every repository call is a transaction of its own, so every    *)
(* call is a step of its own; a worker can fail, crash or lose its         *)
(* partitions between any two of them.                                     *)
(*                                                                         *)
(* Abstractions: an envelope is a model value with the attributes the code *)
(* branches on; a metric row is the multiset of the deltas added to it, as *)
(* the number of times each envelope's delta was added; the 250-record cap *)
(* of poll never binds at the log lengths modelled, so poll returns any    *)
(* non-empty prefix of what is available.                                  *)
(***************************************************************************)
EXTENDS Integers, Sequences, FiniteSetsExt

CONSTANTS
    Workers,     \* the replicas of the processing service
    Partitions,  \* the topic partitions it subscribes to
    Envelopes,   \* the envelopes that producers send
    Ids,         \* event ids
    Keys,        \* primary keys of the domain tables
    Tenants,
    Topics,
    EventId,     \* the event id of each envelope
    Tenant,      \* its tenant
    Kind,        \* its domain table
    RowKey,      \* its key in that table
    Delta,       \* its inventory_delta
    Risky,       \* the payment failures with risk_score >= 0.85
    Routes,      \* the partitions an envelope can be in: its domain topic's, the retry topic's
    Topic,       \* the topic of each partition
    Poison,      \* a record that is not a valid envelope
    NoRow,       \* no inbox row, no domain row, no record in hand
    NoWorker,    \* the owner of an unassigned partition
    MaxLog,      \* bound: records in all partitions
    MaxCrashes,  \* bound: worker crashes
    MaxFailures, \* bound: transient failures of a database call
    MaxRebalances, \* bound: group rebalances after the first assignment
    MaxSeeds     \* bound: raw events written by seeding scripts

UpsertKinds == {"order", "payment", "product"}
InsertKinds == {"session", "health"}
Kinds == UpsertKinds \cup InsertKinds

Faults == {"crash", "failure", "rebalance", "seed"}

ASSUME ConstantsAssumption ==
    /\ EventId \in [Envelopes -> Ids]
    /\ Kind \in [Envelopes -> Kinds]
    /\ RowKey \in [Envelopes -> Keys]
    /\ Delta \in [Envelopes -> Int]
    /\ Risky \subseteq Envelopes
    /\ Routes \in [Envelopes -> SUBSET Partitions]
    /\ Partitions # {}
    /\ Tenant \in [Envelopes -> Tenants]
    /\ Topic \in [Partitions -> Topics]
    /\ Poison \notin Envelopes
    /\ NoRow \notin Envelopes
    /\ NoWorker \notin Workers

ASSUME BoundsAssumption ==
    {MaxLog, MaxCrashes, MaxFailures, MaxRebalances, MaxSeeds} \subseteq Nat

VARIABLES
    log,         \* per partition, the records appended so far
    committed,   \* per partition, the offset the group has committed
    owner,       \* per partition, the worker the coordinator assigned it to
    inbox,       \* event_inbox: per event id, the envelope that inserted the row
    status,      \* event_inbox.status of that row
    raw,         \* the event ids in raw_events
    rows,        \* per domain key, the envelope whose values the row holds
    stock,       \* tenant_products.inventory_on_hand
    alerts,      \* per envelope, the alerts with it as source_event_id
    hourly,      \* per envelope, how often its delta is in tenant_metrics_hourly
    daily,       \* per envelope, how often its delta is in tenant_metrics_daily
    watermark,   \* pipeline_watermarks.last_processed_offset
    pc,          \* per worker, the next call of its loop
    member,      \* per worker, whether its group generation is current
    position,    \* per worker and partition, the consumer's fetch position
    handled,     \* per worker and partition, the records of the batch gone through
    cur,         \* per worker, the partition whose records it iterates over
    rec,         \* per worker, the envelope in hand
    counted,     \* per worker, whether processed_since_commit > 0
    failed,      \* <<partition, offset>> logged as "failed to process Kafka record"
    budget       \* per kind of fault, how many more may happen

kafka == <<log, committed, owner>>
claims == <<inbox, status, raw>>
domain == <<rows, stock, alerts>>
metrics == <<hourly, daily>>
db == <<claims, domain, metrics, watermark>>
consumer == <<member, position, cur>>
loop == <<handled, rec, counted, failed>>
vars == <<kafka, db, pc, consumer, loop, budget>>

-------------------------------------------------------------------------------

Live(w) == pc[w] \notin {"down", "dead"}

\* The calls of one record, in the order handle and start make them.
RecordSteps == {"inbox", "raw", "duplicate", "domain", "alert", "hourly",
                "daily", "mark", "watermark", "count"}

\* Between its inbox row and its mark, the event is the worker's own.
ClaimSteps == RecordSteps \ {"inbox", "watermark", "count"}

Goto(w, step) == pc' = [pc EXCEPT ![w] = step]

Call(w, step, next) == pc[w] = step /\ Goto(w, next)

Spend(fault) ==
    /\ budget[fault] > 0
    /\ budget' = [budget EXCEPT ![fault] = @ - 1]

LogSize == MapThenSumSet(LAMBDA p : Len(log[p]), Partitions)

Init ==
    /\ log = [p \in Partitions |-> <<>>]
    /\ committed = [p \in Partitions |-> 0]
    /\ owner \in [Partitions -> Workers]
    /\ inbox = [i \in Ids |-> NoRow]
    /\ status = [i \in Ids |-> "none"]
    /\ raw = {}
    /\ rows = [k \in Keys |-> NoRow]
    /\ stock = [k \in Keys |-> 0]
    /\ alerts = [e \in Envelopes |-> 0]
    /\ hourly = [e \in Envelopes |-> 0]
    /\ daily = [e \in Envelopes |-> 0]
    /\ watermark = [s \in Tenants \X Topics |-> -1]
    /\ pc = [w \in Workers |-> "poll"]
    /\ member = [w \in Workers |-> FALSE]
    /\ position = [w \in Workers |-> [p \in Partitions |-> 0]]
    /\ handled = [w \in Workers |-> [p \in Partitions |-> 0]]
    /\ cur = [w \in Workers |-> CHOOSE p \in Partitions : TRUE]
    /\ rec = [w \in Workers |-> NoRow]
    /\ counted = [w \in Workers |-> FALSE]
    /\ failed = {}
    /\ budget = [f \in Faults |-> CASE f = "crash"     -> MaxCrashes
                                    [] f = "failure"   -> MaxFailures
                                    [] f = "rebalance" -> MaxRebalances
                                    [] f = "seed"      -> MaxSeeds]

-------------------------------------------------------------------------------
(* The world outside the service.                                          *)

\* A producer, an HTTP retry or a DLQ replay appends an envelope, possibly one
\* that is in the log already; or a record that is no envelope is appended.
Produce(p, r) ==
    /\ LogSize < MaxLog
    /\ r = Poison \/ (r \in Envelopes /\ p \in Routes[r])
    /\ log' = [log EXCEPT ![p] = Append(@, r)]
    /\ UNCHANGED <<committed, owner, db, pc, consumer, loop, budget>>

\* Tenant onboarding and the demo seed write raw_events without an inbox row.
SeedRawEvent(e) ==
    /\ Spend("seed")
    /\ raw' = raw \cup {EventId[e]}
    /\ UNCHANGED <<kafka, inbox, status, domain, metrics, watermark, pc, consumer, loop>>

\* The coordinator completes a rebalance among the live workers.  A worker
\* that is inside a batch takes no part in it: it keeps its old generation.
Rebalance ==
    /\ Spend("rebalance")
    /\ owner' \in [Partitions -> Workers \cup {NoWorker}]
    /\ \A p \in Partitions :
          IF \E w \in Workers : Live(w)
          THEN owner'[p] \in Workers /\ Live(owner'[p])
          ELSE owner'[p] = NoWorker
    /\ member' = [w \in Workers |-> FALSE]
    /\ UNCHANGED <<log, committed, db, pc, position, cur, loop>>

-------------------------------------------------------------------------------
(* The consume loop: KafkaProcessingWorker.start.                          *)

\* Mutants: a worker resumes where it was before the rebalance; a group without
\* a committed offset starts at the end of the log (auto_offset_reset=latest).
RememberedOffsets(w) == position[w]
LatestOffsets(w) == [p \in Partitions |-> IF committed[p] = 0 THEN Len(log[p]) ELSE committed[p]]

StartOffsets(w) == committed

\* poll() first rejoins the group when the generation is old, and then starts
\* from the committed offsets.
Join(w) ==
    /\ pc[w] = "poll"
    /\ ~member[w]
    /\ member' = [member EXCEPT ![w] = TRUE]
    /\ position' = [position EXCEPT ![w] = StartOffsets(w)]
    /\ handled' = [handled EXCEPT ![w] = StartOffsets(w)]
    /\ UNCHANGED <<kafka, db, pc, cur, rec, counted, failed, budget>>

Poll(w) ==
    /\ Call(w, "poll", "next")
    /\ member[w]
    /\ \E upto \in [Partitions -> 0 .. MaxLog] :
          /\ \A p \in Partitions :
                /\ position[w][p] <= upto[p]
                /\ upto[p] <= Len(log[p])
                /\ owner[p] # w => upto[p] = position[w][p]
          /\ upto # position[w]
          /\ position' = [position EXCEPT ![w] = upto]
    /\ counted' = [counted EXCEPT ![w] = FALSE]
    /\ UNCHANGED <<kafka, db, member, cur, handled, rec, failed, budget>>

Pending(w, p) == handled[w][p] < position[w][p]

\* The records of one partition are iterated over before those of the next.
IsNext(w, p) == Pending(w, p) /\ (Pending(w, cur[w]) => p = cur[w])

Skip(w, p) == handled' = [handled EXCEPT ![w][p] = @ + 1]

\* Mutant: envelope_from_json does not validate.
AnyRecord(r) == TRUE

IsEnvelope(r) == r \in Envelopes

TakeEnvelope(w, p) ==
    /\ Call(w, "next", "inbox")
    /\ IsNext(w, p)
    /\ IsEnvelope(log[p][handled[w][p] + 1])
    /\ rec' = [rec EXCEPT ![w] = log[p][handled[w][p] + 1]]
    /\ cur' = [cur EXCEPT ![w] = p]
    /\ UNCHANGED <<kafka, db, member, position, handled, counted, failed, budget>>

\* Mutant: the record is decoded outside the try, and ends the consumer task.
PoisonEndsLoop == "dead"

AfterPoison == "next"

\* envelope_from_json raises: the record is logged as failed and passed over.
TakePoison(w, p) ==
    /\ Call(w, "next", AfterPoison)
    /\ IsNext(w, p)
    /\ ~IsEnvelope(log[p][handled[w][p] + 1])
    /\ Skip(w, p)
    /\ failed' = failed \cup {<<p, handled[w][p]>>}
    /\ cur' = [cur EXCEPT ![w] = p]
    /\ UNCHANGED <<kafka, db, member, position, rec, counted, budget>>

BatchDone(w) == \A p \in Partitions : ~Pending(w, p)

\* Every record of the batch failed: no commit, but the position stays.
SkipCommit(w) ==
    /\ Call(w, "next", "poll")
    /\ BatchDone(w)
    /\ ~counted[w]
    /\ UNCHANGED <<kafka, db, consumer, loop, budget>>

\* commit() stores the positions of the partitions assigned to this worker.
Commit(w) ==
    /\ Call(w, "next", "poll")
    /\ BatchDone(w)
    /\ counted[w]
    /\ member[w]
    /\ committed' = [p \in Partitions |->
                       IF owner[p] = w THEN position[w][p] ELSE committed[p]]
    /\ UNCHANGED <<log, owner, db, consumer, loop, budget>>

\* CommitFailedError is raised outside the try: it ends the consumer task,
\* while the service goes on answering /health.
CommitFails(w) ==
    /\ Call(w, "next", "dead")
    /\ BatchDone(w)
    /\ counted[w]
    /\ ~member[w]
    /\ UNCHANGED <<kafka, db, consumer, loop, budget>>

-------------------------------------------------------------------------------
(* One record: EventProcessor.handle, then update_watermark.               *)

\* Mutants: a redelivered event is taken up again; or marked as a duplicate.
ResumeClaimed == "domain"
MarkClaimed == "duplicate"

AfterConflict == "watermark"

\* The insert is on conflict do nothing: without a row, handle returns at once.
WriteInboxRow(w) ==
    LET e == rec[w] IN
    /\ pc[w] = "inbox"
    /\ \/ /\ inbox[EventId[e]] = NoRow
          /\ inbox' = [inbox EXCEPT ![EventId[e]] = e]
          /\ status' = [status EXCEPT ![EventId[e]] = "processing"]
          /\ Goto(w, "raw")
       \/ /\ inbox[EventId[e]] # NoRow
          /\ Goto(w, AfterConflict)
          /\ UNCHANGED <<inbox, status>>
    /\ UNCHANGED <<kafka, raw, domain, metrics, watermark, consumer, loop, budget>>

WriteRawEvent(w) ==
    LET id == EventId[rec[w]] IN
    /\ pc[w] = "raw"
    /\ Goto(w, IF id \in raw THEN "duplicate" ELSE "domain")
    /\ raw' = raw \cup {id}
    /\ UNCHANGED <<kafka, inbox, status, domain, metrics, watermark, consumer, loop, budget>>

MarkEventDuplicate(w) ==
    /\ Call(w, "duplicate", "watermark")
    /\ status' = [status EXCEPT ![EventId[rec[w]]] = "duplicate"]
    /\ UNCHANGED <<kafka, inbox, raw, domain, metrics, watermark, consumer, loop, budget>>

Clamped(n) == IF n < 0 THEN 0 ELSE n

\* Mutant: every domain table is written on conflict do nothing.
InsertsOnly(e) == FALSE

Overwrites(e) == Kind[e] \in UpsertKinds

\* Orders, payments and products are upserts, last writer wins, and a product
\* adds its delta to the stock; sessions and health rows are inserted once.
WriteDomainRow(w) ==
    LET e == rec[w]
        k == RowKey[e]
    IN
    /\ Call(w, "domain", IF e \in Risky THEN "alert" ELSE "hourly")
    /\ rows' = [rows EXCEPT ![k] =
                  IF Overwrites(e) \/ @ = NoRow THEN e ELSE @]
    /\ stock' = IF Kind[e] = "product"
                THEN [stock EXCEPT ![k] = Clamped(@ + Delta[e])]
                ELSE stock
    /\ UNCHANGED <<kafka, claims, alerts, metrics, watermark, consumer, loop, budget>>

\* Mutant: the alert is written in a task of its own that nobody waits for.
AlertInBackground(w) ==
    /\ Call(w, "alert", "hourly")
    /\ alerts' \in {alerts, [alerts EXCEPT ![rec[w]] = @ + 1]}
    /\ UNCHANGED <<kafka, claims, rows, stock, metrics, watermark, consumer, loop, budget>>

WriteRiskAlert(w) ==
    /\ Call(w, "alert", "hourly")
    /\ alerts' = [alerts EXCEPT ![rec[w]] = @ + 1]
    /\ UNCHANGED <<kafka, claims, rows, stock, metrics, watermark, consumer, loop, budget>>

WriteMetricHourly(w) ==
    /\ Call(w, "hourly", "daily")
    /\ hourly' = [hourly EXCEPT ![rec[w]] = @ + 1]
    /\ UNCHANGED <<kafka, claims, domain, daily, watermark, consumer, loop, budget>>

WriteMetricDaily(w) ==
    /\ Call(w, "daily", "mark")
    /\ daily' = [daily EXCEPT ![rec[w]] = @ + 1]
    /\ UNCHANGED <<kafka, claims, domain, hourly, watermark, consumer, loop, budget>>

MarkEventProcessed(w) ==
    /\ Call(w, "mark", "watermark")
    /\ status' = [status EXCEPT ![EventId[rec[w]]] = "processed"]
    /\ UNCHANGED <<kafka, inbox, raw, domain, metrics, watermark, consumer, loop, budget>>

Greatest(a, b) == IF a < b THEN b ELSE a

UpdateWatermark(w) ==
    /\ Call(w, "watermark", "count")
    /\ watermark' = [watermark EXCEPT ![<<Tenant[rec[w]], Topic[cur[w]]>>] =
                       Greatest(@, handled[w][cur[w]])]
    /\ UNCHANGED <<kafka, claims, domain, metrics, consumer, loop, budget>>

CountProcessed(w) ==
    /\ Call(w, "count", "next")
    /\ Skip(w, cur[w])
    /\ counted' = [counted EXCEPT ![w] = TRUE]
    /\ rec' = [rec EXCEPT ![w] = NoRow]
    /\ UNCHANGED <<kafka, db, consumer, failed, budget>>

\* The next call raises, or the answer of the last one was lost after it took
\* effect: the exception is logged and the loop goes on with the next record.
Fail(w) ==
    /\ pc[w] \in RecordSteps
    /\ Spend("failure")
    /\ Goto(w, "next")
    /\ Skip(w, cur[w])
    /\ failed' = failed \cup {<<cur[w], handled[w][cur[w]]>>}
    /\ rec' = [rec EXCEPT ![w] = NoRow]
    /\ UNCHANGED <<kafka, db, consumer, counted>>

\* The process stops anywhere: killed, or cancelled by shutdown, whose
\* CancelledError no handler in the loop catches.
Crash(w) ==
    /\ pc[w] # "down"
    /\ Spend("crash")
    /\ Goto(w, "down")
    /\ member' = [member EXCEPT ![w] = FALSE]
    /\ rec' = [rec EXCEPT ![w] = NoRow]
    /\ position' = [position EXCEPT ![w] = [p \in Partitions |-> 0]]
    /\ handled' = [handled EXCEPT ![w] = [p \in Partitions |-> 0]]
    /\ counted' = [counted EXCEPT ![w] = FALSE]
    /\ UNCHANGED <<kafka, db, cur, failed>>

Restart(w) ==
    /\ Call(w, "down", "poll")
    /\ UNCHANGED <<kafka, db, consumer, loop, budget>>

-------------------------------------------------------------------------------

Handle(w) ==
    \/ WriteInboxRow(w)
    \/ WriteRawEvent(w)
    \/ MarkEventDuplicate(w)
    \/ WriteDomainRow(w)
    \/ WriteRiskAlert(w)
    \/ WriteMetricHourly(w)
    \/ WriteMetricDaily(w)
    \/ MarkEventProcessed(w)

Loop(w) ==
    \/ Join(w)
    \/ Poll(w)
    \/ \E p \in Partitions : TakeEnvelope(w, p) \/ TakePoison(w, p)
    \/ Handle(w)
    \/ UpdateWatermark(w)
    \/ CountProcessed(w)
    \/ SkipCommit(w)
    \/ Commit(w)
    \/ CommitFails(w)
    \/ Restart(w)

Environment ==
    \/ \E p \in Partitions, r \in Envelopes \cup {Poison} : Produce(p, r)
    \/ \E e \in Envelopes : SeedRawEvent(e)
    \/ Rebalance

Next ==
    \/ \E w \in Workers : Loop(w) \/ Fail(w) \/ Crash(w)
    \/ Environment

Spec == Init /\ [][Next]_vars

\* The loop runs as long as its process does, and a process that died is
\* restarted; nothing obliges a fault or a producer to happen.
FairSpec == Spec /\ \A w \in Workers : WF_vars(Loop(w))

-------------------------------------------------------------------------------
(* Types.                                                                  *)

Steps == RecordSteps \cup {"poll", "next", "down", "dead"}

KafkaOK ==
    /\ log \in [Partitions -> Seq(Envelopes \cup {Poison})]
    /\ committed \in [Partitions -> Nat]
    /\ owner \in [Partitions -> Workers \cup {NoWorker}]

TablesOK ==
    /\ inbox \in [Ids -> Envelopes \cup {NoRow}]
    /\ status \in [Ids -> {"none", "processing", "processed", "duplicate"}]
    /\ raw \subseteq Ids
    /\ rows \in [Keys -> Envelopes \cup {NoRow}]
    /\ stock \in [Keys -> Nat]
    /\ alerts \in [Envelopes -> Nat]
    /\ hourly \in [Envelopes -> Nat]
    /\ daily \in [Envelopes -> Nat]
    /\ watermark \in [Tenants \X Topics -> Int]

WorkersOK ==
    /\ pc \in [Workers -> Steps]
    /\ rec \in [Workers -> Envelopes \cup {NoRow}]
    /\ \A w \in Workers : pc[w] \in RecordSteps => rec[w] \in Envelopes
    /\ member \in [Workers -> BOOLEAN]
    /\ counted \in [Workers -> BOOLEAN]
    /\ cur \in [Workers -> Partitions]
    /\ position \in [Workers -> [Partitions -> Nat]]
    /\ handled \in [Workers -> [Partitions -> Nat]]
    /\ failed \subseteq (Partitions \X Nat)

TypeOK == KafkaOK /\ TablesOK /\ WorkersOK /\ budget \in [Faults -> Nat]

-------------------------------------------------------------------------------
(* Safety.                                                                 *)

NoEffect(e) == alerts[e] = 0 /\ hourly[e] = 0 /\ daily[e] = 0

\* However often an event is delivered, and however its deliveries interleave
\* on several workers, its delta is added to the hourly row at most once and to
\* the daily row at most once and it raises at most one alert; and of several
\* envelopes with one event id, at most one has any of these effects.
CountedAtMostOnce ==
    /\ \A e \in Envelopes : alerts[e] <= 1 /\ hourly[e] <= 1 /\ daily[e] <= 1
    /\ \A d, e \in Envelopes :
          EventId[d] = EventId[e] /\ d # e => NoEffect(d) \/ NoEffect(e)

\* From its inbox row until it marks the event, a worker is the only one at work
\* on that event id, and the row is its own: no rebalance, redelivery or second
\* envelope with the id gives the event to a second worker.
ClaimIsExclusive ==
    \A w \in Workers :
       pc[w] \in ClaimSteps =>
          /\ inbox[EventId[rec[w]]] = rec[w]
          /\ status[EventId[rec[w]]] = "processing"
          /\ \A v \in Workers :
                v # w /\ pc[v] \in ClaimSteps => EventId[rec[v]] # EventId[rec[w]]

\* A crash or a failure anywhere leaves a prefix of the effects in handle's
\* order: no daily delta without the hourly one, no delta without the raw
\* event, the domain row and the alert of a risky payment.
EffectsFollowProgramOrder ==
    \A e \in Envelopes :
       /\ daily[e] <= hourly[e]
       /\ hourly[e] > 0 => (e \in Risky => alerts[e] = 1)
       /\ ~NoEffect(e) =>
             /\ EventId[e] \in raw
             /\ rows[RowKey[e]] # NoRow

\* What event_inbox.status tells an operator is true: a processed event has
\* all its effects, a duplicate or unseen one has none.
StatusTellsEffects ==
    \A i \in Ids :
       /\ status[i] = "processed" =>
             LET e == inbox[i] IN
             /\ i \in raw
             /\ hourly[e] = 1
             /\ daily[e] = 1
             /\ e \in Risky => alerts[e] = 1
       /\ status[i] \in {"none", "duplicate"} =>
             \A e \in Envelopes : EventId[e] = i => NoEffect(e)

\* Offset n of partition p was dealt with: it is in the failure log, or its
\* event has an inbox row and the watermark of its stream has reached it.
Accounted(p, n) ==
    \/ <<p, n>> \in failed
    \/ /\ log[p][n + 1] \in Envelopes
       /\ inbox[EventId[log[p][n + 1]]] # NoRow
       /\ watermark[<<Tenant[log[p][n + 1]], Topic[p]>>] >= n

\* No rebalance, crash or fenced commit lets the group's offset pass a record
\* that no worker has dealt with.
CommittedIsAccounted ==
    \A p \in Partitions :
       /\ committed[p] <= Len(log[p])
       /\ \A n \in 0 .. committed[p] - 1 : Accounted(p, n)

\* A worker that lost its partitions in the middle of a batch never moves the
\* group's offset back.
CommittedNeverRetreats ==
    [][\A p \in Partitions : committed'[p] >= committed[p]]_vars

-------------------------------------------------------------------------------
(* The order of the writes to one row, and what is lost.                   *)

Precedes(d, e) ==
    \E p \in Partitions : \E m \in DOMAIN log[p] :
       /\ log[p][m] = d
       /\ \A n \in DOMAIN log[p] : log[p][n] = e => m < n

\* The row of an order, payment or product holds the values of the event that
\* came last in its partition, among those that were counted.
RowHoldsLatest ==
    \A d, e \in Envelopes :
       /\ d # e
       /\ RowKey[d] = RowKey[e]
       /\ rows[RowKey[e]] = e
       /\ hourly[d] > 0
       => Precedes(d, e)

\* The stock that the deltas of the envelopes s leave, written one after the other.
StockAfter(s) ==
    LET run[i \in 0 .. Len(s)] == IF i = 0 THEN 0 ELSE Clamped(run[i - 1] + Delta[s[i]])
    IN  run[Len(s)]

OfProduct(k) == {e \in Envelopes : Kind[e] = "product" /\ RowKey[e] = k}

\* The orders in which the deltas in the stock of k can have been written: each
\* envelope once, every one that was counted and none that was not claimed.
Histories(k) ==
    LET holding == {S \in SUBSET OfProduct(k) :
                      \A e \in OfProduct(k) :
                         /\ hourly[e] > 0 => e \in S
                         /\ e \in S => inbox[EventId[e]] = e}
    IN  {s \in UNION {[1 .. Cardinality(S) -> S] : S \in holding} :
           \A i, j \in DOMAIN s : s[i] = s[j] => i = j}

\* Whatever deltas are sent, negative ones included, and whatever the clamp cuts
\* off: the stock is what applying some of the product's events one by one
\* leaves, each at most once, and those that were counted among them.
StockCountsOnce ==
    \A k \in Keys : \E s \in Histories(k) : stock[k] = StockAfter(s)

\* ... and they are applied in the order of the product's partition, on which the
\* result depends as soon as the clamp cuts: two readers that take turns would
\* leave a stock that the log does not explain.
StockFollowsLog ==
    \A k \in Keys : \E s \in Histories(k) :
       /\ stock[k] = StockAfter(s)
       /\ \A i, j \in DOMAIN s : i < j => Precedes(s[i], s[j])

\* README.md:94 "The processing service consumes with at-least-once delivery":
\* an envelope below the committed offset has its effect in the metrics.
DeliveredTakesEffect ==
    \A p \in Partitions : \A n \in 1 .. committed[p] :
       log[p][n] \in Envelopes => hourly[log[p][n]] > 0

\* reliability/scenarios/duplicate_event.py:128 "Dedup key is always
\* (tenant_id, event_id) - never event_id alone": an envelope is passed over as
\* a duplicate only of an envelope of its own tenant.
DedupKeyIncludesTenant ==
    \A p \in Partitions : \A n \in 1 .. committed[p] :
       log[p][n] \in Envelopes =>
          Tenant[inbox[EventId[log[p][n]]]] = Tenant[log[p][n]]

-------------------------------------------------------------------------------
(* Liveness.                                                               *)

\* Without rebalances, every record appended is eventually dealt with or logged
\* as failed, whatever crashes and failures happen before.
EveryRecordIsAccounted ==
    \A p \in Partitions : \A n \in 0 .. MaxLog - 1 :
       (Len(log[p]) > n) ~> (Len(log[p]) > n /\ Accounted(p, n))

-------------------------------------------------------------------------------
(* The promise to the readers of the metrics, from EventLedger.            *)

Ledger == INSTANCE EventLedger WITH
    claim <- inbox,
    closed <- {i \in Ids : status[i] = "processed"}

LedgerSpec == Ledger!Spec
===============================================================================
