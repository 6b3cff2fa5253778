-------------------------- MODULE StreamingJobProofs ---------------------------
(***************************************************************************)
(* Proofs about StreamingJob, for any records, batches, failures and       *)
(* replays, and any set of queries.                                        *)
(***************************************************************************)
EXTENDS StreamingJob, NaturalsInduction, WellFoundedInduction, TLAPS

Steps == {"idle", "upsert windows", "record watermark", "write dead letters",
          "write late events", "audit", "commit"}

BatchOk(q) ==
    /\ batch[q] \in {NoBatch} \cup [upto : Nat, at : Nat]
    /\ batch[q] = NoBatch => step[q] = "idle"
    /\ batch[q] # NoBatch => batch[q].upto <= Len(log)

\* Types; a query between its batches is idle.
StreamType ==
    /\ now \in Nat
    /\ log \in Seq(Records)
    /\ offset \in [Queries -> Nat]
    /\ batch \in [Queries -> {NoBatch} \cup [upto : Nat, at : Nat]]
    /\ step \in [Queries -> Steps]
    /\ watermark \in [Queries -> Int]
    /\ seen \in [Queries -> SUBSET Records]
    /\ counted \in [Records -> Nat]
    /\ window \in [Records -> Nat]
    /\ late \in [EventKeys -> {"none", "duplicate", "late_accepted", "late_rejected"}]
    /\ \A q \in Queries : offset[q] <= Len(log) /\ BatchOk(q)

\* The log only grows.
LogGrows ==
    /\ log' \in Seq(Records)
    /\ Len(log) <= Len(log')
    /\ \A o \in 1..Len(log) : log'[o] = log[o]

\* What a batch of q is computed from, other than the log.
SameBatch(q) ==
    /\ offset'[q] = offset[q] /\ batch'[q] = batch[q]
    /\ watermark'[q] = watermark[q] /\ seen'[q] = seen[q]

-------------------------------------------------------------------------------
(* Batches.                                                                *)

LEMMA ReadIsOfLog ==
  ASSUME StreamType, NEW q \in Queries, NEW o \in Read(q)
  PROVE  o \in 1..Len(log) /\ log[o] \in Records /\ batch[q] # NoBatch
<1>1. batch[q] # NoBatch /\ o \in offset[q] + 1 .. batch[q].upto
  BY DEF Read
<1>2. batch[q].upto \in Nat /\ batch[q].upto <= Len(log) /\ offset[q] \in Nat /\ Len(log) \in Nat
  BY <1>1 DEF StreamType, BatchOk
<1>3. o \in 1..Len(log)
  BY <1>1, <1>2
<1> QED
  BY <1>1, <1>3 DEF StreamType

\* Records appended meanwhile do not change a planned batch.
LEMMA ReadStable ==
  ASSUME StreamType, LogGrows, NEW q \in Queries, SameBatch(q)
  PROVE  Read(q)' = Read(q) /\ \A o \in Read(q) : log'[o] = log[o]
<1>1. CASE batch[q] = NoBatch
  BY <1>1 DEF Read, SameBatch
<1>2. CASE batch[q] # NoBatch
  <2>1. \A o \in offset[q] + 1 .. batch[q].upto : o \in 1..Len(log) /\ log'[o] = log[o]
    <3>1. batch[q].upto \in Nat /\ batch[q].upto <= Len(log) /\ offset[q] \in Nat /\ Len(log) \in Nat
      BY <1>2 DEF StreamType, BatchOk
    <3> QED
      BY <3>1 DEF LogGrows
  <2> QED
    BY <1>2, <2>1 DEF Read, SameBatch
<1> QED
  BY <1>1, <1>2

LEMMA AboveStable ==
  ASSUME StreamType, LogGrows, NEW q \in Queries, SameBatch(q)
  PROVE  /\ AboveWatermark(q)' = AboveWatermark(q)
         /\ \A o \in AboveWatermark(q) : log'[o] = log[o]
<1>1. Read(q)' = Read(q) /\ \A o \in Read(q) : log'[o] = log[o]
  BY ReadStable
<1>2. ValidOf(Read(q))' = ValidOf(Read(q)) /\ ValidOf(Read(q)) \subseteq Read(q)
  BY <1>1 DEF ValidOf
<1> QED
  BY <1>1, <1>2 DEF AboveWatermark, SameBatch

LEMMA DedupStable ==
  ASSUME StreamType, LogGrows, NEW q \in Queries, SameBatch(q)
  PROVE  /\ Deduplicate(q)' = Deduplicate(q)
         /\ Accepted(q)' = Accepted(q)
         /\ Rejected(q)' = Rejected(q)
<1> DEFINE A == AboveWatermark(q)
<1> DEFINE S == {o \in A : ~Known(q, log[o])}
<1> DEFINE F == {o \in S : \A p \in S : p < o => ~Copies(log[p], log[o])}
<1>1. A' = A /\ \A o \in A : log'[o] = log[o]
  BY AboveStable
<1>2. S' = S
  BY <1>1 DEF Known, Copies, SameBatch
<1>3. S \subseteq A /\ F \subseteq A
  OBVIOUS
<1>4. F' = F
  BY <1>1, <1>2, <1>3 DEF Copies
<1>5. /\ Deduplicate(q) = {log[o] : o \in F}
      /\ Deduplicate(q)' = {log'[o] : o \in F'}
  BY DEF Deduplicate, FirstOfKey, RecordsAt
<1>6. Deduplicate(q)' = Deduplicate(q)
  <2> HIDE DEF A, S, F
  <2> QED
    BY <1>1, <1>3, <1>4, <1>5
<1>7. Accepted(q)' = Accepted(q)
  BY <1>6 DEF Accepted, SameBatch
<1> QED
  BY <1>6, <1>7 DEF Rejected

\* A row that a batch takes up: its key is new to the query, it is above the
\* watermark, and it is the first of its key.
LEMMA TakenAt ==
  ASSUME StreamType, NEW q \in Queries, NEW r \in Deduplicate(q)
  PROVE  \E o \in Read(q) :
            /\ r = log[o] /\ r \in Records /\ o \in AboveWatermark(q)
            /\ ~Known(q, r) /\ EventTime[r] > watermark[q]
            /\ \A p \in AboveWatermark(q) :
                  ~Known(q, log[p]) /\ p < o => ~Copies(log[p], r)
<1>1. PICK o \in AboveWatermark(q) :
         /\ r = log[o] /\ ~Known(q, log[o])
         /\ \A p \in AboveWatermark(q) : ~Known(q, log[p]) => (p < o => ~Copies(log[p], log[o]))
  BY DEF Deduplicate, FirstOfKey, RecordsAt
<1>2. o \in Read(q) /\ EventTime[log[o]] > watermark[q]
  BY DEF AboveWatermark, ValidOf
<1>3. log[o] \in Records
  BY <1>2, ReadIsOfLog
<1> QED
  BY <1>1, <1>2, <1>3

LEMMA TakenIsNew ==
  ASSUME StreamType, NEW q \in Queries, NEW r \in Deduplicate(q)
  PROVE  /\ r \in Records /\ r \notin seen[q] /\ ~Known(q, r)
         /\ EventTime[r] > watermark[q]
<1>1. r \in Records /\ ~Known(q, r) /\ EventTime[r] > watermark[q]
  BY TakenAt
<1>2. r \notin seen[q]
  BY <1>1 DEF Known, Copies
<1> QED
  BY <1>1, <1>2

\* A batch takes up one row of a key.
LEMMA OneOfKey ==
  ASSUME StreamType, NEW q \in Queries, NEW d \in Deduplicate(q), NEW e \in Deduplicate(q),
         Copies(d, e)
  PROVE  d = e
<1>1. PICK o \in Read(q) :
         /\ d = log[o] /\ o \in AboveWatermark(q) /\ ~Known(q, d)
         /\ \A p \in AboveWatermark(q) : ~Known(q, log[p]) /\ p < o => ~Copies(log[p], d)
  BY TakenAt
<1>2. PICK u \in Read(q) :
         /\ e = log[u] /\ u \in AboveWatermark(q) /\ ~Known(q, e)
         /\ \A p \in AboveWatermark(q) : ~Known(q, log[p]) /\ p < u => ~Copies(log[p], e)
  BY TakenAt
<1>3. o \in Int /\ u \in Int
  BY ReadIsOfLog
<1>4. Copies(e, d)
  BY DEF Copies
<1>5. ~(o < u)
  BY <1>1, <1>2
<1>6. ~(u < o)
  BY <1>1, <1>2, <1>4
<1>7. o = u
  BY <1>3, <1>5, <1>6
<1> QED
  BY <1>1, <1>2, <1>7

LEMMA LeastOffset ==
  ASSUME NEW S \in SUBSET Nat, NEW n \in S
  PROVE  \E m \in S : \A k \in S : m <= k
<1>1. PICK m \in S : \A k \in S : <<k, m>> \notin OpToRel(<, Nat)
  BY NatLessThanWellFounded, WFMin
<1>2. \A k \in S : ~(k < m)
  BY <1>1 DEF OpToRel
<1> QED
  BY <1>2

\* A new key above the watermark is taken up, by the first of its rows.
LEMMA NewKeyIsTaken ==
  ASSUME StreamType, NEW q \in Queries, NEW o \in AboveWatermark(q), ~Known(q, log[o])
  PROVE  \E r \in Deduplicate(q) : Copies(r, log[o])
<1> DEFINE S == {p \in AboveWatermark(q) : ~Known(q, log[p])}
<1> DEFINE T == {p \in S : Copies(log[p], log[o])}
<1>1. T \subseteq Nat
  <2>1. AboveWatermark(q) \subseteq Read(q)
    BY DEF AboveWatermark, ValidOf
  <2> QED
    BY <2>1, ReadIsOfLog
<1>2. o \in T
  BY DEF Copies
<1>3. PICK m \in T : \A k \in T : m <= k
  BY <1>1, <1>2, LeastOffset
<1>4. m \in S /\ Copies(log[m], log[o])
  OBVIOUS
<1>5. ASSUME NEW p \in S, p < m
      PROVE  ~Copies(log[p], log[m])
  <2>1. p \notin T
    <3>1. p \in T => m <= p /\ p \in Nat /\ m \in Nat
      BY <1>1, <1>3
    <3> QED
      BY <1>5, <3>1
  <2> QED
    BY <1>4, <1>5, <2>1 DEF Copies
<1>6. log[m] \in FirstOfKey(S)
  BY <1>4, <1>5 DEF FirstOfKey, RecordsAt
<1>7. log[m] \in Deduplicate(q)
  BY <1>6 DEF Deduplicate
<1> QED
  BY <1>4, <1>7

-------------------------------------------------------------------------------
(* Type correctness.                                                       *)

LEMMA FirstCallIsStep ==
  ASSUME NEW q \in Queries
  PROVE  FirstCall(q) \in {"upsert windows", "write dead letters", "write late events"}
BY DEF FirstCall

LEMMA InitStream == Init => StreamType
<1> SUFFICES ASSUME Init PROVE StreamType
  OBVIOUS
<1>1. log \in Seq(Records)
  <2>1. CASE log = <<>>
    BY <2>1
  <2>2. ASSUME NEW r \in Records, log = <<r>>
        PROVE  log \in Seq(Records)
    BY <2>2
  <2> QED
    BY <2>1, <2>2 DEF Init, Backlogs
<1>2. FirstOffset \in Nat /\ FirstOffset <= Len(log)
  BY <1>1 DEF FirstOffset
<1> QED
  BY <1>1, <1>2 DEF Init, StreamType, BatchOk, Steps, NoMark

LEMMA LogOnlyGrows ==
  ASSUME StreamType, [Next]_vars
  PROVE  LogGrows
<1>1. ASSUME NEW r \in Records, Produce(r)
      PROVE  LogGrows
  BY <1>1 DEF Produce, LogGrows, StreamType
<1>2. CASE log' = log
  BY <1>2 DEF LogGrows, StreamType
<1>3. ASSUME NEW q \in Queries, Query(q) \/ FailBatch(q)
      PROVE  log' = log
  BY <1>3 DEF Query, PlanBatch, ReplayBatch, WriteCheckpointAudit, CommitBatch, FailBatch, kafka
<1>4. ASSUME Callback
      PROVE  log' = log
  BY <1>4 DEF Callback, WriteWindowMetrics, WriteWatermark, WriteToDlq, DlqLateRows,
              DedupAuditBatch, LateAcceptedBatch, WriteLateEvents, kafka
<1>5. ASSUME NEW status, Crash(status)
      PROVE  log' = log
  BY <1>5 DEF Crash, kafka
<1> QED
  BY <1>1, <1>2, <1>3, <1>4, <1>5 DEF Next, vars, Tick, Restart, kafka

\* The next-state relation split into its steps.
LEMMA StepCases ==
  ASSUME [Next]_vars, NEW ACTION P,
         UNCHANGED vars => P,
         Tick => P,
         \A r \in Records : Produce(r) => P,
         \A q \in Queries : PlanBatch(q) => P,
         \A q \in Queries : ReplayBatch(q) => P,
         "aggregates" \in Queries /\ WriteWindowMetrics => P,
         "aggregates" \in Queries /\ WriteWatermark => P,
         "dlq" \in Queries /\ WriteToDlq => P,
         "dlq" \in Queries /\ DlqLateRows => P,
         "dedup-audit" \in Queries /\ DedupAuditBatch => P,
         "late-accepted-audit" \in Queries /\ LateAcceptedBatch => P,
         \A q \in Queries : WriteCheckpointAudit(q) => P,
         \A q \in Queries : CommitBatch(q) => P,
         \A q \in Queries : FailBatch(q) => P,
         \A status : Crash(status) => P,
         Restart => P
  PROVE  P
BY Zenon DEF Next, Callback, Query

LEMMA OnlyCommitMoves ==
  ASSUME StreamType, [Next]_vars, NEW a \in Queries, offset'[a] # offset[a]
  PROVE  CommitBatch(a)
<1>1. ASSUME NEW q \in Queries, CommitBatch(q), q # a
      PROVE  offset'[a] = offset[a]
  BY <1>1 DEF CommitBatch, StreamType
<1> QED
  BY <1>1 DEF Next, Query, Callback, vars, checkpoint, Tick, Produce, PlanBatch, ReplayBatch,
     WriteWindowMetrics, WriteWatermark, WriteToDlq, DlqLateRows, DedupAuditBatch,
     LateAcceptedBatch, WriteLateEvents, WriteCheckpointAudit, FailBatch, Crash, Restart

LEMMA NextStream == StreamType /\ [Next]_vars => StreamType'
<1> SUFFICES ASSUME StreamType, [Next]_vars PROVE StreamType'
  OBVIOUS
<1>0. UNCHANGED vars => StreamType'
  BY DEF vars, kafka, driver, checkpoint, tables, StreamType, BatchOk
<1>1. Tick => StreamType'
  BY DEF Tick, kafka, driver, checkpoint, tables, StreamType, BatchOk
<1>2. \A r \in Records : Produce(r) => StreamType'
  BY DEF Produce, driver, checkpoint, tables, StreamType, BatchOk
<1>3. \A q \in Queries : PlanBatch(q) => StreamType'
  <2> SUFFICES ASSUME NEW q \in Queries, PlanBatch(q) PROVE StreamType'
    OBVIOUS
  <2>1. /\ batch' = [batch EXCEPT ![q] = [upto |-> Len(log), at |-> now]]
        /\ step' = [step EXCEPT ![q] = FirstCall(q)]
        /\ UNCHANGED <<now, log, offset, watermark, seen, counted, window, late>>
    BY DEF PlanBatch, At, Goto, kafka, tables
  <2>2. [upto |-> Len(log), at |-> now] \in [upto : Nat, at : Nat] /\ Len(log) \in Nat
    BY DEF StreamType
  <2>3. FirstCall(q) \in Steps
    BY FirstCallIsStep DEF Steps
  <2>4. \A p \in Queries : BatchOk(p)'
    <3> TAKE p \in Queries
    <3>1. CASE p = q
      BY <2>1, <2>2, <3>1, QueriesAssumption DEF StreamType, BatchOk
    <3>2. CASE p # q
      BY <2>1, <3>2 DEF StreamType, BatchOk
    <3> QED
      BY <3>1, <3>2
  <2> QED
    BY <2>1, <2>2, <2>3, <2>4 DEF StreamType
<1>4. \A q \in Queries : ReplayBatch(q) => StreamType'
  BY FirstCallIsStep
     DEF ReplayBatch, At, Goto, kafka, driver, checkpoint, tables, StreamType, BatchOk, Steps
<1>5. "aggregates" \in Queries /\ WriteWindowMetrics => StreamType'
  <2>1. \A r \in Records : CountedAfter[r] \in Nat
    BY DEF CountedAfter, StreamType
  <2> QED
    BY <2>1 DEF WriteWindowMetrics, WindowUpsert, At, Goto, kafka, driver, checkpoint,
                StreamType, BatchOk, Steps
<1>6. "aggregates" \in Queries /\ WriteWatermark => StreamType'
  BY DEF WriteWatermark, At, Goto, kafka, driver, checkpoint, tables, StreamType, BatchOk, Steps
<1>7. "dlq" \in Queries /\ WriteToDlq => StreamType'
  BY DEF WriteToDlq, At, Goto, driver, checkpoint, tables, StreamType, BatchOk, Steps
<1>8. ASSUME NEW q \in Queries, NEW rs, NEW next \in Steps,
             NEW class \in {"duplicate", "late_accepted", "late_rejected"},
             WriteLateEvents(q, rs, class, next)
      PROVE  StreamType'
  BY <1>8 DEF WriteLateEvents, LateRows, At, Goto, kafka, driver, checkpoint, StreamType, BatchOk,
              Steps
<1>9. \A q \in Queries : WriteCheckpointAudit(q) => StreamType'
  BY DEF WriteCheckpointAudit, At, Goto, kafka, driver, checkpoint, tables, StreamType, BatchOk,
         Steps
<1>10. \A q \in Queries : CommitBatch(q) => StreamType'
  <2> SUFFICES ASSUME NEW q \in Queries, CommitBatch(q) PROVE StreamType'
    OBVIOUS
  <2>1. PICK w \in NextWatermarks(q) : watermark' = [watermark EXCEPT ![q] = w]
    BY DEF CommitBatch
  <2>2. batch[q] # NoBatch
    BY DEF CommitBatch, At, StreamType, BatchOk
  <2>3. w \in Int
    <3>1. ASSUME NEW t \in EventTimes(q) PROVE t \in Int
      <4>1. PICK o \in Read(q) : t = EventTime[log[o]]
        BY DEF EventTimes, RecordsAt, ValidOf
      <4> QED
        BY <4>1, ReadIsOfLog, RecordsAssumption
    <3>2. CASE EventTimes(q) = {}
      BY <2>1, <3>2 DEF NextWatermarks, StreamType
    <3>3. CASE EventTimes(q) # {}
      <4>1. PICK t \in EventTimes(q) : w = WatermarkAfter(watermark[q], t)
        BY <2>1, <3>3 DEF NextWatermarks, LatestTimes
      <4> QED
        BY <3>1, <4>1, ConfigAssumption DEF WatermarkAfter, ValidConfig, StreamType
    <3> QED
      BY <3>2, <3>3
  <2>4. seen' \in [Queries -> SUBSET Records]
    <3>1. SeenAfter(q) \subseteq Records
      BY TakenIsNew DEF SeenAfter, StreamType
    <3> QED
      BY <3>1 DEF CommitBatch, StreamType
  <2>5. counted' \in [Records -> Nat]
    BY DEF CommitBatch, CountedAfter, StreamType
  <2>6. /\ offset' = [offset EXCEPT ![q] = batch[q].upto]
        /\ batch' = [batch EXCEPT ![q] = NoBatch]
        /\ step' = [step EXCEPT ![q] = "idle"]
        /\ UNCHANGED <<now, log, window, late>>
    BY DEF CommitBatch, At, Goto, kafka, tables
  <2>7. \A p \in Queries : offset'[p] \in Nat /\ offset'[p] <= Len(log)' /\ BatchOk(p)'
    BY <2>2, <2>6 DEF StreamType, BatchOk
  <2>8. offset' \in [Queries -> Nat]
    BY <2>6, <2>7 DEF StreamType
  <2> QED
    BY <2>1, <2>3, <2>4, <2>5, <2>6, <2>7, <2>8 DEF StreamType, Steps
<1>11. \A q \in Queries : FailBatch(q) => StreamType'
  BY DEF FailBatch, Stop, checkpoint, tables, StreamType, BatchOk, Steps
<1>12. \A status : Crash(status) => StreamType'
  BY DEF Crash, Stop, kafka, checkpoint, tables, StreamType, BatchOk, Steps
<1>13. Restart => StreamType'
  BY DEF Restart, kafka, checkpoint, tables, StreamType, BatchOk
<1>14. /\ "dlq" \in Queries /\ DlqLateRows => StreamType'
       /\ "dedup-audit" \in Queries /\ DedupAuditBatch => StreamType'
       /\ "late-accepted-audit" \in Queries /\ LateAcceptedBatch => StreamType'
  BY <1>8 DEF DlqLateRows, DedupAuditBatch, LateAcceptedBatch, Steps
<1> QED
  BY <1>0, <1>1, <1>2, <1>3, <1>4, <1>5, <1>6, <1>7, <1>9, <1>10, <1>11, <1>12, <1>13, <1>14,
     StepCases, Zenon

-------------------------------------------------------------------------------
(* The window rows.                                                        *)

\* Each event that is counted is one that the query knows, or one whose copies
\* within the delay its watermark drops: what the deduplication state may forget.
CountInv ==
    /\ \A r \in Records : counted[r] <= 1
    /\ "aggregates" \in Queries =>
          \A r \in Records :
             counted[r] > 0 =>
                \/ r \in seen["aggregates"]
                \/ EventTime[r] + WatermarkDelay <= watermark["aggregates"]
    /\ \A d, e \in Records :
          d # e /\ Copies(d, e) /\ Near(d, e) => counted[d] = 0 \/ counted[e] = 0

\* Between the upsert and the commit the rows show the batch; when no batch
\* is planned they show the state.
WindowInv ==
    /\ WindowsShowState
    /\ "aggregates" \notin Queries => window = counted
    /\ "aggregates" \in Queries =>
          /\ batch["aggregates"] = NoBatch => window = counted
          /\ step["aggregates"] \in {"record watermark", "audit", "commit"} =>
                window = CountedAfter

LEMMA InitWindow == Init => CountInv /\ WindowInv
<1> SUFFICES ASSUME Init PROVE CountInv /\ WindowInv
  OBVIOUS
<1>1. window = counted /\ \A r \in Records : counted[r] = 0
  BY DEF Init
<1>2. "aggregates" \in Queries => step["aggregates"] = "idle"
  BY DEF Init
<1>3. CountInv
  BY <1>1 DEF CountInv
<1>4. WindowInv
  BY <1>1, <1>2, Zenon DEF WindowInv, WindowsShowState
<1> QED
  BY <1>3, <1>4

\* A row that the batch takes up has no copy near it among the events counted.
LEMMA TakenIsUncounted ==
  ASSUME StreamType, CountInv, "aggregates" \in Queries,
         NEW r \in Deduplicate("aggregates"), NEW d \in Records, Copies(d, r), Near(d, r)
  PROVE  counted[d] = 0
<1> DEFINE a == "aggregates"
<1>1. r \in Records /\ ~Known(a, r) /\ EventTime[r] > watermark[a]
  BY TakenIsNew
<1>2. /\ EventTime[r] \in Int /\ EventTime[d] \in Int /\ watermark[a] \in Int
      /\ counted[d] \in Nat /\ WatermarkDelay \in Nat
  BY <1>1, RecordsAssumption, ConfigAssumption DEF StreamType, ValidConfig
<1>3. d \notin seen[a]
  BY <1>1 DEF Known
<1>4. EventTime[r] <= EventTime[d] + WatermarkDelay
  BY DEF Near
<1>5. ~(EventTime[d] + WatermarkDelay <= watermark[a])
  BY <1>1, <1>2, <1>4
<1> QED
  BY <1>2, <1>3, <1>5 DEF CountInv

LEMMA NearItself ==
  ASSUME NEW r \in Records
  PROVE  Copies(r, r) /\ Near(r, r)
<1>1. EventTime[r] \in Int /\ WatermarkDelay \in Nat
  BY RecordsAssumption, ConfigAssumption DEF ValidConfig
<1> QED
  BY <1>1 DEF Copies, Near

\* The batch counts an event only if no earlier one did.
LEMMA OneMoreAtMost ==
  ASSUME StreamType, CountInv, "aggregates" \in Queries, NEW r \in Records
  PROVE  /\ CountedAfter[r] \in Nat /\ CountedAfter[r] <= 1
         /\ CountedAfter[r] # counted[r] =>
               /\ r \in Accepted("aggregates")
               /\ r \in Deduplicate("aggregates")
<1>1. CASE r \in Accepted("aggregates")
  <2>1. r \in Deduplicate("aggregates")
    BY <1>1 DEF Accepted
  <2>2. counted[r] = 0
    BY <2>1, TakenIsUncounted, NearItself
  <2> QED
    BY <1>1, <2>1, <2>2 DEF CountedAfter, EnrichWithTenantMetadata
<1>2. CASE r \notin Accepted("aggregates")
  BY <1>2 DEF CountedAfter, EnrichWithTenantMetadata, CountInv, StreamType
<1> QED
  BY <1>1, <1>2

\* Nor does it count a second copy of one.
LEMMA NoSecondCopy ==
  ASSUME StreamType, CountInv, "aggregates" \in Queries, NEW d \in Records, NEW e \in Records,
         d # e, Copies(d, e), Near(d, e)
  PROVE  CountedAfter[d] = 0 \/ CountedAfter[e] = 0
<1> DEFINE T == Deduplicate("aggregates")
<1>1. Copies(e, d) /\ Near(e, d)
  BY DEF Copies, Near
<1>2. ~(d \in T /\ e \in T)
  BY OneOfKey
<1>3. d \in T => counted[e] = 0
  BY <1>1, TakenIsUncounted
<1>4. e \in T => counted[d] = 0
  BY TakenIsUncounted
<1>5. counted[d] = 0 \/ counted[e] = 0
  BY DEF CountInv
<1>6. /\ CountedAfter[d] # counted[d] => d \in T
      /\ CountedAfter[e] # counted[e] => e \in T
  BY OneMoreAtMost
<1> QED
  BY <1>2, <1>3, <1>4, <1>5, <1>6

LEMMA NextCount == StreamType /\ CountInv /\ [Next]_vars => CountInv'
<1> SUFFICES ASSUME StreamType, CountInv, [Next]_vars PROVE CountInv'
  OBVIOUS
<1>1. CASE UNCHANGED <<counted, seen, watermark>>
  BY <1>1 DEF CountInv
<1>2. ASSUME NEW q \in Queries, CommitBatch(q), q # "aggregates"
      PROVE  CountInv'
  <2>1. /\ counted' = counted
        /\ "aggregates" \in Queries =>
              /\ seen'["aggregates"] = seen["aggregates"]
              /\ watermark'["aggregates"] = watermark["aggregates"]
    BY <1>2 DEF CommitBatch, StreamType
  <2> QED
    BY <2>1 DEF CountInv
<1>3. ASSUME "aggregates" \in Queries, CommitBatch("aggregates")
      PROVE  CountInv'
  <2> DEFINE q == "aggregates"
  <2>1. PICK w \in NextWatermarks(q) : watermark' = [watermark EXCEPT ![q] = w]
    BY <1>3 DEF CommitBatch
  <2>2. watermark'[q] = w /\ w \in Int /\ watermark[q] \in Int
    BY <1>3, <2>1, NextStream DEF StreamType
  <2>3. watermark[q] <= w
    <3>1. CASE EventTimes(q) = {}
      BY <2>1, <2>2, <3>1 DEF NextWatermarks
    <3>2. CASE EventTimes(q) # {}
      <4>1. PICK t \in EventTimes(q) : w = WatermarkAfter(watermark[q], t)
        BY <2>1, <3>2 DEF NextWatermarks, LatestTimes
      <4>2. t \in Int
        <5>1. PICK o \in Read(q) : t = EventTime[log[o]]
          BY <4>1 DEF EventTimes, RecordsAt, ValidOf
        <5> QED
          BY <1>3, <5>1, ReadIsOfLog, RecordsAssumption
      <4> QED
        BY <2>2, <4>1, <4>2, ConfigAssumption DEF WatermarkAfter, ValidConfig
    <3> QED
      BY <3>1, <3>2
  <2>4. counted' = CountedAfter /\ seen'[q] = SeenAfter(q)
    BY <1>3 DEF CommitBatch, Stateful, StreamType
  <2>5. ASSUME NEW r \in Records, counted'[r] > 0
        PROVE  r \in seen'[q] \/ EventTime[r] + WatermarkDelay <= watermark'[q]
    <3>1. EventTime[r] \in Int /\ counted[r] \in Nat /\ WatermarkDelay \in Nat
      BY RecordsAssumption, ConfigAssumption DEF StreamType, ValidConfig
    <3>2. CASE counted[r] > 0
      <4>1. r \in seen[q] \/ EventTime[r] + WatermarkDelay <= watermark[q]
        BY <1>3, <3>2 DEF CountInv
      <4>2. CASE r \in seen[q]
        BY <2>2, <2>3, <2>4, <3>1, <4>2 DEF SeenAfter
      <4> QED
        BY <2>2, <2>3, <3>1, <4>1, <4>2
    <3>3. CASE ~(counted[r] > 0)
      <4>1. r \in Deduplicate(q)
        BY <1>3, <2>4, <2>5, <3>1, <3>3, OneMoreAtMost
      <4>2. EventTime[r] > watermark[q]
        BY <1>3, <4>1, TakenIsNew
      <4> QED
        BY <2>2, <2>4, <3>1, <4>1, <4>2 DEF SeenAfter
    <3> QED
      BY <3>2, <3>3
  <2> QED
    BY <1>3, <2>4, <2>5, OneMoreAtMost, NoSecondCopy DEF CountInv
<1>4. \A q \in Queries : CommitBatch(q) => CountInv'
  BY <1>2, <1>3
<1> QED
  BY <1>1, <1>4 DEF Next, Query, Callback, vars, checkpoint, Tick, Produce, PlanBatch, ReplayBatch,
     WriteWindowMetrics, WriteWatermark, WriteToDlq, DlqLateRows, DedupAuditBatch, LateAcceptedBatch,
     WriteLateEvents, WriteCheckpointAudit, FailBatch, Crash, Restart

LEMMA CountedAfterStable ==
  ASSUME StreamType, [Next]_vars, "aggregates" \in Queries, SameBatch("aggregates"),
         counted' = counted
  PROVE  CountedAfter' = CountedAfter
<1>1. Accepted("aggregates")' = Accepted("aggregates")
  BY LogOnlyGrows, DedupStable
<1> QED
  BY <1>1 DEF CountedAfter, EnrichWithTenantMetadata

LEMMA NextWindow == StreamType /\ CountInv /\ WindowInv /\ [Next]_vars => WindowInv'
<1> SUFFICES ASSUME StreamType, CountInv, WindowInv, [Next]_vars PROVE WindowInv'
  OBVIOUS
<1>1. CASE "aggregates" \notin Queries
  <2>1. counted' = counted /\ window' = window
    BY <1>1 DEF Next, Query, Callback, vars, checkpoint, tables, Tick, Produce, PlanBatch,
       ReplayBatch, WriteToDlq, DlqLateRows, DedupAuditBatch, LateAcceptedBatch, WriteLateEvents,
       WriteCheckpointAudit, CommitBatch, FailBatch, Crash, Restart
  <2> QED
    BY <1>1, <2>1 DEF WindowInv, WindowsShowState
<1>2. CASE "aggregates" \in Queries
  <2> DEFINE a == "aggregates"
  <2> DEFINE Shown == {"record watermark", "audit", "commit"}
  \* The steps that leave the batch, the state and the rows alone.
  <2> DEFINE Aside ==
        /\ SameBatch(a) /\ counted' = counted /\ window' = window
        /\ step'[a] \in Shown => step[a] \in Shown
  <2>1. ASSUME Aside
        PROVE  WindowInv'
    <3>1. CountedAfter' = CountedAfter
      BY <1>2, <2>1, CountedAfterStable
    <3> QED
      BY <1>2, <2>1, <3>1 DEF WindowInv, WindowsShowState, SameBatch
  <2>2. \A q \in Queries : PlanBatch(q) => WindowInv'
    <3> SUFFICES ASSUME NEW q \in Queries, PlanBatch(q) PROVE WindowInv'
      OBVIOUS
    <3>1. CASE q = a
      <4>1. /\ window' = window /\ counted' = counted /\ batch[a] = NoBatch
            /\ step'[a] = "upsert windows"
        BY <1>2, <3>1 DEF PlanBatch, At, Goto, FirstCall, checkpoint, tables, StreamType
      <4>2. window' = counted'
        BY <1>2, <4>1 DEF WindowInv
      <4> QED
        BY <1>2, <4>1, <4>2 DEF WindowInv, WindowsShowState
    <3>2. CASE q # a
      BY <1>2, <2>1, <3>2 DEF PlanBatch, At, Goto, tables, StreamType, SameBatch
    <3> QED
      BY <3>1, <3>2
  <2>3. WriteWindowMetrics => WindowInv'
    <3> SUFFICES ASSUME WriteWindowMetrics PROVE WindowInv'
      OBVIOUS
    <3>1. /\ SameBatch(a) /\ counted' = counted /\ step[a] = "upsert windows"
          /\ window' = [r \in Records |->
                          IF WindowOf[r] \in Emitted THEN CountedAfter[r] ELSE window[r]]
      BY DEF WriteWindowMetrics, WindowUpsert, At, checkpoint, SameBatch
    <3>2. batch[a] # NoBatch
      BY <1>2, <3>1 DEF StreamType, BatchOk
    <3>3. ASSUME NEW r \in Records
          PROVE  window'[r] = CountedAfter[r]
      <4>1. CASE WindowOf[r] \in Emitted
        BY <3>1, <4>1
      <4>2. CASE WindowOf[r] \notin Emitted
        <5>1. r \notin Accepted(a)
          BY <4>2 DEF Emitted
        <5>2. CountedAfter[r] = counted[r]
          BY <1>2, <5>1, OneMoreAtMost
        <5>3. window[r] \in {counted[r], CountedAfter[r]}
          BY <1>2 DEF WindowInv, WindowsShowState
        <5> QED
          BY <3>1, <4>2, <5>2, <5>3
      <4> QED
        BY <4>1, <4>2
    <3>4. window' = CountedAfter
      BY <3>1, <3>3 DEF CountedAfter
    <3>5. CountedAfter' = CountedAfter
      BY <1>2, <3>1, CountedAfterStable
    <3>6. batch'[a] # NoBatch
      BY <3>1, <3>2 DEF SameBatch
    <3> QED
      BY <1>2, <3>4, <3>5, <3>6 DEF WindowInv, WindowsShowState
  <2>4. \A q \in Queries : CommitBatch(q) => WindowInv'
    <3> SUFFICES ASSUME NEW q \in Queries, CommitBatch(q) PROVE WindowInv'
      OBVIOUS
    <3>1. CASE q = a
      <4>1. /\ step[a] = "commit" /\ step'[a] = "idle"
            /\ window' = window /\ counted' = CountedAfter
        BY <1>2, <3>1 DEF CommitBatch, At, Goto, tables, StreamType
      <4>2. window' = counted'
        BY <1>2, <4>1 DEF WindowInv
      <4> QED
        BY <1>2, <4>1, <4>2 DEF WindowInv, WindowsShowState
    <3>2. CASE q # a
      <4>1. SameBatch(a)
        <5>1. PICK w \in NextWatermarks(q) : watermark' = [watermark EXCEPT ![q] = w]
          BY DEF CommitBatch
        <5> QED
          BY <1>2, <3>2, <5>1 DEF CommitBatch, StreamType, SameBatch
      <4>2. counted' = counted /\ window' = window /\ step'[a] = step[a]
        BY <1>2, <3>2 DEF CommitBatch, At, Goto, tables, StreamType
      <4> QED
        BY <2>1, <4>1, <4>2
    <3> QED
      BY <3>1, <3>2
  <2>5. \A q \in Queries : ReplayBatch(q) => WindowInv'
    BY <1>2, <2>1 DEF ReplayBatch, At, Goto, FirstCall, checkpoint, tables, StreamType, SameBatch
  <2>6. WriteWatermark => WindowInv'
    BY <1>2, <2>1 DEF WriteWatermark, At, Goto, checkpoint, tables, StreamType, SameBatch
  <2>7. ASSUME NEW q \in Queries, q # a, NEW rs, NEW class, NEW next,
               WriteLateEvents(q, rs, class, next)
        PROVE  WindowInv'
    BY <1>2, <2>1, <2>7 DEF WriteLateEvents, At, Goto, checkpoint, StreamType, SameBatch
  <2>8. /\ "dlq" \in Queries /\ DlqLateRows => WindowInv'
        /\ "dedup-audit" \in Queries /\ DedupAuditBatch => WindowInv'
        /\ "late-accepted-audit" \in Queries /\ LateAcceptedBatch => WindowInv'
    BY <2>7 DEF DlqLateRows, DedupAuditBatch, LateAcceptedBatch
  <2>9. "dlq" \in Queries /\ WriteToDlq => WindowInv'
    BY <1>2, <2>1 DEF WriteToDlq, At, Goto, checkpoint, tables, StreamType, SameBatch
  <2>10. \A q \in Queries : WriteCheckpointAudit(q) => WindowInv'
    BY <1>2, <2>1 DEF WriteCheckpointAudit, At, Goto, checkpoint, tables, StreamType, SameBatch
  <2>11. /\ UNCHANGED vars => WindowInv'
         /\ Tick => WindowInv'
         /\ \A r \in Records : Produce(r) => WindowInv'
         /\ Restart => WindowInv'
    BY <1>2, <2>1 DEF vars, Tick, Produce, Restart, checkpoint, tables, SameBatch
  <2>12. /\ \A q \in Queries : FailBatch(q) => WindowInv'
         /\ \A status : Crash(status) => WindowInv'
    BY <1>2, <2>1 DEF FailBatch, Crash, Stop, checkpoint, tables, SameBatch
  <2> QED
    BY <2>2, <2>3, <2>4, <2>5, <2>6, <2>8, <2>9, <2>10, <2>11, <2>12, StepCases, Zenon
<1> QED
  BY <1>1, <1>2

\* After every step the rows of a window show the committed aggregation state
\* or that state after the batch in flight, however often it fails and runs again.
THEOREM WindowsStayWhole == Spec => []WindowsShowState
<1>1. WindowInv => WindowsShowState
  BY DEF WindowInv
<1> QED
  BY <1>1, InitStream, NextStream, InitWindow, NextCount, NextWindow, PTL DEF Spec

\* Replays, duplicates and restarts count no event twice, whichever of its copies
\* a batch takes up, if their timestamps are within the watermark delay.
THEOREM WindowsCountOnce == Spec => []CountedAtMostOnce
<1>1. StreamType /\ CountInv /\ WindowInv => CountedAtMostOnce
  <2> SUFFICES ASSUME StreamType, CountInv, WindowInv, NEW d \in Records, NEW e \in Records
               PROVE  /\ window[d] <= 1
                      /\ d # e /\ Copies(d, e) /\ Near(d, e) => window[d] = 0 \/ window[e] = 0
    BY DEF CountedAtMostOnce
  <2>1. CASE window = counted
    BY <2>1 DEF CountInv
  <2>2. CASE window # counted
    <3>1. "aggregates" \in Queries /\ window = CountedAfter
      BY <2>2 DEF WindowInv, WindowsShowState
    <3> QED
      BY <3>1, OneMoreAtMost, NoSecondCopy
  <2> QED
    BY <2>1, <2>2
<1> QED
  BY <1>1, InitStream, NextStream, InitWindow, NextCount, NextWindow, PTL DEF Spec

-------------------------------------------------------------------------------
(* Dead letters.                                                           *)

\* Past its first call, the dlq query has sent what its batch refuses: what
\* the audit table and the commit then rely on.
RefusedInv ==
    /\ PassedAreDeadLettered
    /\ "dlq" \in Queries /\ step["dlq"] \in {"write late events", "audit", "commit"} =>
          DeadLetters \subseteq dlq

LEMMA InitRefused == Init => RefusedInv
<1> SUFFICES ASSUME Init PROVE RefusedInv
  OBVIOUS
<1>1. \A k \in EventKeys : late[k] # "late_rejected"
  BY DEF Init
<1>2. "dlq" \in Queries => step["dlq"] = "idle"
  BY DEF Init
<1>3. "dlq" \in Queries /\ StartingOffsets = "earliest" => 1..offset["dlq"] = {}
  BY DEF Init, FirstOffset
<1>4. PassedAreDeadLettered
  BY <1>1, <1>3 DEF PassedAreDeadLettered
<1> QED
  BY <1>2, <1>4, Zenon DEF RefusedInv

LEMMA DeadLettersStable ==
  ASSUME StreamType, [Next]_vars, "dlq" \in Queries, SameBatch("dlq")
  PROVE  DeadLetters' = DeadLetters
<1>1. Rejected("dlq")' = Rejected("dlq")
  BY LogOnlyGrows, DedupStable
<1>2. Read("dlq")' = Read("dlq") /\ \A o \in Read("dlq") : log'[o] = log[o]
  BY LogOnlyGrows, ReadStable
<1>3. InvalidOf(Read("dlq"))' = InvalidOf(Read("dlq")) /\ InvalidOf(Read("dlq")) \subseteq Read("dlq")
  BY <1>2 DEF InvalidOf, ValidOf
<1> QED
  BY <1>1, <1>2, <1>3 DEF DeadLetters

LEMMA NextRefused == StreamType /\ RefusedInv /\ [Next]_vars => RefusedInv'
<1> SUFFICES ASSUME StreamType, RefusedInv, [Next]_vars PROVE RefusedInv'
  OBVIOUS
<1> DEFINE d == "dlq"
<1> DEFINE Sent == {"write late events", "audit", "commit"}
<1> DEFINE DeadLettered(k) == \E r \in Records : EventKey[r] = k /\ <<r, Late>> \in dlq
<1> DEFINE Passed(o) == PassesFilter(log[o]) /\ ~Valid(log[o])
<1>0. LogGrows
  BY LogOnlyGrows
\* The audit table and the topic, whichever queries run.
<1>1. ASSUME dlq \subseteq dlq',
             \A k \in EventKeys : late'[k] = "late_rejected" =>
                late[k] = "late_rejected" \/ DeadLettered(k)
      PROVE  \A k \in EventKeys : late'[k] = "late_rejected" =>
                \E r \in Records : EventKey[r] = k /\ <<r, Late>> \in dlq'
  BY <1>1 DEF RefusedInv, PassedAreDeadLettered
\* The records that the query has passed.
<1>2. ASSUME d \in Queries, dlq \subseteq dlq', offset'[d] = offset[d]
      PROVE  StartingOffsets = "earliest" =>
                \A o \in 1..offset'[d] :
                   PassesFilter(log'[o]) /\ ~Valid(log'[o]) =>
                      <<log'[o], ValidationReason(log'[o])>> \in dlq'
  <2>1. offset[d] \in Nat /\ Len(log) \in Nat /\ offset[d] <= Len(log)
    BY <1>2 DEF StreamType
  <2>2. \A o \in 1..Len(log) : log'[o] = log[o]
    BY <1>0 DEF LogGrows
  <2>3. \A o \in 1..offset[d] : o \in 1..Len(log)
    BY <2>1
  <2>4. \A o \in 1..offset[d] : log'[o] = log[o]
    BY <2>2, <2>3
  <2> QED
    BY <1>2, <2>4 DEF RefusedInv, PassedAreDeadLettered
\* The steps that leave the dlq query's batch alone.
<1>3. ASSUME dlq \subseteq dlq',
             \A k \in EventKeys : late'[k] = "late_rejected" =>
                late[k] = "late_rejected" \/ DeadLettered(k),
             d \in Queries => SameBatch(d) /\ (step'[d] \in Sent => step[d] \in Sent)
      PROVE  RefusedInv'
  <2>1. d \in Queries => DeadLetters' = DeadLetters /\ offset'[d] = offset[d]
    BY <1>3, DeadLettersStable DEF SameBatch
  <2> QED
    BY <1>1, <1>2, <1>3, <2>1 DEF RefusedInv, PassedAreDeadLettered
<1>4. \A q \in Queries : PlanBatch(q) => RefusedInv'
  <2> SUFFICES ASSUME NEW q \in Queries, PlanBatch(q) PROVE RefusedInv'
    OBVIOUS
  <2>1. dlq' = dlq /\ late' = late
    BY DEF PlanBatch, kafka, tables
  <2>2. CASE q = d
    <3>1. offset'[d] = offset[d] /\ step'[d] = "write dead letters"
      BY <2>2 DEF PlanBatch, At, Goto, FirstCall, StreamType
    <3> QED
      BY <1>1, <1>2, <2>1, <2>2, <3>1 DEF RefusedInv, PassedAreDeadLettered
  <2>3. CASE q # d
    BY <1>3, <2>1, <2>3 DEF PlanBatch, At, Goto, StreamType, SameBatch
  <2> QED
    BY <2>2, <2>3
<1>5. d \in Queries /\ WriteToDlq => RefusedInv'
  <2> SUFFICES ASSUME d \in Queries, WriteToDlq PROVE RefusedInv'
    OBVIOUS
  <2>1. /\ dlq' = dlq \cup DeadLetters /\ late' = late
        /\ SameBatch(d) /\ offset'[d] = offset[d]
    BY DEF WriteToDlq, checkpoint, tables, SameBatch
  <2>2. DeadLetters' \subseteq dlq'
    BY <2>1, DeadLettersStable
  <2> QED
    BY <1>1, <1>2, <2>1, <2>2 DEF RefusedInv, PassedAreDeadLettered
<1>6. d \in Queries /\ DlqLateRows => RefusedInv'
  <2> SUFFICES ASSUME d \in Queries, DlqLateRows PROVE RefusedInv'
    OBVIOUS
  <2>1. /\ step[d] \in Sent /\ dlq' = dlq /\ SameBatch(d)
        /\ late' = LateRows(Rejected(d), "late_rejected")
    BY DEF DlqLateRows, WriteLateEvents, At, kafka, checkpoint, SameBatch
  <2>2. \A r \in Rejected(d) : r \in Records /\ <<r, Late>> \in dlq
    BY <2>1, TakenIsNew DEF RefusedInv, DeadLetters, Rejected
  <2>3. \A k \in EventKeys : late'[k] = "late_rejected" =>
           late[k] = "late_rejected" \/ DeadLettered(k)
    BY <2>1, <2>2 DEF LateRows
  <2> QED
    BY <1>3, <2>1, <2>3
<1>7. \A q \in Queries : CommitBatch(q) => RefusedInv'
  <2> SUFFICES ASSUME NEW q \in Queries, CommitBatch(q) PROVE RefusedInv'
    OBVIOUS
  <2>1. dlq' = dlq /\ late' = late /\ log' = log
    BY DEF CommitBatch, kafka, tables
  <2>2. CASE q = d
    <3>1. /\ step[d] = "commit" /\ step'[d] = "idle"
          /\ offset'[d] = batch[d].upto
          /\ batch[d] # NoBatch
      BY <2>2 DEF CommitBatch, At, Goto, StreamType, BatchOk
    <3>2. ASSUME StartingOffsets = "earliest", NEW o \in 1..offset'[d], Passed(o)
          PROVE  <<log[o], ValidationReason(log[o])>> \in dlq
      <4>1. batch[d].upto \in Nat /\ offset[d] \in Nat
        BY <2>2, <3>1 DEF StreamType
      <4>2. CASE o \in 1..offset[d]
        BY <2>2, <3>2, <4>2 DEF RefusedInv, PassedAreDeadLettered
      <4>3. CASE o \notin 1..offset[d]
        <5>1. o \in offset[d] + 1 .. batch[d].upto
          BY <3>1, <3>2, <4>1, <4>3
        <5>2. o \in InvalidOf(Read(d))
          BY <3>1, <3>2, <5>1 DEF Read, InvalidOf, ValidOf
        <5>3. <<log[o], ValidationReason(log[o])>> \in DeadLetters
          BY <5>2 DEF DeadLetters
        <5> QED
          BY <2>2, <3>1, <5>3 DEF RefusedInv
      <4> QED
        BY <4>2, <4>3
    <3> QED
      BY <1>1, <2>1, <2>2, <3>1, <3>2 DEF RefusedInv, PassedAreDeadLettered
  <2>3. CASE q # d
    <3>1. PICK w \in NextWatermarks(q) : watermark' = [watermark EXCEPT ![q] = w]
      BY DEF CommitBatch
    <3>2. d \in Queries => SameBatch(d) /\ step'[d] = step[d]
      BY <2>3, <3>1 DEF CommitBatch, At, Goto, StreamType, SameBatch
    <3> QED
      BY <1>3, <2>1, <3>2
  <2> QED
    BY <2>2, <2>3
<1>8. \A q \in Queries : ReplayBatch(q) => RefusedInv'
  BY <1>3 DEF ReplayBatch, At, Goto, FirstCall, kafka, checkpoint, tables, StreamType, SameBatch
<1>9. "aggregates" \in Queries /\ WriteWatermark => RefusedInv'
  BY <1>3 DEF WriteWatermark, At, Goto, kafka, checkpoint, tables, StreamType, SameBatch
<1>10. "aggregates" \in Queries /\ WriteWindowMetrics => RefusedInv'
  BY <1>3 DEF WriteWindowMetrics, At, Goto, kafka, checkpoint, StreamType, SameBatch
<1>11. ASSUME NEW q \in Queries, q # d, NEW rs, NEW class, class # "late_rejected", NEW next,
              WriteLateEvents(q, rs, class, next)
       PROVE  RefusedInv'
  BY <1>3, <1>11 DEF WriteLateEvents, LateRows, At, Goto, kafka, checkpoint, StreamType, SameBatch
<1>12. /\ "dedup-audit" \in Queries /\ DedupAuditBatch => RefusedInv'
       /\ "late-accepted-audit" \in Queries /\ LateAcceptedBatch => RefusedInv'
  BY <1>11 DEF DedupAuditBatch, LateAcceptedBatch
<1>13. \A q \in Queries : WriteCheckpointAudit(q) => RefusedInv'
  BY <1>3 DEF WriteCheckpointAudit, At, Goto, kafka, checkpoint, tables, StreamType, SameBatch
<1>14. /\ UNCHANGED vars => RefusedInv'
       /\ Tick => RefusedInv'
       /\ \A r \in Records : Produce(r) => RefusedInv'
       /\ Restart => RefusedInv'
  BY <1>3 DEF vars, Tick, Produce, Restart, kafka, checkpoint, tables, SameBatch
<1>15. /\ \A q \in Queries : FailBatch(q) => RefusedInv'
       /\ \A status : Crash(status) => RefusedInv'
  BY <1>3 DEF FailBatch, Crash, Stop, kafka, checkpoint, tables, SameBatch
<1> QED
  BY <1>4, <1>5, <1>6, <1>7, <1>8, <1>9, <1>10, <1>12, <1>13, <1>14, <1>15, StepCases, Zenon

\* What reaches the verdict of the dlq query is in the dead-letter topic when its
\* batch commits, and before the audit table says so, wherever the callback failed
\* and however often the batch ran; what the watermark drops never reaches it.
THEOREM RefusedReachesDlq == Spec => RefusedIsDeadLettered
<1>1. RefusedInv => PassedAreDeadLettered
  BY DEF RefusedInv
<1>2. StreamType /\ RefusedInv /\ [Next]_vars => [BatchIsDeadLettered]_vars
  <2> DEFINE d == "dlq"
  <2> SUFFICES ASSUME StreamType, RefusedInv, [Next]_vars, d \in Queries,
                      NEW o \in AboveWatermark(d), offset'[d] # offset[d],
                      ~Aggregatable(log[o], batch[d].at), ~Known(d, log[o])
               PROVE  \E r \in Deduplicate(d) :
                         /\ Copies(r, log[o])
                         /\ <<r, Late>> \in dlq' \/ Aggregatable(r, batch[d].at)
    BY DEF BatchIsDeadLettered
  <2>1. CommitBatch(d)
    BY OnlyCommitMoves
  <2>2. DeadLetters \subseteq dlq /\ dlq' = dlq
    BY <2>1 DEF CommitBatch, At, kafka, RefusedInv
  <2>3. PICK r \in Deduplicate(d) : Copies(r, log[o])
    BY NewKeyIsTaken
  <2>4. CASE r \in Accepted(d)
    BY <2>3, <2>4 DEF Accepted
  <2>5. CASE r \notin Accepted(d)
    BY <2>2, <2>3, <2>5 DEF Rejected, DeadLetters
  <2> QED
    BY <2>4, <2>5
<1> QED
  BY <1>1, <1>2, InitStream, NextStream, InitRefused, NextRefused, PTL
     DEF Spec, RefusedIsDeadLettered

-------------------------------------------------------------------------------
(* Late events.                                                            *)

LEMMA AggregatableMeans ==
  ASSUME NEW r \in Records, NEW at \in Int
  PROVE  Aggregatable(r, at) <=> at - EventTime[r] <= RejectLimit
<1>1. /\ EventTime[r] \in Int /\ OnTimeLimit \in Int /\ RejectLimit \in Int
      /\ OnTimeLimit < RejectLimit
  BY RecordsAssumption, ConfigAssumption DEF ValidConfig
<1>2. Lateness(r, at) = at - EventTime[r]
  BY DEF Lateness
<1>3. CASE Lateness(r, at) <= OnTimeLimit
  BY <1>1, <1>2, <1>3 DEF Aggregatable, Classification
<1>4. CASE ~(Lateness(r, at) <= OnTimeLimit) /\ Lateness(r, at) <= RejectLimit
  BY <1>1, <1>2, <1>4 DEF Aggregatable, Classification
<1>5. CASE ~(Lateness(r, at) <= RejectLimit)
  <2>1. ~(Lateness(r, at) <= OnTimeLimit)
    BY <1>1, <1>2, <1>5
  <2> QED
    BY <1>1, <1>2, <1>5, <2>1 DEF Aggregatable, Classification
<1> QED
  BY <1>3, <1>4, <1>5

\* The watermark stands for an event of a committed batch, and what the
\* deduplication state knows is counted or too late for any batch to come.
MarkIsOfLog(a) ==
    \/ watermark[a] = NoMark
    \/ \E o \in 1..offset[a] : watermark[a] + WatermarkDelay = EventTime[log[o]]

ClockInv ==
    /\ planned \in [Queries -> Int]
    /\ \A a \in Queries \cap {"aggregates"} :
          /\ MarkIsOfLog(a)
          /\ batch[a] # NoBatch => batch[a].at = planned[a] /\ offset[a] <= batch[a].upto
          /\ \A r \in seen[a] : counted[r] > 0 \/ ~Aggregatable(r, planned[a])

LEMMA InitClock == Init => ClockInv
<1> SUFFICES ASSUME Init PROVE ClockInv
  OBVIOUS
<1>1. planned = [q \in Queries |-> -1]
  BY DEF Init
<1>2. \A q \in Queries : watermark[q] = NoMark /\ batch[q] = NoBatch /\ seen[q] = {}
  BY DEF Init
<1> QED
  BY <1>1, <1>2 DEF ClockInv, MarkIsOfLog

LEMMA NextClock == StreamType /\ CountInv /\ ClockInv /\ [Next]_vars => ClockInv'
<1> SUFFICES ASSUME StreamType, CountInv, ClockInv, [Next]_vars PROVE ClockInv'
  OBVIOUS
<1> DEFINE a == "aggregates"
<1>0. LogGrows
  BY LogOnlyGrows
<1>a. \A r, at : Aggregatable(r, at)' <=> Aggregatable(r, at)
  BY DEF Aggregatable, Classification, Lateness
\* A mark of the log stays one.
<1>b. ASSUME a \in Queries, NEW o \in 1..offset[a]
      PROVE  log'[o] = log[o]
  <2>1. offset[a] \in Nat /\ offset[a] <= Len(log) /\ Len(log) \in Nat
    BY <1>b DEF StreamType
  <2>2. o \in 1..Len(log)
    BY <2>1
  <2> QED
    BY <1>0, <2>2 DEF LogGrows
\* The steps that leave the batch and the state of the aggregates alone.
<1>1. ASSUME planned' \in [Queries -> Int], counted' = counted,
             a \in Queries => SameBatch(a) /\ planned'[a] = planned[a]
      PROVE  ClockInv'
  <2>1. a \in Queries => MarkIsOfLog(a)'
    BY <1>1, <1>b DEF ClockInv, MarkIsOfLog, SameBatch
  <2> QED
    BY <1>1, <1>a, <2>1 DEF ClockInv, SameBatch
<1>2. \A q \in Queries : PlanBatch(q) => ClockInv'
  <2> SUFFICES ASSUME NEW q \in Queries, PlanBatch(q) PROVE ClockInv'
    OBVIOUS
  <2>1. /\ planned' = [planned EXCEPT ![q] = now] /\ planned[q] < now
        /\ batch[q] = NoBatch /\ batch' = [batch EXCEPT ![q] = [upto |-> Len(log), at |-> now]]
        /\ UNCHANGED <<now, log, offset, watermark, seen, counted>>
    BY DEF PlanBatch, kafka
  <2>2. planned' \in [Queries -> Int] /\ now \in Int
    BY <2>1 DEF ClockInv, StreamType
  <2>3. CASE q = a
    <3>1. planned'[a] = now /\ planned[a] \in Int
      BY <2>1, <2>3 DEF ClockInv
    <3>2. batch'[a].at = now /\ offset'[a] <= batch'[a].upto
      BY <2>1, <2>3 DEF StreamType
    <3>3. MarkIsOfLog(a)'
      BY <2>1, <2>3 DEF ClockInv, MarkIsOfLog
    <3>4. ASSUME NEW r \in seen[a]
          PROVE  counted[r] > 0 \/ ~Aggregatable(r, now)
      <4>1. r \in Records /\ EventTime[r] \in Int /\ RejectLimit \in Int
        BY <2>3, RecordsAssumption, ConfigAssumption DEF StreamType, ValidConfig
      <4>2. counted[r] > 0 \/ ~Aggregatable(r, planned[a])
        BY <2>3 DEF ClockInv
      <4> QED
        BY <2>1, <2>2, <2>3, <3>1, <4>1, <4>2, AggregatableMeans
    <3> QED
      BY <1>a, <2>1, <2>2, <2>3, <3>1, <3>2, <3>3, <3>4 DEF ClockInv
  <2>4. CASE q # a
    <3>1. a \in Queries => SameBatch(a) /\ planned'[a] = planned[a]
      BY <2>1, <2>4 DEF SameBatch, StreamType, ClockInv
    <3> QED
      BY <1>1, <2>1, <2>2, <3>1
  <2> QED
    BY <2>3, <2>4
<1>3. \A q \in Queries : CommitBatch(q) => ClockInv'
  <2> SUFFICES ASSUME NEW q \in Queries, CommitBatch(q) PROVE ClockInv'
    OBVIOUS
  <2>1. PICK w \in NextWatermarks(q) : watermark' = [watermark EXCEPT ![q] = w]
    BY DEF CommitBatch
  <2>2. UNCHANGED <<now, log, planned>>
    BY DEF CommitBatch, kafka
  <2>3. CASE q = a
    <3>1. /\ batch[a] # NoBatch /\ batch'[a] = NoBatch
          /\ seen'[a] = SeenAfter(a) /\ counted' = CountedAfter
          /\ watermark'[a] = w /\ w \in Int /\ watermark[a] \in Int /\ planned[a] \in Int
          /\ batch[a].at = planned[a] /\ offset'[a] = batch[a].upto
      BY <2>1, <2>3, NextStream
         DEF CommitBatch, At, Stateful, StreamType, BatchOk, ClockInv
    <3>2. MarkIsOfLog(a)'
      <4>0. WatermarkDelay \in Nat /\ batch[a].upto \in Nat /\ offset[a] \in Nat
        BY <2>3, <3>1, ConfigAssumption DEF ValidConfig, StreamType
      <4>1. offset[a] <= batch[a].upto
        BY <2>3, <3>1 DEF ClockInv
      <4>2. CASE w = watermark[a]
        <5>1. \A o \in 1..offset[a] : o \in 1..batch[a].upto
          BY <4>0, <4>1
        <5> QED
          BY <2>2, <2>3, <3>1, <4>2, <5>1 DEF ClockInv, MarkIsOfLog
      <4>3. CASE w # watermark[a]
        <5>0. EventTimes(a) # {}
          BY <2>1, <2>3, <4>3 DEF NextWatermarks
        <5>1. PICK t \in EventTimes(a) : w = WatermarkAfter(watermark[a], t)
          BY <2>1, <2>3, <5>0 DEF NextWatermarks, LatestTimes
        <5>2. PICK o \in Read(a) : t = EventTime[log[o]]
          BY <5>1 DEF EventTimes, RecordsAt, ValidOf
        <5>3. o \in 1..Len(log) /\ log[o] \in Records /\ o <= batch[a].upto
          BY <2>3, <3>1, <5>2, ReadIsOfLog DEF Read
        <5>4. w + WatermarkDelay = t
          BY <2>3, <4>0, <4>3, <5>1, <5>2, <5>3, RecordsAssumption DEF WatermarkAfter
        <5>5. o \in 1..batch[a].upto
          BY <4>0, <5>3
        <5> QED
          BY <2>2, <3>1, <5>2, <5>4, <5>5 DEF MarkIsOfLog
      <4> QED
        BY <4>2, <4>3
    <3>3. ASSUME NEW r \in seen'[a]
          PROVE  counted'[r] > 0 \/ ~Aggregatable(r, planned[a])
      <4>1. CASE r \in seen[a]
        <5>1. r \in Records /\ counted[r] \in Nat
          BY <2>3, <4>1 DEF StreamType
        <5>2. counted[r] > 0 \/ ~Aggregatable(r, planned[a])
          BY <2>3, <4>1 DEF ClockInv
        <5> QED
          BY <3>1, <5>1, <5>2 DEF CountedAfter
      <4>2. CASE r \in Deduplicate(a)
        <5>1. r \in Records /\ counted[r] \in Nat
          BY <2>3, <4>2, TakenIsNew DEF StreamType
        <5>2. CASE r \in Accepted(a)
          BY <3>1, <5>1, <5>2 DEF CountedAfter, EnrichWithTenantMetadata
        <5>3. CASE r \notin Accepted(a)
          BY <3>1, <4>2, <5>3 DEF Accepted
        <5> QED
          BY <5>2, <5>3
      <4> QED
        BY <3>1, <3>3, <4>1, <4>2 DEF SeenAfter
    <3> QED
      BY <1>a, <2>2, <2>3, <3>1, <3>2, <3>3 DEF ClockInv
  <2>4. CASE q # a
    <3>1. /\ counted' = counted
          /\ a \in Queries => SameBatch(a) /\ planned'[a] = planned[a]
      BY <2>1, <2>2, <2>4 DEF CommitBatch, StreamType, SameBatch
    <3> QED
      BY <1>1, <2>2, <3>1 DEF ClockInv
  <2> QED
    BY <2>3, <2>4
<1>6. ASSUME UNCHANGED <<planned, counted, offset, batch, watermark, seen>>
      PROVE  ClockInv'
  BY <1>1, <1>6 DEF ClockInv, SameBatch
<1>7. \A q \in Queries : ReplayBatch(q) => ClockInv'
  BY <1>6 DEF ReplayBatch, kafka, checkpoint
<1>8. \A q \in Queries : WriteCheckpointAudit(q) => ClockInv'
  BY <1>6 DEF WriteCheckpointAudit, kafka, checkpoint
<1>9. /\ "aggregates" \in Queries /\ WriteWindowMetrics => ClockInv'
      /\ "aggregates" \in Queries /\ WriteWatermark => ClockInv'
      /\ "dlq" \in Queries /\ WriteToDlq => ClockInv'
  BY <1>6 DEF WriteWindowMetrics, WriteWatermark, WriteToDlq, kafka, checkpoint
<1>10. /\ "dlq" \in Queries /\ DlqLateRows => ClockInv'
       /\ "dedup-audit" \in Queries /\ DedupAuditBatch => ClockInv'
       /\ "late-accepted-audit" \in Queries /\ LateAcceptedBatch => ClockInv'
  BY <1>6 DEF DlqLateRows, DedupAuditBatch, LateAcceptedBatch, WriteLateEvents, kafka, checkpoint
<1>11. /\ UNCHANGED vars => ClockInv'
       /\ Tick => ClockInv'
       /\ \A r \in Records : Produce(r) => ClockInv'
       /\ Restart => ClockInv'
       /\ \A q \in Queries : FailBatch(q) => ClockInv'
       /\ \A status : Crash(status) => ClockInv'
  BY <1>6 DEF vars, Tick, Produce, Restart, FailBatch, Crash, kafka, checkpoint
<1> QED
  BY <1>2, <1>3, <1>7, <1>8, <1>9, <1>10, <1>11, StepCases, Zenon

\* An event that the aggregating batch finds acceptable is counted with its key when
\* the batch commits, while no clock of a producer ran ahead: RejectLimit <=
\* WatermarkDelay then keeps the watermark from dropping it.
THEOREM AcceptedCountsIfClocksAgree == Spec => AcceptedIsCounted
<1> DEFINE a == "aggregates"
<1> DEFINE CountedKey(q, o) ==
        \E r \in seen[q] \cup Deduplicate(q) :
           Copies(r, log[o]) /\ (window'[r] > 0 \/ ~Aggregatable(r, batch[q].at))
<1>1. ASSUME StreamType, WindowInv, ClockInv, [Next]_vars, a \in Queries,
             NEW o \in ValidOf(Read(a)), offset'[a] # offset[a],
             Aggregatable(log[o], batch[a].at), ClocksAgree(a)
      PROVE  CountedKey(a, o)
  <2>1. CommitBatch(a)
    BY <1>1, OnlyCommitMoves
  <2>2. window' = CountedAfter
    BY <1>1, <2>1 DEF CommitBatch, At, tables, WindowInv
  <2>3. /\ o \in Read(a) /\ log[o] \in Records /\ batch[a] # NoBatch
        /\ batch[a].at = planned[a] /\ planned[a] \in Int /\ watermark[a] \in Int
        /\ EventTime[log[o]] \in Int
    BY <1>1, ReadIsOfLog, RecordsAssumption DEF StreamType, ClockInv, ValidOf
  <2>4. EventTime[log[o]] > watermark[a]
    <3>1. CASE watermark[a] = NoMark
      BY <2>3, <3>1, EpochAssumption
    <3>2. CASE watermark[a] # NoMark
      <4>1. PICK p \in 1..offset[a] : watermark[a] + WatermarkDelay = EventTime[log[p]]
        BY <1>1, <3>2 DEF ClockInv, MarkIsOfLog
      <4>2. EventTime[log[p]] < planned[a] + (WatermarkDelay - RejectLimit)
        BY <1>1, <2>3 DEF ClocksAgree
      <4>3. planned[a] - EventTime[log[o]] <= RejectLimit
        BY <1>1, <2>3, AggregatableMeans
      <4>4. {RejectLimit, WatermarkDelay} \subseteq Nat
        BY ConfigAssumption DEF ValidConfig
      <4> QED
        BY <2>3, <4>1, <4>2, <4>3, <4>4
    <3> QED
      BY <3>1, <3>2
  <2>5. o \in AboveWatermark(a)
    BY <1>1, <2>4 DEF AboveWatermark
  <2>6. CASE Known(a, log[o])
    <3>1. PICK r \in seen[a] : Copies(r, log[o])
      BY <2>6 DEF Known
    <3>2. r \in Records /\ counted[r] \in Nat
      BY <1>1 DEF StreamType
    <3>3. counted[r] > 0 \/ ~Aggregatable(r, batch[a].at)
      BY <1>1, <2>3 DEF ClockInv
    <3> QED
      BY <2>2, <3>1, <3>2, <3>3 DEF CountedAfter
  <2>7. CASE ~Known(a, log[o])
    <3>1. PICK r \in Deduplicate(a) : Copies(r, log[o])
      BY <1>1, <2>5, <2>7, NewKeyIsTaken
    <3>2. r \in Records /\ counted[r] \in Nat
      BY <1>1, TakenIsNew DEF StreamType
    <3>3. r \in Accepted(a) \/ ~Aggregatable(r, batch[a].at)
      BY DEF Accepted
    <3> QED
      BY <2>2, <3>1, <3>2, <3>3 DEF CountedAfter, EnrichWithTenantMetadata
  <2> QED
    BY <2>6, <2>7
<1>2. StreamType /\ WindowInv /\ ClockInv /\ [Next]_vars =>
        [\A q \in Queries \cap {"aggregates"} : \A o \in ValidOf(Read(q)) :
            /\ offset'[q] # offset[q]
            /\ Aggregatable(log[o], batch[q].at)
            /\ ClocksAgree(q)
            => \E r \in seen[q] \cup Deduplicate(q) :
                  Copies(r, log[o]) /\ (window'[r] > 0 \/ ~Aggregatable(r, batch[q].at))]_vars
  BY <1>1
<1> QED
  BY <1>2, InitStream, NextStream, InitWindow, NextCount, NextWindow, InitClock, NextClock, PTL
     DEF Spec, AcceptedIsCounted
===============================================================================
