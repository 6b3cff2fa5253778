------------------------ MODULE ProcessingWorkerProofs ------------------------
(***************************************************************************)
(* Proofs about ProcessingWorker, for every number of workers, partitions, *)
(* envelopes, faults and records.                                          *)
(***************************************************************************)
EXTENDS ProcessingWorker, FiniteSetTheorems, WellFoundedInduction, TLAPS

\* The one-line helpers of the actions are expanded everywhere.
USE DEF StartOffsets, IsEnvelope, AfterPoison, AfterConflict, Overwrites

-------------------------------------------------------------------------------
(* Type correctness.                                                       *)

LEMMA InitType == Init => TypeOK
<1> SUFFICES ASSUME Init
             PROVE  TypeOK
    OBVIOUS
<1> USE ConstantsAssumption, BoundsAssumption DEF Init
<1>1. KafkaOK
  BY DEF KafkaOK
<1>2. TablesOK
  BY DEF TablesOK
<1>3. WorkersOK
  BY DEF WorkersOK, Steps, RecordSteps
<1>4. budget \in [Faults -> Nat]
  BY DEF Faults
<1> QED
  BY <1>1, <1>2, <1>3, <1>4 DEF TypeOK

LEMMA NextType == TypeOK /\ [Next]_vars => TypeOK'
<1> SUFFICES ASSUME TypeOK, [Next]_vars
             PROVE  TypeOK'
    OBVIOUS
<1> USE ConstantsAssumption, BoundsAssumption
<1> USE DEF TypeOK
<1>1. ASSUME NEW p \in Partitions, NEW r \in Envelopes \cup {Poison}, Produce(p, r)
     PROVE  TypeOK'
  <2>1. KafkaOK'
    BY <1>1 DEF Produce, KafkaOK, kafka
  <2>2. TablesOK'
    BY <1>1 DEF Produce, TablesOK, db, claims, domain, metrics
  <2>3. WorkersOK'
    BY <1>1 DEF Produce, WorkersOK, consumer, loop
  <2>4. (budget \in [Faults -> Nat])'
    BY <1>1 DEF Produce
  <2> QED
    BY <2>1, <2>2, <2>3, <2>4
<1>2. ASSUME NEW e \in Envelopes, SeedRawEvent(e)
     PROVE  TypeOK'
  <2>1. KafkaOK'
    BY <1>2 DEF SeedRawEvent, KafkaOK, kafka
  <2>2. TablesOK'
    BY <1>2 DEF SeedRawEvent, TablesOK, db, claims, domain, metrics
  <2>3. WorkersOK'
    BY <1>2 DEF SeedRawEvent, WorkersOK, consumer, loop
  <2>4. (budget \in [Faults -> Nat])'
    BY <1>2 DEF SeedRawEvent, Spend, Faults
  <2> QED
    BY <2>1, <2>2, <2>3, <2>4
<1>3. CASE Rebalance
  <2>1. KafkaOK'
    BY <1>3 DEF Rebalance, KafkaOK, kafka
  <2>2. TablesOK'
    BY <1>3 DEF Rebalance, TablesOK, db, claims, domain, metrics
  <2>3. WorkersOK'
    BY <1>3 DEF Rebalance, WorkersOK, consumer, loop, Call, Goto, Steps, RecordSteps
  <2>4. (budget \in [Faults -> Nat])'
    BY <1>3 DEF Rebalance, Spend, Faults
  <2> QED
    BY <2>1, <2>2, <2>3, <2>4
<1>4. ASSUME NEW w \in Workers, Join(w)
     PROVE  TypeOK'
  <2>1. KafkaOK'
    BY <1>4 DEF Join, KafkaOK, kafka
  <2>2. TablesOK'
    BY <1>4 DEF Join, TablesOK, db, claims, domain, metrics
  <2>3. WorkersOK'
    BY <1>4 DEF Join, KafkaOK, WorkersOK, consumer, loop, Call, Goto, Steps, RecordSteps
  <2>4. (budget \in [Faults -> Nat])'
    BY <1>4 DEF Join
  <2> QED
    BY <2>1, <2>2, <2>3, <2>4
<1>5. ASSUME NEW w \in Workers, Poll(w)
     PROVE  TypeOK'
  <2>1. KafkaOK'
    BY <1>5 DEF Poll, KafkaOK, kafka
  <2>2. TablesOK'
    BY <1>5 DEF Poll, TablesOK, db, claims, domain, metrics
  <2>3. WorkersOK'
    <3>1. PICK upto \in [Partitions -> 0 .. MaxLog] :
             position' = [position EXCEPT ![w] = upto]
      BY <1>5 DEF Poll
    <3>2. upto \in [Partitions -> Nat]
      OBVIOUS
    <3> QED
      BY <1>5, <3>1, <3>2 DEF Poll, WorkersOK, consumer, loop, Call, Goto, Steps, RecordSteps
  <2>4. (budget \in [Faults -> Nat])'
    BY <1>5 DEF Poll
  <2> QED
    BY <2>1, <2>2, <2>3, <2>4
<1>6. ASSUME NEW w \in Workers, NEW p \in Partitions, TakeEnvelope(w, p)
     PROVE  TypeOK'
  <2>1. KafkaOK'
    BY <1>6 DEF TakeEnvelope, KafkaOK, kafka
  <2>2. TablesOK'
    BY <1>6 DEF TakeEnvelope, TablesOK, db, claims, domain, metrics
  <2>3. WorkersOK'
    BY <1>6 DEF TakeEnvelope, WorkersOK, consumer, loop, Call, Goto, Steps, RecordSteps
  <2>4. (budget \in [Faults -> Nat])'
    BY <1>6 DEF TakeEnvelope
  <2> QED
    BY <2>1, <2>2, <2>3, <2>4
<1>7. ASSUME NEW w \in Workers, NEW p \in Partitions, TakePoison(w, p)
     PROVE  TypeOK'
  <2>1. KafkaOK'
    BY <1>7 DEF TakePoison, Skip, KafkaOK, kafka
  <2>2. TablesOK'
    BY <1>7 DEF TakePoison, Skip, TablesOK, db, claims, domain, metrics
  <2>3. WorkersOK'
    BY <1>7 DEF TakePoison, Skip, WorkersOK, consumer, loop, Call, Goto, Steps, RecordSteps
  <2>4. (budget \in [Faults -> Nat])'
    BY <1>7 DEF TakePoison, Skip
  <2> QED
    BY <2>1, <2>2, <2>3, <2>4
<1>8. ASSUME NEW w \in Workers, SkipCommit(w)
     PROVE  TypeOK'
  <2>1. KafkaOK'
    BY <1>8 DEF SkipCommit, KafkaOK, kafka
  <2>2. TablesOK'
    BY <1>8 DEF SkipCommit, TablesOK, db, claims, domain, metrics
  <2>3. WorkersOK'
    BY <1>8 DEF SkipCommit, WorkersOK, consumer, loop, Call, Goto, Steps, RecordSteps
  <2>4. (budget \in [Faults -> Nat])'
    BY <1>8 DEF SkipCommit
  <2> QED
    BY <2>1, <2>2, <2>3, <2>4
<1>9. ASSUME NEW w \in Workers, Commit(w)
     PROVE  TypeOK'
  <2>1. KafkaOK'
    BY <1>9 DEF Commit, KafkaOK, WorkersOK, kafka
  <2>2. TablesOK'
    BY <1>9 DEF Commit, TablesOK, db, claims, domain, metrics
  <2>3. WorkersOK'
    BY <1>9 DEF Commit, WorkersOK, consumer, loop, Call, Goto, Steps, RecordSteps
  <2>4. (budget \in [Faults -> Nat])'
    BY <1>9 DEF Commit
  <2> QED
    BY <2>1, <2>2, <2>3, <2>4
<1>10. ASSUME NEW w \in Workers, CommitFails(w)
      PROVE  TypeOK'
  <2>1. KafkaOK'
    BY <1>10 DEF CommitFails, KafkaOK, kafka
  <2>2. TablesOK'
    BY <1>10 DEF CommitFails, TablesOK, db, claims, domain, metrics
  <2>3. WorkersOK'
    BY <1>10 DEF CommitFails, WorkersOK, consumer, loop, Call, Goto, Steps, RecordSteps
  <2>4. (budget \in [Faults -> Nat])'
    BY <1>10 DEF CommitFails
  <2> QED
    BY <2>1, <2>2, <2>3, <2>4
<1>11. ASSUME NEW w \in Workers, Restart(w)
      PROVE  TypeOK'
  <2>1. KafkaOK'
    BY <1>11 DEF Restart, KafkaOK, kafka
  <2>2. TablesOK'
    BY <1>11 DEF Restart, TablesOK, db, claims, domain, metrics
  <2>3. WorkersOK'
    BY <1>11 DEF Restart, WorkersOK, consumer, loop, Call, Goto, Steps, RecordSteps
  <2>4. (budget \in [Faults -> Nat])'
    BY <1>11 DEF Restart
  <2> QED
    BY <2>1, <2>2, <2>3, <2>4
<1>12. ASSUME NEW w \in Workers, WriteInboxRow(w)
      PROVE  TypeOK'
  <2>1. KafkaOK'
    BY <1>12 DEF WriteInboxRow, KafkaOK, kafka
  <2>2. TablesOK'
    BY <1>12 DEF WriteInboxRow, TablesOK, db, claims, domain, metrics, WorkersOK, RecordSteps, Call
  <2>3. WorkersOK'
    BY <1>12 DEF WriteInboxRow, WorkersOK, consumer, loop, Call, Goto, Steps, RecordSteps
  <2>4. (budget \in [Faults -> Nat])'
    BY <1>12 DEF WriteInboxRow
  <2> QED
    BY <2>1, <2>2, <2>3, <2>4
<1>13. ASSUME NEW w \in Workers, WriteRawEvent(w)
      PROVE  TypeOK'
  <2>1. KafkaOK'
    BY <1>13 DEF WriteRawEvent, KafkaOK, kafka
  <2>2. TablesOK'
    BY <1>13 DEF WriteRawEvent, TablesOK, db, claims, domain, metrics, WorkersOK, RecordSteps, Call
  <2>3. WorkersOK'
    BY <1>13 DEF WriteRawEvent, WorkersOK, consumer, loop, Call, Goto, Steps, RecordSteps
  <2>4. (budget \in [Faults -> Nat])'
    BY <1>13 DEF WriteRawEvent
  <2> QED
    BY <2>1, <2>2, <2>3, <2>4
<1>14. ASSUME NEW w \in Workers, MarkEventDuplicate(w)
      PROVE  TypeOK'
  <2>1. KafkaOK'
    BY <1>14 DEF MarkEventDuplicate, KafkaOK, kafka
  <2>2. TablesOK'
    BY <1>14 DEF MarkEventDuplicate, TablesOK, db, claims, domain, metrics, WorkersOK, RecordSteps, Call
  <2>3. WorkersOK'
    BY <1>14 DEF MarkEventDuplicate, WorkersOK, consumer, loop, Call, Goto, Steps, RecordSteps
  <2>4. (budget \in [Faults -> Nat])'
    BY <1>14 DEF MarkEventDuplicate
  <2> QED
    BY <2>1, <2>2, <2>3, <2>4
<1>15. ASSUME NEW w \in Workers, WriteDomainRow(w)
      PROVE  TypeOK'
  <2>1. KafkaOK'
    BY <1>15 DEF WriteDomainRow, KafkaOK, kafka
  <2>2. TablesOK'
    BY <1>15 DEF WriteDomainRow, TablesOK, db, claims, domain, metrics, WorkersOK, RecordSteps, Call, Clamped
  <2>3. WorkersOK'
    BY <1>15 DEF WriteDomainRow, WorkersOK, consumer, loop, Call, Goto, Steps, RecordSteps
  <2>4. (budget \in [Faults -> Nat])'
    BY <1>15 DEF WriteDomainRow
  <2> QED
    BY <2>1, <2>2, <2>3, <2>4
<1>16. ASSUME NEW w \in Workers, WriteRiskAlert(w)
      PROVE  TypeOK'
  <2>1. KafkaOK'
    BY <1>16 DEF WriteRiskAlert, KafkaOK, kafka
  <2>2. TablesOK'
    BY <1>16 DEF WriteRiskAlert, TablesOK, db, claims, domain, metrics, WorkersOK, RecordSteps, Call
  <2>3. WorkersOK'
    BY <1>16 DEF WriteRiskAlert, WorkersOK, consumer, loop, Call, Goto, Steps, RecordSteps
  <2>4. (budget \in [Faults -> Nat])'
    BY <1>16 DEF WriteRiskAlert
  <2> QED
    BY <2>1, <2>2, <2>3, <2>4
<1>17. ASSUME NEW w \in Workers, WriteMetricHourly(w)
      PROVE  TypeOK'
  <2>1. KafkaOK'
    BY <1>17 DEF WriteMetricHourly, KafkaOK, kafka
  <2>2. TablesOK'
    BY <1>17 DEF WriteMetricHourly, TablesOK, db, claims, domain, metrics, WorkersOK, RecordSteps, Call
  <2>3. WorkersOK'
    BY <1>17 DEF WriteMetricHourly, WorkersOK, consumer, loop, Call, Goto, Steps, RecordSteps
  <2>4. (budget \in [Faults -> Nat])'
    BY <1>17 DEF WriteMetricHourly
  <2> QED
    BY <2>1, <2>2, <2>3, <2>4
<1>18. ASSUME NEW w \in Workers, WriteMetricDaily(w)
      PROVE  TypeOK'
  <2>1. KafkaOK'
    BY <1>18 DEF WriteMetricDaily, KafkaOK, kafka
  <2>2. TablesOK'
    BY <1>18 DEF WriteMetricDaily, TablesOK, db, claims, domain, metrics, WorkersOK, RecordSteps, Call
  <2>3. WorkersOK'
    BY <1>18 DEF WriteMetricDaily, WorkersOK, consumer, loop, Call, Goto, Steps, RecordSteps
  <2>4. (budget \in [Faults -> Nat])'
    BY <1>18 DEF WriteMetricDaily
  <2> QED
    BY <2>1, <2>2, <2>3, <2>4
<1>19. ASSUME NEW w \in Workers, MarkEventProcessed(w)
      PROVE  TypeOK'
  <2>1. KafkaOK'
    BY <1>19 DEF MarkEventProcessed, KafkaOK, kafka
  <2>2. TablesOK'
    BY <1>19 DEF MarkEventProcessed, TablesOK, db, claims, domain, metrics, WorkersOK, RecordSteps, Call
  <2>3. WorkersOK'
    BY <1>19 DEF MarkEventProcessed, WorkersOK, consumer, loop, Call, Goto, Steps, RecordSteps
  <2>4. (budget \in [Faults -> Nat])'
    BY <1>19 DEF MarkEventProcessed
  <2> QED
    BY <2>1, <2>2, <2>3, <2>4
<1>20. ASSUME NEW w \in Workers, UpdateWatermark(w)
      PROVE  TypeOK'
  <2>1. KafkaOK'
    BY <1>20 DEF UpdateWatermark, KafkaOK, kafka
  <2>2. TablesOK'
    BY <1>20 DEF UpdateWatermark, TablesOK, db, claims, domain, metrics, WorkersOK, RecordSteps, Call, Greatest
  <2>3. WorkersOK'
    BY <1>20 DEF UpdateWatermark, WorkersOK, consumer, loop, Call, Goto, Steps, RecordSteps
  <2>4. (budget \in [Faults -> Nat])'
    BY <1>20 DEF UpdateWatermark
  <2> QED
    BY <2>1, <2>2, <2>3, <2>4
<1>21. ASSUME NEW w \in Workers, CountProcessed(w)
      PROVE  TypeOK'
  <2>1. KafkaOK'
    BY <1>21 DEF CountProcessed, Skip, KafkaOK, kafka
  <2>2. TablesOK'
    BY <1>21 DEF CountProcessed, Skip, TablesOK, db, claims, domain, metrics
  <2>3. WorkersOK'
    BY <1>21 DEF CountProcessed, Skip, WorkersOK, consumer, loop, Call, Goto, Steps, RecordSteps
  <2>4. (budget \in [Faults -> Nat])'
    BY <1>21 DEF CountProcessed, Skip
  <2> QED
    BY <2>1, <2>2, <2>3, <2>4
<1>22. ASSUME NEW w \in Workers, Fail(w)
      PROVE  TypeOK'
  <2>1. KafkaOK'
    BY <1>22 DEF Fail, Skip, KafkaOK, kafka
  <2>2. TablesOK'
    BY <1>22 DEF Fail, Skip, TablesOK, db, claims, domain, metrics
  <2>3. WorkersOK'
    BY <1>22 DEF Fail, Skip, WorkersOK, consumer, loop, Call, Goto, Steps, RecordSteps
  <2>4. (budget \in [Faults -> Nat])'
    BY <1>22 DEF Fail, Skip, Spend, Faults
  <2> QED
    BY <2>1, <2>2, <2>3, <2>4
<1>23. ASSUME NEW w \in Workers, Crash(w)
      PROVE  TypeOK'
  <2>1. KafkaOK'
    BY <1>23 DEF Crash, KafkaOK, kafka
  <2>2. TablesOK'
    BY <1>23 DEF Crash, TablesOK, db, claims, domain, metrics
  <2>3. WorkersOK'
    BY <1>23 DEF Crash, WorkersOK, consumer, loop, Call, Goto, Steps, RecordSteps
  <2>4. (budget \in [Faults -> Nat])'
    BY <1>23 DEF Crash, Spend, Faults
  <2> QED
    BY <2>1, <2>2, <2>3, <2>4
<1>24. CASE UNCHANGED vars
  BY <1>24 DEF vars, KafkaOK, TablesOK, WorkersOK, kafka, db, claims, domain, metrics,
              consumer, loop
<1> QED
  BY <1>1, <1>2, <1>3, <1>4, <1>5, <1>6, <1>7, <1>8, <1>9, <1>10, <1>11, <1>12,
     <1>13, <1>14, <1>15, <1>16, <1>17, <1>18, <1>19, <1>20, <1>21, <1>22, <1>23, <1>24
     DEF Next, Loop, Handle, Environment

\* Every table, log, offset and worker variable keeps its type, and a worker
\* between two calls on a record has that record's envelope in hand.
THEOREM TypeCorrect == Spec => []TypeOK
BY InitType, NextType, PTL DEF Spec

-------------------------------------------------------------------------------
(* One worker at a time has an event, and how far it is with it.           *)

\* An inbox row and its status come together, and the row is of its own id.
InboxMatches ==
    \A i \in Ids :
       /\ inbox[i] = NoRow <=> status[i] = "none"
       /\ inbox[i] # NoRow => EventId[inbox[i]] = i

\* Only the envelope that inserted the inbox row has effects, each at most once.
OnlyClaimedCounts ==
    \A e \in Envelopes :
       /\ inbox[EventId[e]] # e => NoEffect(e)
       /\ alerts[e] <= 1 /\ hourly[e] <= 1 /\ daily[e] <= 1

\* What has happened to the event in hand before each call of handle.
DoneBefore(w, e) ==
    /\ pc[w] \in {"raw", "duplicate", "domain", "alert"} => NoEffect(e)
    /\ pc[w] \in {"domain", "alert", "hourly", "daily", "mark"} => EventId[e] \in raw
    /\ pc[w] \in {"alert", "hourly", "daily", "mark"} => rows[RowKey[e]] # NoRow
    /\ pc[w] = "alert" => e \in Risky
    /\ pc[w] \in {"hourly", "daily", "mark"} => (alerts[e] = IF e \in Risky THEN 1 ELSE 0)
    /\ pc[w] = "hourly" => hourly[e] = 0 /\ daily[e] = 0
    /\ pc[w] = "daily" => hourly[e] = 1 /\ daily[e] = 0
    /\ pc[w] = "mark" => hourly[e] = 1 /\ daily[e] = 1

Progress == \A w \in Workers : pc[w] \in ClaimSteps => DoneBefore(w, rec[w])

ClaimInv ==
    /\ InboxMatches
    /\ OnlyClaimedCounts
    /\ ClaimIsExclusive
    /\ Progress
    /\ EffectsFollowProgramOrder
    /\ StatusTellsEffects

LEMMA InitClaim == Init => ClaimInv
<1> SUFFICES ASSUME Init
             PROVE  ClaimInv
    OBVIOUS
<1> USE ConstantsAssumption
<1>1. InboxMatches
  BY DEF Init, InboxMatches
<1>2. OnlyClaimedCounts
  BY DEF Init, OnlyClaimedCounts, NoEffect
<1>3. ClaimIsExclusive /\ Progress
  BY DEF Init, ClaimIsExclusive, Progress, ClaimSteps, RecordSteps
<1>4. EffectsFollowProgramOrder
  BY DEF Init, EffectsFollowProgramOrder, NoEffect
<1>5. StatusTellsEffects
  BY DEF Init, StatusTellsEffects, NoEffect
<1> QED
  BY <1>1, <1>2, <1>3, <1>4, <1>5 DEF ClaimInv

\* A step that leaves the tables alone and gives no worker a claim.
LEMMA ClaimUntouched ==
  ASSUME ClaimInv,
         UNCHANGED <<claims, domain, metrics>>,
         \A v \in Workers :
            pc'[v] \in ClaimSteps => pc'[v] = pc[v] /\ rec'[v] = rec[v]
  PROVE  ClaimInv'
<1> USE DEF claims, domain, metrics
<1>1. InboxMatches'
  BY DEF ClaimInv, InboxMatches
<1>2. OnlyClaimedCounts'
  BY DEF ClaimInv, OnlyClaimedCounts, NoEffect
<1>3. ClaimIsExclusive'
  BY DEF ClaimInv, ClaimIsExclusive
<1>4. Progress'
  BY DEF ClaimInv, Progress, DoneBefore, NoEffect
<1>5. EffectsFollowProgramOrder'
  BY DEF ClaimInv, EffectsFollowProgramOrder, NoEffect
<1>6. StatusTellsEffects'
  BY DEF ClaimInv, StatusTellsEffects, NoEffect
<1> QED
  BY <1>1, <1>2, <1>3, <1>4, <1>5, <1>6 DEF ClaimInv

\* What a worker may rely on while it holds a claim.
LEMMA Ownership ==
  ASSUME TypeOK, ClaimInv, NEW w \in Workers, pc[w] \in ClaimSteps
  PROVE  /\ rec[w] \in Envelopes
         /\ EventId[rec[w]] \in Ids
         /\ RowKey[rec[w]] \in Keys
         /\ inbox[EventId[rec[w]]] = rec[w]
         /\ status[EventId[rec[w]]] = "processing"
         /\ DoneBefore(w, rec[w])
         /\ \A d \in Envelopes : EventId[d] = EventId[rec[w]] /\ d # rec[w] => NoEffect(d)
         /\ \A v \in Workers :
               v # w /\ pc[v] \in ClaimSteps =>
                  /\ rec[v] \in Envelopes
                  /\ EventId[rec[v]] # EventId[rec[w]]
                  /\ rec[v] # rec[w]
                  /\ DoneBefore(v, rec[v])
<1> USE ConstantsAssumption
<1>1. \A v \in Workers : pc[v] \in ClaimSteps => rec[v] \in Envelopes
  BY DEF TypeOK, WorkersOK, ClaimSteps
<1>2. inbox[EventId[rec[w]]] = rec[w] /\ status[EventId[rec[w]]] = "processing"
  BY DEF ClaimInv, ClaimIsExclusive
<1>3. \A v \in Workers : v # w /\ pc[v] \in ClaimSteps => EventId[rec[v]] # EventId[rec[w]]
  BY DEF ClaimInv, ClaimIsExclusive
<1>4. \A v \in Workers : pc[v] \in ClaimSteps => DoneBefore(v, rec[v])
  BY DEF ClaimInv, Progress
<1>5. \A d \in Envelopes : EventId[d] = EventId[rec[w]] /\ d # rec[w] => NoEffect(d)
  BY <1>2 DEF ClaimInv, OnlyClaimedCounts
<1> QED
  BY <1>1, <1>2, <1>3, <1>4, <1>5

LEMMA NextClaim == TypeOK /\ ClaimInv /\ [Next]_vars => ClaimInv'
<1> SUFFICES ASSUME TypeOK, ClaimInv, [Next]_vars
             PROVE  ClaimInv'
    OBVIOUS
<1> USE ConstantsAssumption
<1> USE DEF TypeOK, TablesOK, WorkersOK
<1>1. ASSUME NEW e \in Envelopes, SeedRawEvent(e)
      PROVE  ClaimInv'
  <2>1. /\ UNCHANGED <<inbox, status, rows, alerts, hourly, daily, pc, rec>>
        /\ raw' = raw \cup {EventId[e]}
    BY <1>1 DEF SeedRawEvent, domain, metrics, loop
  <2>2. InboxMatches' /\ OnlyClaimedCounts' /\ ClaimIsExclusive'
    BY <2>1 DEF ClaimInv, InboxMatches, OnlyClaimedCounts, ClaimIsExclusive, NoEffect
  <2>3. Progress'
    BY <2>1 DEF ClaimInv, Progress, DoneBefore, NoEffect
  <2>4. EffectsFollowProgramOrder' /\ StatusTellsEffects'
    BY <2>1 DEF ClaimInv, EffectsFollowProgramOrder, StatusTellsEffects, NoEffect
  <2> QED
    BY <2>2, <2>3, <2>4 DEF ClaimInv
<1>2. ASSUME NEW w \in Workers, WriteInboxRow(w), inbox[EventId[rec[w]]] = NoRow
      PROVE  ClaimInv'
  <2> DEFINE e == rec[w]
             i == EventId[e]
  <2>1. /\ e \in Envelopes /\ i \in Ids
        /\ pc[w] = "inbox" /\ pc' = [pc EXCEPT ![w] = "raw"]
        /\ inbox' = [inbox EXCEPT ![i] = e]
        /\ status' = [status EXCEPT ![i] = "processing"]
        /\ UNCHANGED <<raw, rows, alerts, hourly, daily, rec>>
    BY <1>2 DEF WriteInboxRow, Goto, RecordSteps, domain, metrics, loop
  <2>2. status[i] = "none" /\ \A d \in Envelopes : EventId[d] = i => NoEffect(d)
    BY <1>2, <2>1 DEF ClaimInv, InboxMatches, OnlyClaimedCounts
  <2>3. \A v \in Workers : v # w /\ pc[v] \in ClaimSteps =>
           rec[v] \in Envelopes /\ inbox[EventId[rec[v]]] = rec[v] /\ EventId[rec[v]] # i
    BY <1>2 DEF ClaimInv, ClaimIsExclusive, ClaimSteps
  <2>4. \A v \in Workers : v # w => pc'[v] = pc[v]
    BY <2>1
  <2>5. pc'[w] = "raw"
    BY <2>1
  <2> HIDE DEF e, i
  <2>6. InboxMatches'
    BY <2>1 DEF i, ClaimInv, InboxMatches
  <2>7. OnlyClaimedCounts'
    BY <2>1, <2>2 DEF ClaimInv, OnlyClaimedCounts, NoEffect
  <2>8. ClaimIsExclusive'
    <3> SUFFICES ASSUME NEW v \in Workers, pc'[v] \in ClaimSteps
                 PROVE  /\ inbox'[EventId[rec[v]]] = rec[v]
                        /\ status'[EventId[rec[v]]] = "processing"
                        /\ \A u \in Workers :
                              u # v /\ pc'[u] \in ClaimSteps => EventId[rec[u]] # EventId[rec[v]]
      BY <2>1 DEF ClaimIsExclusive
    <3>1. CASE v = w
      BY <3>1, <2>1, <2>3, <2>4 DEF e, i
    <3>2. CASE v # w
      BY <3>2, <2>1, <2>3, <2>4 DEF e, i, ClaimInv, ClaimIsExclusive
    <3> QED
      BY <3>1, <3>2
  <2>9. Progress'
    <3> SUFFICES ASSUME NEW v \in Workers, pc'[v] \in ClaimSteps
                 PROVE  DoneBefore(v, rec[v])'
      BY <2>1 DEF Progress
    <3>1. CASE v = w
      BY <3>1, <2>1, <2>2, <2>5 DEF e, i, DoneBefore, NoEffect
    <3>2. CASE v # w
      BY <3>2, <2>1, <2>4 DEF ClaimInv, Progress, DoneBefore, NoEffect
    <3> QED
      BY <3>1, <3>2
  <2>10. EffectsFollowProgramOrder'
    BY <2>1 DEF ClaimInv, EffectsFollowProgramOrder, NoEffect
  <2>11. StatusTellsEffects'
    BY <2>1 DEF ClaimInv, StatusTellsEffects, NoEffect
  <2> QED
    BY <2>6, <2>7, <2>8, <2>9, <2>10, <2>11 DEF ClaimInv
<1>3. ASSUME NEW w \in Workers, WriteInboxRow(w), inbox[EventId[rec[w]]] # NoRow
      PROVE  ClaimInv'
  BY <1>3, ClaimUntouched
     DEF WriteInboxRow, Goto, ClaimSteps, RecordSteps, claims, domain, metrics, loop
<1>4. ASSUME NEW w \in Workers, WriteRawEvent(w)
     PROVE  ClaimInv'
  <2> DEFINE e == rec[w]
             i == EventId[e]
  <2>1. /\ pc[w] = "raw" /\ pc' = [pc EXCEPT ![w] = IF i \in raw THEN "duplicate" ELSE "domain"]
        /\ raw' = raw \cup {i}
        /\ UNCHANGED <<inbox, status, rows, alerts, hourly, daily, rec>>
    BY <1>4 DEF WriteRawEvent, Call, Goto, domain, metrics, loop
  <2>2. /\ e \in Envelopes /\ i \in Ids /\ RowKey[e] \in Keys
        /\ inbox[i] = e /\ status[i] = "processing" /\ DoneBefore(w, e)
        /\ \A d \in Envelopes : EventId[d] = i /\ d # e => NoEffect(d)
    BY <2>1, Ownership DEF ClaimSteps, RecordSteps
  <2>3. \A v \in Workers : v # w /\ pc[v] \in ClaimSteps =>
           rec[v] \in Envelopes /\ EventId[rec[v]] # i /\ rec[v] # e /\ DoneBefore(v, rec[v])
    BY <2>1, Ownership DEF ClaimSteps, RecordSteps
  <2>4. \A v \in Workers : v # w => pc'[v] = pc[v]
    BY <2>1
  <2>5. pc'[w] = IF i \in raw THEN "duplicate" ELSE "domain"
    BY <2>1
  <2> HIDE DEF e, i
  <2>6. InboxMatches'
    BY <2>1, <2>2 DEF ClaimInv, InboxMatches
  <2>7. OnlyClaimedCounts'
    BY <2>1, <2>2 DEF i, ClaimInv, OnlyClaimedCounts, NoEffect, DoneBefore
  <2>8. ClaimIsExclusive'
    <3> SUFFICES ASSUME NEW v \in Workers, pc'[v] \in ClaimSteps
                 PROVE  /\ inbox'[EventId[rec[v]]] = rec[v]
                        /\ status'[EventId[rec[v]]] = "processing"
                        /\ \A u \in Workers :
                              u # v /\ pc'[u] \in ClaimSteps => EventId[rec[u]] # EventId[rec[v]]
      BY <2>1 DEF ClaimIsExclusive
    <3>1. pc[v] \in ClaimSteps
      BY <2>1, <2>4 DEF ClaimSteps, RecordSteps
    <3>2. \A u \in Workers : pc'[u] \in ClaimSteps => pc[u] \in ClaimSteps
      BY <2>1, <2>4 DEF ClaimSteps, RecordSteps
    <3>3. ClaimIsExclusive
      BY DEF ClaimInv
    <3> QED
      BY <2>1, <3>1, <3>2, <3>3 DEF ClaimIsExclusive
  <2>9. Progress'
    <3> SUFFICES ASSUME NEW v \in Workers, pc'[v] \in ClaimSteps
                 PROVE  DoneBefore(v, rec[v])'
      BY <2>1 DEF Progress
    <3>1. CASE v = w
      BY <3>1, <2>1, <2>2, <2>5 DEF e, i, DoneBefore, NoEffect, ClaimSteps, RecordSteps
    <3>2. CASE v # w
      BY <3>2, <2>1, <2>2, <2>3, <2>4 DEF DoneBefore, NoEffect
    <3> QED
      BY <3>1, <3>2
  <2>10. EffectsFollowProgramOrder'
    BY <2>1, <2>2 DEF i, ClaimInv, EffectsFollowProgramOrder, NoEffect, DoneBefore
  <2>11. StatusTellsEffects'
    BY <2>1, <2>2 DEF i, ClaimInv, InboxMatches, StatusTellsEffects, NoEffect, DoneBefore
  <2> QED
    BY <2>6, <2>7, <2>8, <2>9, <2>10, <2>11 DEF ClaimInv
<1>5. ASSUME NEW w \in Workers, MarkEventDuplicate(w)
     PROVE  ClaimInv'
  <2> DEFINE e == rec[w]
             i == EventId[e]
  <2>1. /\ pc[w] = "duplicate" /\ pc' = [pc EXCEPT ![w] = "watermark"]
        /\ status' = [status EXCEPT ![i] = "duplicate"]
        /\ UNCHANGED <<inbox, raw, rows, alerts, hourly, daily, rec>>
    BY <1>5 DEF MarkEventDuplicate, Call, Goto, domain, metrics, loop
  <2>2. /\ e \in Envelopes /\ i \in Ids /\ RowKey[e] \in Keys
        /\ inbox[i] = e /\ status[i] = "processing" /\ DoneBefore(w, e)
        /\ \A d \in Envelopes : EventId[d] = i /\ d # e => NoEffect(d)
    BY <2>1, Ownership DEF ClaimSteps, RecordSteps
  <2>3. \A v \in Workers : v # w /\ pc[v] \in ClaimSteps =>
           rec[v] \in Envelopes /\ EventId[rec[v]] # i /\ rec[v] # e /\ DoneBefore(v, rec[v])
    BY <2>1, Ownership DEF ClaimSteps, RecordSteps
  <2>4. \A v \in Workers : v # w => pc'[v] = pc[v]
    BY <2>1
  <2>5. pc'[w] = "watermark"
    BY <2>1
  <2> HIDE DEF e, i
  <2>6. InboxMatches'
    BY <2>1, <2>2 DEF ClaimInv, InboxMatches
  <2>7. OnlyClaimedCounts'
    BY <2>1, <2>2 DEF i, ClaimInv, OnlyClaimedCounts, NoEffect, DoneBefore
  <2>8. ClaimIsExclusive'
    <3> SUFFICES ASSUME NEW v \in Workers, pc'[v] \in ClaimSteps
                 PROVE  /\ inbox'[EventId[rec[v]]] = rec[v]
                        /\ status'[EventId[rec[v]]] = "processing"
                        /\ \A u \in Workers :
                              u # v /\ pc'[u] \in ClaimSteps => EventId[rec[u]] # EventId[rec[v]]
      BY <2>1 DEF ClaimIsExclusive
    <3>1. pc[v] \in ClaimSteps
      BY <2>1, <2>4 DEF ClaimSteps, RecordSteps
    <3>2. \A u \in Workers : pc'[u] \in ClaimSteps => pc[u] \in ClaimSteps
      BY <2>1, <2>4 DEF ClaimSteps, RecordSteps
    <3>3. ClaimIsExclusive
      BY DEF ClaimInv
    <3>4. v # w
      BY <2>5 DEF ClaimSteps, RecordSteps
    <3> QED
      BY <2>1, <2>2, <2>3, <3>1, <3>2, <3>3, <3>4 DEF ClaimIsExclusive
  <2>9. Progress'
    <3> SUFFICES ASSUME NEW v \in Workers, pc'[v] \in ClaimSteps
                 PROVE  DoneBefore(v, rec[v])'
      BY <2>1 DEF Progress
    <3>1. CASE v = w
      BY <3>1, <2>1, <2>2, <2>5 DEF e, i, DoneBefore, NoEffect, ClaimSteps, RecordSteps
    <3>2. CASE v # w
      BY <3>2, <2>1, <2>2, <2>3, <2>4 DEF DoneBefore, NoEffect
    <3> QED
      BY <3>1, <3>2
  <2>10. EffectsFollowProgramOrder'
    BY <2>1, <2>2 DEF i, ClaimInv, EffectsFollowProgramOrder, NoEffect, DoneBefore
  <2>11. StatusTellsEffects'
    BY <2>1, <2>2 DEF i, ClaimInv, InboxMatches, StatusTellsEffects, NoEffect, DoneBefore
  <2> QED
    BY <2>6, <2>7, <2>8, <2>9, <2>10, <2>11 DEF ClaimInv
<1>6. ASSUME NEW w \in Workers, WriteDomainRow(w)
     PROVE  ClaimInv'
  <2> DEFINE e == rec[w]
             i == EventId[e]
  <2>1. /\ pc[w] = "domain" /\ pc' = [pc EXCEPT ![w] = IF e \in Risky THEN "alert" ELSE "hourly"]
        /\ rows' = [rows EXCEPT ![RowKey[e]] =
                     IF Kind[e] \in UpsertKinds \/ @ = NoRow THEN e ELSE @]
        /\ UNCHANGED <<inbox, status, raw, alerts, hourly, daily, rec>>
    BY <1>6 DEF WriteDomainRow, Call, Goto, claims, domain, metrics, loop
  <2>2. /\ e \in Envelopes /\ i \in Ids /\ RowKey[e] \in Keys
        /\ inbox[i] = e /\ status[i] = "processing" /\ DoneBefore(w, e)
        /\ \A d \in Envelopes : EventId[d] = i /\ d # e => NoEffect(d)
    BY <2>1, Ownership DEF ClaimSteps, RecordSteps
  <2>3. \A v \in Workers : v # w /\ pc[v] \in ClaimSteps =>
           rec[v] \in Envelopes /\ EventId[rec[v]] # i /\ rec[v] # e /\ DoneBefore(v, rec[v])
    BY <2>1, Ownership DEF ClaimSteps, RecordSteps
  <2>4. \A v \in Workers : v # w => pc'[v] = pc[v]
    BY <2>1
  <2>5. pc'[w] = IF e \in Risky THEN "alert" ELSE "hourly"
    BY <2>1
  <2> HIDE DEF e, i
  <2>6. InboxMatches'
    BY <2>1, <2>2 DEF ClaimInv, InboxMatches
  <2>7. OnlyClaimedCounts'
    BY <2>1, <2>2 DEF i, ClaimInv, OnlyClaimedCounts, NoEffect, DoneBefore
  <2>8. ClaimIsExclusive'
    <3> SUFFICES ASSUME NEW v \in Workers, pc'[v] \in ClaimSteps
                 PROVE  /\ inbox'[EventId[rec[v]]] = rec[v]
                        /\ status'[EventId[rec[v]]] = "processing"
                        /\ \A u \in Workers :
                              u # v /\ pc'[u] \in ClaimSteps => EventId[rec[u]] # EventId[rec[v]]
      BY <2>1 DEF ClaimIsExclusive
    <3>1. pc[v] \in ClaimSteps
      BY <2>1, <2>4 DEF ClaimSteps, RecordSteps
    <3>2. \A u \in Workers : pc'[u] \in ClaimSteps => pc[u] \in ClaimSteps
      BY <2>1, <2>4 DEF ClaimSteps, RecordSteps
    <3>3. ClaimIsExclusive
      BY DEF ClaimInv
    <3> QED
      BY <2>1, <3>1, <3>2, <3>3 DEF ClaimIsExclusive
  <2>9. Progress'
    <3> SUFFICES ASSUME NEW v \in Workers, pc'[v] \in ClaimSteps
                 PROVE  DoneBefore(v, rec[v])'
      BY <2>1 DEF Progress
    <3>1. CASE v = w
      BY <3>1, <2>1, <2>2, <2>5 DEF e, i, DoneBefore, NoEffect, ClaimSteps, RecordSteps
    <3>2. CASE v # w
      BY <3>2, <2>1, <2>2, <2>3, <2>4 DEF DoneBefore, NoEffect
    <3> QED
      BY <3>1, <3>2
  <2>10. EffectsFollowProgramOrder'
    BY <2>1, <2>2 DEF i, ClaimInv, EffectsFollowProgramOrder, NoEffect, DoneBefore
  <2>11. StatusTellsEffects'
    BY <2>1, <2>2 DEF i, ClaimInv, InboxMatches, StatusTellsEffects, NoEffect, DoneBefore
  <2> QED
    BY <2>6, <2>7, <2>8, <2>9, <2>10, <2>11 DEF ClaimInv
<1>7. ASSUME NEW w \in Workers, WriteRiskAlert(w)
     PROVE  ClaimInv'
  <2> DEFINE e == rec[w]
             i == EventId[e]
  <2>1. /\ pc[w] = "alert" /\ pc' = [pc EXCEPT ![w] = "hourly"]
        /\ alerts' = [alerts EXCEPT ![e] = @ + 1]
        /\ UNCHANGED <<inbox, status, raw, rows, hourly, daily, rec>>
    BY <1>7 DEF WriteRiskAlert, Call, Goto, claims, domain, metrics, loop
  <2>2. /\ e \in Envelopes /\ i \in Ids /\ RowKey[e] \in Keys
        /\ inbox[i] = e /\ status[i] = "processing" /\ DoneBefore(w, e)
        /\ \A d \in Envelopes : EventId[d] = i /\ d # e => NoEffect(d)
    BY <2>1, Ownership DEF ClaimSteps, RecordSteps
  <2>3. \A v \in Workers : v # w /\ pc[v] \in ClaimSteps =>
           rec[v] \in Envelopes /\ EventId[rec[v]] # i /\ rec[v] # e /\ DoneBefore(v, rec[v])
    BY <2>1, Ownership DEF ClaimSteps, RecordSteps
  <2>4. \A v \in Workers : v # w => pc'[v] = pc[v]
    BY <2>1
  <2>5. pc'[w] = "hourly"
    BY <2>1
  <2> HIDE DEF e, i
  <2>6. InboxMatches'
    BY <2>1, <2>2 DEF ClaimInv, InboxMatches
  <2>7. OnlyClaimedCounts'
    BY <2>1, <2>2 DEF i, ClaimInv, OnlyClaimedCounts, NoEffect, DoneBefore
  <2>8. ClaimIsExclusive'
    <3> SUFFICES ASSUME NEW v \in Workers, pc'[v] \in ClaimSteps
                 PROVE  /\ inbox'[EventId[rec[v]]] = rec[v]
                        /\ status'[EventId[rec[v]]] = "processing"
                        /\ \A u \in Workers :
                              u # v /\ pc'[u] \in ClaimSteps => EventId[rec[u]] # EventId[rec[v]]
      BY <2>1 DEF ClaimIsExclusive
    <3>1. pc[v] \in ClaimSteps
      BY <2>1, <2>4 DEF ClaimSteps, RecordSteps
    <3>2. \A u \in Workers : pc'[u] \in ClaimSteps => pc[u] \in ClaimSteps
      BY <2>1, <2>4 DEF ClaimSteps, RecordSteps
    <3>3. ClaimIsExclusive
      BY DEF ClaimInv
    <3> QED
      BY <2>1, <3>1, <3>2, <3>3 DEF ClaimIsExclusive
  <2>9. Progress'
    <3> SUFFICES ASSUME NEW v \in Workers, pc'[v] \in ClaimSteps
                 PROVE  DoneBefore(v, rec[v])'
      BY <2>1 DEF Progress
    <3>1. CASE v = w
      BY <3>1, <2>1, <2>2, <2>5 DEF e, i, DoneBefore, NoEffect, ClaimSteps, RecordSteps
    <3>2. CASE v # w
      BY <3>2, <2>1, <2>2, <2>3, <2>4 DEF DoneBefore, NoEffect
    <3> QED
      BY <3>1, <3>2
  <2>10. EffectsFollowProgramOrder'
    BY <2>1, <2>2 DEF i, ClaimInv, EffectsFollowProgramOrder, NoEffect, DoneBefore
  <2>11. StatusTellsEffects'
    BY <2>1, <2>2 DEF i, ClaimInv, InboxMatches, StatusTellsEffects, NoEffect, DoneBefore
  <2> QED
    BY <2>6, <2>7, <2>8, <2>9, <2>10, <2>11 DEF ClaimInv
<1>8. ASSUME NEW w \in Workers, WriteMetricHourly(w)
     PROVE  ClaimInv'
  <2> DEFINE e == rec[w]
             i == EventId[e]
  <2>1. /\ pc[w] = "hourly" /\ pc' = [pc EXCEPT ![w] = "daily"]
        /\ hourly' = [hourly EXCEPT ![e] = @ + 1]
        /\ UNCHANGED <<inbox, status, raw, rows, alerts, daily, rec>>
    BY <1>8 DEF WriteMetricHourly, Call, Goto, claims, domain, metrics, loop
  <2>2. /\ e \in Envelopes /\ i \in Ids /\ RowKey[e] \in Keys
        /\ inbox[i] = e /\ status[i] = "processing" /\ DoneBefore(w, e)
        /\ \A d \in Envelopes : EventId[d] = i /\ d # e => NoEffect(d)
    BY <2>1, Ownership DEF ClaimSteps, RecordSteps
  <2>3. \A v \in Workers : v # w /\ pc[v] \in ClaimSteps =>
           rec[v] \in Envelopes /\ EventId[rec[v]] # i /\ rec[v] # e /\ DoneBefore(v, rec[v])
    BY <2>1, Ownership DEF ClaimSteps, RecordSteps
  <2>4. \A v \in Workers : v # w => pc'[v] = pc[v]
    BY <2>1
  <2>5. pc'[w] = "daily"
    BY <2>1
  <2> HIDE DEF e, i
  <2>6. InboxMatches'
    BY <2>1, <2>2 DEF ClaimInv, InboxMatches
  <2>7. OnlyClaimedCounts'
    BY <2>1, <2>2 DEF i, ClaimInv, OnlyClaimedCounts, NoEffect, DoneBefore
  <2>8. ClaimIsExclusive'
    <3> SUFFICES ASSUME NEW v \in Workers, pc'[v] \in ClaimSteps
                 PROVE  /\ inbox'[EventId[rec[v]]] = rec[v]
                        /\ status'[EventId[rec[v]]] = "processing"
                        /\ \A u \in Workers :
                              u # v /\ pc'[u] \in ClaimSteps => EventId[rec[u]] # EventId[rec[v]]
      BY <2>1 DEF ClaimIsExclusive
    <3>1. pc[v] \in ClaimSteps
      BY <2>1, <2>4 DEF ClaimSteps, RecordSteps
    <3>2. \A u \in Workers : pc'[u] \in ClaimSteps => pc[u] \in ClaimSteps
      BY <2>1, <2>4 DEF ClaimSteps, RecordSteps
    <3>3. ClaimIsExclusive
      BY DEF ClaimInv
    <3> QED
      BY <2>1, <3>1, <3>2, <3>3 DEF ClaimIsExclusive
  <2>9. Progress'
    <3> SUFFICES ASSUME NEW v \in Workers, pc'[v] \in ClaimSteps
                 PROVE  DoneBefore(v, rec[v])'
      BY <2>1 DEF Progress
    <3>1. CASE v = w
      BY <3>1, <2>1, <2>2, <2>5 DEF e, i, DoneBefore, NoEffect, ClaimSteps, RecordSteps
    <3>2. CASE v # w
      BY <3>2, <2>1, <2>2, <2>3, <2>4 DEF DoneBefore, NoEffect
    <3> QED
      BY <3>1, <3>2
  <2>10. EffectsFollowProgramOrder'
    BY <2>1, <2>2 DEF i, ClaimInv, EffectsFollowProgramOrder, NoEffect, DoneBefore
  <2>11. StatusTellsEffects'
    BY <2>1, <2>2 DEF i, ClaimInv, InboxMatches, StatusTellsEffects, NoEffect, DoneBefore
  <2> QED
    BY <2>6, <2>7, <2>8, <2>9, <2>10, <2>11 DEF ClaimInv
<1>9. ASSUME NEW w \in Workers, WriteMetricDaily(w)
     PROVE  ClaimInv'
  <2> DEFINE e == rec[w]
             i == EventId[e]
  <2>1. /\ pc[w] = "daily" /\ pc' = [pc EXCEPT ![w] = "mark"]
        /\ daily' = [daily EXCEPT ![e] = @ + 1]
        /\ UNCHANGED <<inbox, status, raw, rows, alerts, hourly, rec>>
    BY <1>9 DEF WriteMetricDaily, Call, Goto, claims, domain, metrics, loop
  <2>2. /\ e \in Envelopes /\ i \in Ids /\ RowKey[e] \in Keys
        /\ inbox[i] = e /\ status[i] = "processing" /\ DoneBefore(w, e)
        /\ \A d \in Envelopes : EventId[d] = i /\ d # e => NoEffect(d)
    BY <2>1, Ownership DEF ClaimSteps, RecordSteps
  <2>3. \A v \in Workers : v # w /\ pc[v] \in ClaimSteps =>
           rec[v] \in Envelopes /\ EventId[rec[v]] # i /\ rec[v] # e /\ DoneBefore(v, rec[v])
    BY <2>1, Ownership DEF ClaimSteps, RecordSteps
  <2>4. \A v \in Workers : v # w => pc'[v] = pc[v]
    BY <2>1
  <2>5. pc'[w] = "mark"
    BY <2>1
  <2> HIDE DEF e, i
  <2>6. InboxMatches'
    BY <2>1, <2>2 DEF ClaimInv, InboxMatches
  <2>7. OnlyClaimedCounts'
    BY <2>1, <2>2 DEF i, ClaimInv, OnlyClaimedCounts, NoEffect, DoneBefore
  <2>8. ClaimIsExclusive'
    <3> SUFFICES ASSUME NEW v \in Workers, pc'[v] \in ClaimSteps
                 PROVE  /\ inbox'[EventId[rec[v]]] = rec[v]
                        /\ status'[EventId[rec[v]]] = "processing"
                        /\ \A u \in Workers :
                              u # v /\ pc'[u] \in ClaimSteps => EventId[rec[u]] # EventId[rec[v]]
      BY <2>1 DEF ClaimIsExclusive
    <3>1. pc[v] \in ClaimSteps
      BY <2>1, <2>4 DEF ClaimSteps, RecordSteps
    <3>2. \A u \in Workers : pc'[u] \in ClaimSteps => pc[u] \in ClaimSteps
      BY <2>1, <2>4 DEF ClaimSteps, RecordSteps
    <3>3. ClaimIsExclusive
      BY DEF ClaimInv
    <3> QED
      BY <2>1, <3>1, <3>2, <3>3 DEF ClaimIsExclusive
  <2>9. Progress'
    <3> SUFFICES ASSUME NEW v \in Workers, pc'[v] \in ClaimSteps
                 PROVE  DoneBefore(v, rec[v])'
      BY <2>1 DEF Progress
    <3>1. CASE v = w
      BY <3>1, <2>1, <2>2, <2>5 DEF e, i, DoneBefore, NoEffect, ClaimSteps, RecordSteps
    <3>2. CASE v # w
      BY <3>2, <2>1, <2>2, <2>3, <2>4 DEF DoneBefore, NoEffect
    <3> QED
      BY <3>1, <3>2
  <2>10. EffectsFollowProgramOrder'
    BY <2>1, <2>2 DEF i, ClaimInv, EffectsFollowProgramOrder, NoEffect, DoneBefore
  <2>11. StatusTellsEffects'
    BY <2>1, <2>2 DEF i, ClaimInv, InboxMatches, StatusTellsEffects, NoEffect, DoneBefore
  <2> QED
    BY <2>6, <2>7, <2>8, <2>9, <2>10, <2>11 DEF ClaimInv
<1>10. ASSUME NEW w \in Workers, MarkEventProcessed(w)
      PROVE  ClaimInv'
  <2> DEFINE e == rec[w]
             i == EventId[e]
  <2>1. /\ pc[w] = "mark" /\ pc' = [pc EXCEPT ![w] = "watermark"]
        /\ status' = [status EXCEPT ![i] = "processed"]
        /\ UNCHANGED <<inbox, raw, rows, alerts, hourly, daily, rec>>
    BY <1>10 DEF MarkEventProcessed, Call, Goto, domain, metrics, loop
  <2>2. /\ e \in Envelopes /\ i \in Ids /\ RowKey[e] \in Keys
        /\ inbox[i] = e /\ status[i] = "processing" /\ DoneBefore(w, e)
        /\ \A d \in Envelopes : EventId[d] = i /\ d # e => NoEffect(d)
    BY <2>1, Ownership DEF ClaimSteps, RecordSteps
  <2>3. \A v \in Workers : v # w /\ pc[v] \in ClaimSteps =>
           rec[v] \in Envelopes /\ EventId[rec[v]] # i /\ rec[v] # e /\ DoneBefore(v, rec[v])
    BY <2>1, Ownership DEF ClaimSteps, RecordSteps
  <2>4. \A v \in Workers : v # w => pc'[v] = pc[v]
    BY <2>1
  <2>5. pc'[w] = "watermark"
    BY <2>1
  <2> HIDE DEF e, i
  <2>6. InboxMatches'
    BY <2>1, <2>2 DEF ClaimInv, InboxMatches
  <2>7. OnlyClaimedCounts'
    BY <2>1, <2>2 DEF i, ClaimInv, OnlyClaimedCounts, NoEffect, DoneBefore
  <2>8. ClaimIsExclusive'
    <3> SUFFICES ASSUME NEW v \in Workers, pc'[v] \in ClaimSteps
                 PROVE  /\ inbox'[EventId[rec[v]]] = rec[v]
                        /\ status'[EventId[rec[v]]] = "processing"
                        /\ \A u \in Workers :
                              u # v /\ pc'[u] \in ClaimSteps => EventId[rec[u]] # EventId[rec[v]]
      BY <2>1 DEF ClaimIsExclusive
    <3>1. pc[v] \in ClaimSteps
      BY <2>1, <2>4 DEF ClaimSteps, RecordSteps
    <3>2. \A u \in Workers : pc'[u] \in ClaimSteps => pc[u] \in ClaimSteps
      BY <2>1, <2>4 DEF ClaimSteps, RecordSteps
    <3>3. ClaimIsExclusive
      BY DEF ClaimInv
    <3>4. v # w
      BY <2>5 DEF ClaimSteps, RecordSteps
    <3> QED
      BY <2>1, <2>2, <2>3, <3>1, <3>2, <3>3, <3>4 DEF ClaimIsExclusive
  <2>9. Progress'
    <3> SUFFICES ASSUME NEW v \in Workers, pc'[v] \in ClaimSteps
                 PROVE  DoneBefore(v, rec[v])'
      BY <2>1 DEF Progress
    <3>1. CASE v = w
      BY <3>1, <2>1, <2>2, <2>5 DEF e, i, DoneBefore, NoEffect, ClaimSteps, RecordSteps
    <3>2. CASE v # w
      BY <3>2, <2>1, <2>2, <2>3, <2>4 DEF DoneBefore, NoEffect
    <3> QED
      BY <3>1, <3>2
  <2>10. EffectsFollowProgramOrder'
    BY <2>1, <2>2 DEF i, ClaimInv, EffectsFollowProgramOrder, NoEffect, DoneBefore
  <2>11. StatusTellsEffects'
    BY <2>1, <2>2 DEF i, ClaimInv, InboxMatches, StatusTellsEffects, NoEffect, DoneBefore
  <2> QED
    BY <2>6, <2>7, <2>8, <2>9, <2>10, <2>11 DEF ClaimInv
<1>11. ASSUME Environment, \A e \in Envelopes : ~SeedRawEvent(e)
       PROVE  ClaimInv'
  BY <1>11, ClaimUntouched DEF Environment, Produce, Rebalance, db, loop
<1>12. ASSUME NEW w \in Workers, Loop(w), ~Handle(w)
       PROVE  ClaimInv'
  <2>1. UNCHANGED <<claims, domain, metrics>>
    BY <1>12 DEF Loop, Join, Poll, TakeEnvelope, TakePoison, UpdateWatermark,
                 CountProcessed, SkipCommit, Commit, CommitFails, Restart, db
  <2>2. /\ \/ pc' = pc
           \/ \E next \in Steps \ ClaimSteps : pc' = [pc EXCEPT ![w] = next]
        /\ \/ rec' = rec
           \/ pc[w] \notin ClaimSteps /\ \E r : rec' = [rec EXCEPT ![w] = r]
    BY <1>12 DEF Loop, Join, Poll, TakeEnvelope, TakePoison, UpdateWatermark,
                 CountProcessed, SkipCommit, Commit, CommitFails, Restart, Call, Goto,
                 loop, Steps, ClaimSteps, RecordSteps
  <2>3. \A v \in Workers : pc'[v] \in ClaimSteps => pc'[v] = pc[v] /\ rec'[v] = rec[v]
    BY <2>2
  <2> QED
    BY <2>1, <2>3, ClaimUntouched
<1>13. ASSUME NEW w \in Workers, Fail(w) \/ Crash(w)
       PROVE  ClaimInv'
  BY <1>13, ClaimUntouched DEF Fail, Crash, Goto, db, ClaimSteps, RecordSteps
<1>14. CASE UNCHANGED vars
  BY <1>14, ClaimUntouched DEF vars, db, loop
<1> QED
  BY <1>1, <1>2, <1>3, <1>4, <1>5, <1>6, <1>7, <1>8, <1>9, <1>10, <1>11, <1>12, <1>13,
     <1>14
     DEF Next, Handle

\* A worker that has an inbox row's event is alone with it.
THEOREM ClaimExclusive == Spec => []ClaimIsExclusive
<1>1. ClaimInv => ClaimIsExclusive
  BY DEF ClaimInv
<1> QED
  BY <1>1, InitType, NextType, InitClaim, NextClaim, PTL DEF Spec

\* No delivery, interleaving or crash makes an event count twice.
THEOREM AtMostOnce == Spec => []CountedAtMostOnce
<1>1. TypeOK /\ ClaimInv => CountedAtMostOnce
  BY ConstantsAssumption DEF ClaimInv, OnlyClaimedCounts, CountedAtMostOnce
<1> QED
  BY <1>1, InitType, NextType, InitClaim, NextClaim, PTL DEF Spec

\* What a crash leaves behind is a prefix of the effects of handle.
THEOREM PrefixOfEffects == Spec => []EffectsFollowProgramOrder
<1>1. ClaimInv => EffectsFollowProgramOrder
  BY DEF ClaimInv
<1> QED
  BY <1>1, InitType, NextType, InitClaim, NextClaim, PTL DEF Spec

\* event_inbox.status never tells an operator more than has happened.
THEOREM StatusIsHonest == Spec => []StatusTellsEffects
<1>1. ClaimInv => StatusTellsEffects
  BY DEF ClaimInv
<1> QED
  BY <1>1, InitType, NextType, InitClaim, NextClaim, PTL DEF Spec

-------------------------------------------------------------------------------
(* The service implements EventLedger.                                     *)

LEMMA InitLedger == Init => Ledger!Init
BY DEF Init, Ledger!Init

LEMMA StepLedger == TypeOK /\ ClaimInv /\ [Next]_vars => [Ledger!Next]_(Ledger!vars)
<1> SUFFICES ASSUME TypeOK, ClaimInv, [Next]_vars
             PROVE  [Ledger!Next]_(Ledger!vars)
    OBVIOUS
<1> DEFINE closed(st) == {i \in Ids : st[i] = "processed"}
<1> USE ConstantsAssumption
<1> USE DEF TypeOK, TablesOK, Ledger!vars
<1>1. ASSUME UNCHANGED <<inbox, status, alerts, hourly, daily>>
      PROVE  UNCHANGED Ledger!vars
  BY <1>1
<1>2. ASSUME NEW w \in Workers, WriteInboxRow(w), inbox[EventId[rec[w]]] = NoRow
      PROVE  Ledger!Claim(rec[w]) /\ rec[w] \in Envelopes
  <2>1. rec[w] \in Envelopes /\ EventId[rec[w]] \in Ids
    BY <1>2 DEF WriteInboxRow, WorkersOK, RecordSteps
  <2>2. status[EventId[rec[w]]] = "none"
    BY <1>2, <2>1 DEF ClaimInv, InboxMatches
  <2>3. closed(status') = closed(status)
    BY <1>2, <2>1, <2>2 DEF WriteInboxRow
  <2> QED
    BY <1>2, <2>1, <2>3 DEF WriteInboxRow, Ledger!Claim, domain, metrics
<1>3. ASSUME NEW w \in Workers, WriteRiskAlert(w)
      PROVE  Ledger!RaiseAlert(rec[w]) /\ rec[w] \in Envelopes
  <2>1. pc[w] = "alert" /\ alerts' = [alerts EXCEPT ![rec[w]] = @ + 1]
        /\ UNCHANGED <<inbox, status, hourly, daily>>
    BY <1>3 DEF WriteRiskAlert, Call, claims, metrics
  <2>2. /\ rec[w] \in Envelopes /\ inbox[EventId[rec[w]]] = rec[w]
        /\ DoneBefore(w, rec[w])
    BY <2>1, Ownership DEF ClaimSteps, RecordSteps
  <2>3. rec[w] \in Risky /\ alerts[rec[w]] = 0 /\ hourly[rec[w]] = 0
    BY <2>1, <2>2 DEF DoneBefore, NoEffect
  <2>4. alerts' = [alerts EXCEPT ![rec[w]] = 1]
    BY <2>1, <2>2, <2>3
  <2>5. UNCHANGED <<inbox, hourly, daily, closed(status)>>
    BY <2>1
  <2> QED
    BY <2>2, <2>3, <2>4, <2>5 DEF Ledger!RaiseAlert
<1>4. ASSUME NEW w \in Workers, WriteMetricHourly(w)
      PROVE  Ledger!CountHourly(rec[w]) /\ rec[w] \in Envelopes
  <2>1. pc[w] = "hourly" /\ hourly' = [hourly EXCEPT ![rec[w]] = @ + 1]
        /\ UNCHANGED <<inbox, status, alerts, daily>>
    BY <1>4 DEF WriteMetricHourly, Call, claims, domain
  <2>2. /\ rec[w] \in Envelopes /\ inbox[EventId[rec[w]]] = rec[w]
        /\ DoneBefore(w, rec[w])
    BY <2>1, Ownership DEF ClaimSteps, RecordSteps
  <2>3. hourly[rec[w]] = 0 /\ (rec[w] \in Risky => alerts[rec[w]] = 1)
    BY <2>1, <2>2 DEF DoneBefore, NoEffect
  <2>4. hourly' = [hourly EXCEPT ![rec[w]] = 1]
    BY <2>1, <2>2, <2>3
  <2>5. UNCHANGED <<inbox, alerts, daily, closed(status)>>
    BY <2>1
  <2> QED
    BY <2>2, <2>3, <2>4, <2>5 DEF Ledger!CountHourly
<1>5. ASSUME NEW w \in Workers, WriteMetricDaily(w)
      PROVE  Ledger!CountDaily(rec[w]) /\ rec[w] \in Envelopes
  <2>1. pc[w] = "daily" /\ daily' = [daily EXCEPT ![rec[w]] = @ + 1]
        /\ UNCHANGED <<inbox, status, alerts, hourly>>
    BY <1>5 DEF WriteMetricDaily, Call, claims, domain
  <2>2. /\ rec[w] \in Envelopes /\ inbox[EventId[rec[w]]] = rec[w]
        /\ DoneBefore(w, rec[w])
    BY <2>1, Ownership DEF ClaimSteps, RecordSteps
  <2>3. hourly[rec[w]] = 1 /\ daily[rec[w]] = 0
    BY <2>1, <2>2 DEF DoneBefore, NoEffect
  <2>4. daily' = [daily EXCEPT ![rec[w]] = 1]
    BY <2>1, <2>2, <2>3
  <2>5. UNCHANGED <<inbox, alerts, hourly, closed(status)>>
    BY <2>1
  <2> QED
    BY <2>2, <2>3, <2>4, <2>5 DEF Ledger!CountDaily
<1>6. ASSUME NEW w \in Workers, MarkEventProcessed(w)
      PROVE  Ledger!Close(rec[w]) /\ rec[w] \in Envelopes
  <2>1. pc[w] = "mark" /\ status' = [status EXCEPT ![EventId[rec[w]]] = "processed"]
        /\ UNCHANGED <<inbox, alerts, hourly, daily>>
    BY <1>6 DEF MarkEventProcessed, Call, domain, metrics
  <2>2. /\ rec[w] \in Envelopes /\ EventId[rec[w]] \in Ids
        /\ inbox[EventId[rec[w]]] = rec[w] /\ DoneBefore(w, rec[w])
    BY <2>1, Ownership DEF ClaimSteps, RecordSteps
  <2>3. closed(status') = closed(status) \cup {EventId[rec[w]]}
    BY <2>1, <2>2
  <2> QED
    BY <2>1, <2>2, <2>3 DEF DoneBefore, Ledger!Close
<1>7. ASSUME NEW w \in Workers, MarkEventDuplicate(w)
      PROVE  UNCHANGED Ledger!vars
  <2>1. pc[w] = "duplicate" /\ status' = [status EXCEPT ![EventId[rec[w]]] = "duplicate"]
        /\ UNCHANGED <<inbox, alerts, hourly, daily>>
    BY <1>7 DEF MarkEventDuplicate, Call, domain, metrics
  <2>2. EventId[rec[w]] \in Ids /\ status[EventId[rec[w]]] = "processing"
    BY <2>1, Ownership DEF ClaimSteps, RecordSteps
  <2>3. closed(status') = closed(status)
    BY <2>1, <2>2
  <2> QED
    BY <2>1, <2>3
<1>8. ASSUME NEW w \in Workers,
             \/ WriteInboxRow(w) /\ inbox[EventId[rec[w]]] # NoRow
             \/ WriteRawEvent(w)
             \/ WriteDomainRow(w)
             \/ Loop(w) /\ ~Handle(w)
             \/ Fail(w)
             \/ Crash(w)
      PROVE  UNCHANGED <<inbox, status, alerts, hourly, daily>>
  BY <1>8 DEF WriteInboxRow, WriteRawEvent, WriteDomainRow, Fail, Crash, Loop, Join, Poll,
              TakeEnvelope, TakePoison, UpdateWatermark, CountProcessed, SkipCommit,
              Commit, CommitFails, Restart, db, claims, domain, metrics
<1>9. ASSUME Environment \/ UNCHANGED vars
      PROVE  UNCHANGED <<inbox, status, alerts, hourly, daily>>
  BY <1>9 DEF Environment, Produce, SeedRawEvent, Rebalance, vars, db, claims, domain, metrics
<1>10. Ledger!Next \/ UNCHANGED Ledger!vars
  <2>1. ASSUME NEW w \in Workers, Handle(w)
        PROVE  Ledger!Next \/ UNCHANGED Ledger!vars
    <3>1. CASE WriteInboxRow(w)
      BY <3>1, <1>1, <1>2, <1>8 DEF Ledger!Next
    <3>2. CASE WriteRiskAlert(w)
      BY <3>2, <1>3 DEF Ledger!Next
    <3>3. CASE WriteMetricHourly(w)
      BY <3>3, <1>4 DEF Ledger!Next
    <3>4. CASE WriteMetricDaily(w)
      BY <3>4, <1>5 DEF Ledger!Next
    <3>5. CASE MarkEventProcessed(w)
      <4>1. Ledger!Close(rec[w]) /\ rec[w] \in Envelopes
        BY <3>5, <1>6
      <4> QED
        BY <4>1 DEF Ledger!Next, Ledger!Close
    <3>6. CASE MarkEventDuplicate(w)
      BY <3>6, <1>7
    <3>7. CASE WriteRawEvent(w) \/ WriteDomainRow(w)
      BY <3>7, <1>1, <1>8
    <3> QED
      BY <2>1, <3>1, <3>2, <3>3, <3>4, <3>5, <3>6, <3>7 DEF Handle
  <2>2. ASSUME NEW w \in Workers, (Loop(w) /\ ~Handle(w)) \/ Fail(w) \/ Crash(w)
        PROVE  UNCHANGED Ledger!vars
    BY <2>2, <1>1, <1>8
  <2>3. CASE Environment \/ UNCHANGED vars
    BY <2>3, <1>1, <1>9
  <2> QED
    BY <2>1, <2>2, <2>3 DEF Next
<1> QED
  BY <1>10

\* Whatever the workers, Kafka and the database do, readers of the metric and
\* alert tables see EventLedger.
THEOREM ImplementsLedger == Spec => LedgerSpec
BY InitType, NextType, InitClaim, NextClaim, InitLedger, StepLedger, PTL
   DEF Spec, LedgerSpec, Ledger!Spec

-------------------------------------------------------------------------------
(* What lies below the committed offset has been dealt with.               *)

\* The positions of a worker, and the record it has in hand.
BatchInv ==
    \A w \in Workers :
       /\ \A p \in Partitions :
             /\ handled[w][p] <= position[w][p]
             /\ position[w][p] <= Len(log[p])
             /\ \A n \in 0 .. handled[w][p] - 1 : Accounted(p, n)
       /\ pc[w] \in RecordSteps =>
             /\ Pending(w, cur[w])
             /\ log[cur[w]][handled[w][cur[w]] + 1] = rec[w]
       /\ pc[w] \in RecordSteps \ {"inbox"} => inbox[EventId[rec[w]]] # NoRow
       /\ pc[w] = "count" =>
             watermark[<<Tenant[rec[w]], Topic[cur[w]]>>] >= handled[w][cur[w]]

\* A worker of the current generation has read at least what its group committed.
FenceInv ==
    \A w \in Workers, p \in Partitions :
       member[w] /\ owner[p] = w => committed[p] <= position[w][p]

OffsetInv == CommittedIsAccounted /\ BatchInv /\ FenceInv

LEMMA InitOffsets == Init => OffsetInv
<1> SUFFICES ASSUME Init
             PROVE  OffsetInv
    OBVIOUS
<1> USE ConstantsAssumption DEF Init
<1>1. CommittedIsAccounted
  BY DEF CommittedIsAccounted
<1>2. BatchInv
  BY DEF BatchInv, RecordSteps
<1>3. FenceInv
  BY DEF FenceInv
<1> QED
  BY <1>1, <1>2, <1>3 DEF OffsetInv

\* Nothing a record is accounted by is ever taken back.
LEMMA Growth ==
  ASSUME TypeOK, [Next]_vars
  PROVE  /\ \A p \in Partitions :
               /\ Len(log[p]) <= Len(log'[p])
               /\ \A m \in 1 .. Len(log[p]) : log'[p][m] = log[p][m]
         /\ failed \subseteq failed'
         /\ \A i \in Ids : inbox[i] # NoRow => inbox'[i] # NoRow
         /\ \A s \in Tenants \X Topics : watermark[s] <= watermark'[s]
<1> USE ConstantsAssumption
<1> USE DEF TypeOK
<1>1. \A p \in Partitions :
         /\ Len(log[p]) <= Len(log'[p])
         /\ \A m \in 1 .. Len(log[p]) : log'[p][m] = log[p][m]
  <2>1. ASSUME NEW q \in Partitions, NEW r \in Envelopes \cup {Poison}, Produce(q, r)
        PROVE  \A p \in Partitions :
                  /\ Len(log[p]) <= Len(log'[p])
                  /\ \A m \in 1 .. Len(log[p]) : log'[p][m] = log[p][m]
    BY <2>1 DEF Produce, KafkaOK
  <2>2. log' = log \/ \E q \in Partitions, r \in Envelopes \cup {Poison} : Produce(q, r)
    BY DEF Next, Environment, Loop, Handle, SeedRawEvent, Rebalance, Join, Poll,
           TakeEnvelope, TakePoison, SkipCommit, Commit, CommitFails, Restart,
           WriteInboxRow, WriteRawEvent, MarkEventDuplicate, WriteDomainRow,
           WriteRiskAlert, WriteMetricHourly, WriteMetricDaily, MarkEventProcessed,
           UpdateWatermark, CountProcessed, Fail, Crash, vars, kafka
  <2> QED
    BY <2>1, <2>2 DEF KafkaOK
<1>2. failed \subseteq failed'
  BY DEF Next, Environment, Loop, Handle, Produce, SeedRawEvent, Rebalance, Join, Poll,
         TakeEnvelope, TakePoison, SkipCommit, Commit, CommitFails, Restart,
         WriteInboxRow, WriteRawEvent, MarkEventDuplicate, WriteDomainRow,
         WriteRiskAlert, WriteMetricHourly, WriteMetricDaily, MarkEventProcessed,
         UpdateWatermark, CountProcessed, Fail, Crash, vars, loop
<1>3. \A i \in Ids : inbox[i] # NoRow => inbox'[i] # NoRow
  <2>1. ASSUME NEW w \in Workers, WriteInboxRow(w)
        PROVE  \A i \in Ids : inbox[i] # NoRow => inbox'[i] # NoRow
    BY <2>1 DEF WriteInboxRow, TablesOK, WorkersOK, RecordSteps
  <2>2. inbox' = inbox \/ \E w \in Workers : WriteInboxRow(w)
    BY DEF Next, Environment, Loop, Handle, Produce, SeedRawEvent, Rebalance, Join, Poll,
           TakeEnvelope, TakePoison, SkipCommit, Commit, CommitFails, Restart,
           WriteRawEvent, MarkEventDuplicate, WriteDomainRow,
           WriteRiskAlert, WriteMetricHourly, WriteMetricDaily, MarkEventProcessed,
           UpdateWatermark, CountProcessed, Fail, Crash, vars, db, claims
  <2> QED
    BY <2>1, <2>2
<1>4. \A s \in Tenants \X Topics : watermark[s] <= watermark'[s]
  <2>1. ASSUME NEW w \in Workers, UpdateWatermark(w)
        PROVE  \A s \in Tenants \X Topics : watermark[s] <= watermark'[s]
    <3> DEFINE t == <<Tenant[rec[w]], Topic[cur[w]]>>
               n == handled[w][cur[w]]
    <3>1. watermark' = [watermark EXCEPT ![t] = Greatest(@, n)]
      BY <2>1 DEF UpdateWatermark
    <3>2. n \in Nat
      BY DEF WorkersOK
    <3> HIDE DEF t, n
    <3> QED
      BY <3>1, <3>2 DEF Greatest, TablesOK
  <2>2. watermark' = watermark \/ \E w \in Workers : UpdateWatermark(w)
    BY DEF Next, Environment, Loop, Handle, Produce, SeedRawEvent, Rebalance, Join, Poll,
           TakeEnvelope, TakePoison, SkipCommit, Commit, CommitFails, Restart,
           WriteInboxRow, WriteRawEvent, MarkEventDuplicate, WriteDomainRow,
           WriteRiskAlert, WriteMetricHourly, WriteMetricDaily, MarkEventProcessed,
           CountProcessed, Fail, Crash, vars, db
  <2> QED
    BY <2>1, <2>2 DEF TablesOK
<1> QED
  BY <1>1, <1>2, <1>3, <1>4

LEMMA AccountedStays ==
  ASSUME TypeOK, [Next]_vars,
         NEW p \in Partitions, NEW n \in Nat, n < Len(log[p]), Accounted(p, n)
  PROVE  Accounted(p, n)'
<1> USE ConstantsAssumption
<1>1. log'[p][n + 1] = log[p][n + 1]
  <2>1. Len(log[p]) \in Nat
    BY DEF TypeOK, KafkaOK
  <2>2. n + 1 \in 1 .. Len(log[p])
    BY <2>1
  <2> QED
    BY <2>2, Growth
<1>2. CASE <<p, n>> \in failed
  BY <1>2, Growth DEF Accounted
<1>3. CASE <<p, n>> \notin failed
  <2> DEFINE e == log[p][n + 1]
             s == <<Tenant[e], Topic[p]>>
  <2>1. e \in Envelopes /\ inbox[EventId[e]] # NoRow /\ watermark[s] >= n
    BY <1>3 DEF Accounted
  <2>2. EventId[e] \in Ids /\ s \in Tenants \X Topics
    BY <2>1
  <2>3. inbox'[EventId[e]] # NoRow
    BY <2>1, <2>2, Growth
  <2>4. watermark'[s] >= n
    <3>1. watermark[s] <= watermark'[s]
      BY <2>2, Growth
    <3>2. watermark[s] \in Int /\ watermark'[s] \in Int
      BY <2>2, NextType DEF TypeOK, TablesOK
    <3> QED
      BY <2>1, <3>1, <3>2
  <2> QED
    BY <1>1, <2>1, <2>3, <2>4 DEF Accounted
<1> QED
  BY <1>2, <1>3

LEMMA NextOffsets == TypeOK /\ ClaimInv /\ OffsetInv /\ [Next]_vars => OffsetInv'
<1> SUFFICES ASSUME TypeOK, ClaimInv, OffsetInv, [Next]_vars
             PROVE  OffsetInv'
    OBVIOUS
<1> USE ConstantsAssumption
<1>1. TypeOK'
  BY NextType
<1>2. \A p \in Partitions :
         /\ Len(log[p]) \in Nat /\ Len(log'[p]) \in Nat /\ Len(log[p]) <= Len(log'[p])
         /\ committed[p] \in Nat /\ committed'[p] \in Nat
  BY <1>1, Growth DEF TypeOK, KafkaOK
<1>3. \A w \in Workers, p \in Partitions :
         position[w][p] \in Nat /\ handled[w][p] \in Nat
  BY DEF TypeOK, WorkersOK
\* What the invariant says of one partition, and of one partition of a worker.
<1>a. \A p \in Partitions :
         committed[p] <= Len(log[p]) /\ \A n \in 0 .. committed[p] - 1 : Accounted(p, n)
  BY DEF OffsetInv, CommittedIsAccounted
<1>b. \A w \in Workers, p \in Partitions :
         handled[w][p] <= position[w][p] /\ position[w][p] <= Len(log[p])
  BY DEF OffsetInv, BatchInv
<1>c. \A w \in Workers, p \in Partitions :
         \A n \in 0 .. handled[w][p] - 1 : Accounted(p, n)
  BY DEF OffsetInv, BatchInv
\* Records dealt with before the step, below an offset the invariant covers.
<1>4. ASSUME NEW p \in Partitions, NEW k \in Nat, k <= Len(log[p]),
             \A n \in 0 .. k - 1 : Accounted(p, n)
      PROVE  k <= Len(log'[p]) /\ \A n \in 0 .. k - 1 : Accounted(p, n)'
  <2>1. ASSUME NEW n \in 0 .. k - 1
        PROVE  Accounted(p, n)'
    <3>1. n \in Nat /\ n < Len(log[p])
      BY <1>2, <1>4
    <3> QED
      BY <1>4, <3>1, AccountedStays
  <2> QED
    BY <1>2, <1>4, <2>1
<1>5. CommittedIsAccounted'
  <2>1. ASSUME NEW p \in Partitions
        PROVE  /\ committed[p] <= Len(log'[p])
               /\ \A n \in 0 .. committed[p] - 1 : Accounted(p, n)'
    BY <1>2, <1>4, <1>a
  <2>2. ASSUME NEW w \in Workers, Commit(w), NEW p \in Partitions, owner[p] = w
        PROVE  /\ committed'[p] <= Len(log'[p])
               /\ \A n \in 0 .. committed'[p] - 1 : Accounted(p, n)'
    <3>1. committed'[p] = position[w][p]
      BY <2>2 DEF Commit
    <3>2. position[w][p] = handled[w][p]
      BY <2>2, <1>3, <1>b DEF Commit, BatchDone, Pending
    <3>3. /\ handled[w][p] <= Len(log'[p])
          /\ \A n \in 0 .. handled[w][p] - 1 : Accounted(p, n)'
      BY <1>2, <1>3, <1>4, <1>b, <1>c, <3>2
    <3> QED
      BY <3>1, <3>2, <3>3
  <2>3. \/ committed' = committed
        \/ \E w \in Workers : Commit(w)
    BY DEF Next, Environment, Loop, Handle, Produce, SeedRawEvent, Rebalance, Join, Poll,
           TakeEnvelope, TakePoison, SkipCommit, CommitFails, Restart,
           WriteInboxRow, WriteRawEvent, MarkEventDuplicate, WriteDomainRow,
           WriteRiskAlert, WriteMetricHourly, WriteMetricDaily, MarkEventProcessed,
           UpdateWatermark, CountProcessed, Fail, Crash, vars, kafka
  <2>4. ASSUME NEW w \in Workers, Commit(w), NEW p \in Partitions, owner[p] # w
        PROVE  committed'[p] = committed[p]
    BY <2>4 DEF Commit
  <2>5. ASSUME NEW p \in Partitions
        PROVE  /\ committed'[p] <= Len(log'[p])
               /\ \A n \in 0 .. committed'[p] - 1 : Accounted(p, n)'
    <3>1. CASE committed'[p] = committed[p]
      BY <2>1, <3>1
    <3>2. CASE \E w \in Workers : Commit(w) /\ owner[p] = w
      BY <2>2, <3>2
    <3> QED
      BY <2>3, <2>4, <3>1, <3>2
  <2> QED
    BY <2>5 DEF CommittedIsAccounted
<1>6. FenceInv'
  <2> SUFFICES ASSUME NEW w \in Workers, NEW p \in Partitions, member'[w], owner'[p] = w
               PROVE  committed'[p] <= position'[w][p]
    BY DEF FenceInv
  <2>1. ASSUME member[w], owner[p] = w
        PROVE  committed[p] <= position[w][p]
    BY <2>1 DEF OffsetInv, FenceInv
  <2>2. CASE Environment
    <3>1. UNCHANGED <<committed, position>>
      BY <2>2 DEF Environment, Produce, SeedRawEvent, Rebalance, consumer, kafka
    <3>2. ~Rebalance
      BY DEF Rebalance
    <3>3. UNCHANGED <<owner, member>>
      BY <2>2, <3>2 DEF Environment, Produce, SeedRawEvent, consumer, kafka
    <3> QED
      BY <2>1, <3>1, <3>3
  <2>3. ASSUME NEW v \in Workers, Join(v)
        PROVE  committed'[p] <= position'[w][p]
    BY <2>1, <2>3, <1>2 DEF Join, kafka, TypeOK, WorkersOK
  <2>4. ASSUME NEW v \in Workers, Poll(v)
        PROVE  committed'[p] <= position'[w][p]
    <3>1. PICK upto \in [Partitions -> 0 .. MaxLog] :
             /\ \A q \in Partitions : position[v][q] <= upto[q]
             /\ position' = [position EXCEPT ![v] = upto]
      BY <2>4 DEF Poll
    <3>2. committed'[p] = committed[p] /\ owner' = owner /\ member' = member
      BY <2>4 DEF Poll, kafka
    <3>3. position'[w][p] >= position[w][p]
      BY <3>1, <1>3 DEF TypeOK, WorkersOK
    <3>4. position'[w][p] \in Nat
      BY <1>1 DEF TypeOK, WorkersOK
    <3> QED
      BY <2>1, <3>2, <3>3, <3>4, <1>2, <1>3
  <2>5. ASSUME NEW v \in Workers, Commit(v)
        PROVE  committed'[p] <= position'[w][p]
    <3>1. UNCHANGED <<owner, member, position>>
      BY <2>5 DEF Commit, consumer
    <3>2. committed'[p] = IF owner[p] = v THEN position[v][p] ELSE committed[p]
      BY <2>5 DEF Commit
    <3> QED
      BY <2>1, <3>1, <3>2, <1>3
  <2>6. ASSUME NEW v \in Workers, Crash(v)
        PROVE  committed'[p] <= position'[w][p]
    <3>1. /\ v # w
          /\ UNCHANGED <<owner, committed>>
          /\ member' = [member EXCEPT ![v] = FALSE]
          /\ position'[w] = position[w]
      BY <2>6 DEF Crash, kafka, TypeOK, WorkersOK
    <3> QED
      BY <2>1, <3>1
  <2>7. CASE UNCHANGED <<committed, owner, member, position>>
    BY <2>1, <2>7
  <2>8. ASSUME NEW v \in Workers,
               \/ Handle(v) \/ UpdateWatermark(v) \/ CountProcessed(v) \/ SkipCommit(v)
               \/ CommitFails(v) \/ Restart(v) \/ Fail(v)
               \/ \E q \in Partitions : TakeEnvelope(v, q) \/ TakePoison(v, q)
        PROVE  UNCHANGED <<committed, owner, member, position>>
    BY <2>8 DEF Handle, UpdateWatermark, CountProcessed, SkipCommit, CommitFails, Restart,
                Fail, TakeEnvelope, TakePoison, WriteInboxRow, WriteRawEvent,
                MarkEventDuplicate, WriteDomainRow, WriteRiskAlert, WriteMetricHourly,
                WriteMetricDaily, MarkEventProcessed, kafka, consumer
  <2> QED
    BY <2>2, <2>3, <2>4, <2>5, <2>6, <2>7, <2>8 DEF Next, Loop, vars, kafka, consumer
<1>7. BatchInv'
  <2> SUFFICES ASSUME NEW w \in Workers
               PROVE  /\ \A p \in Partitions :
                            /\ handled'[w][p] <= position'[w][p]
                            /\ position'[w][p] <= Len(log'[p])
                            /\ \A n \in 0 .. handled'[w][p] - 1 : Accounted(p, n)'
                      /\ pc'[w] \in RecordSteps =>
                            /\ Pending(w, cur[w])'
                            /\ log'[cur'[w]][handled'[w][cur'[w]] + 1] = rec'[w]
                      /\ pc'[w] \in RecordSteps \ {"inbox"} => inbox'[EventId[rec'[w]]] # NoRow
                      /\ pc'[w] = "count" =>
                            watermark'[<<Tenant[rec'[w]], Topic[cur'[w]]>>] >= handled'[w][cur'[w]]
    BY DEF BatchInv
  <2> DEFINE Same == /\ handled'[w] = handled[w] /\ position'[w] = position[w]
                     /\ cur'[w] = cur[w] /\ rec'[w] = rec[w]
  \* The records gone through stay accounted for.
  <2>1. \A p \in Partitions :
           /\ handled[w][p] <= position[w][p]
           /\ position[w][p] <= Len(log'[p])
           /\ \A n \in 0 .. handled[w][p] - 1 : Accounted(p, n)'
    <3> TAKE p \in Partitions
    <3>1. PICK h \in Nat, k \in Nat, l \in Nat :
             h = handled[w][p] /\ k = position[w][p] /\ l = Len(log[p])
      BY <1>2, <1>3
    <3>2. h <= k /\ k <= l
      BY <1>b, <3>1
    <3>3. h <= Len(log[p])
      BY <3>1, <3>2
    <3>4. \A n \in 0 .. h - 1 : Accounted(p, n)
      BY <1>c, <3>1
    <3>5. \A n \in 0 .. h - 1 : Accounted(p, n)'
      BY <1>4, <3>3, <3>4
    <3>6. k <= Len(log'[p])
      BY <1>2, <3>1, <3>2
    <3> QED
      BY <1>b, <3>1, <3>5, <3>6
  \* What a record in hand means, whatever others do in this step.
  <2>2. ASSUME pc[w] \in RecordSteps, Same
        PROVE  /\ Pending(w, cur[w])'
               /\ log'[cur'[w]][handled'[w][cur'[w]] + 1] = rec'[w]
    <3> DEFINE p == cur[w]
               n == handled[w][p]
    <3>1. p \in Partitions
      BY DEF TypeOK, WorkersOK
    <3>2. n \in Nat /\ n < position[w][p] /\ log[p][n + 1] = rec[w]
      BY <2>2, <3>1, <1>3 DEF OffsetInv, BatchInv, Pending
    <3>3. n + 1 \in 1 .. Len(log[p])
      BY <3>1, <3>2, <1>2, <1>3, <1>b
    <3>4. log'[p][n + 1] = rec[w]
      BY <3>1, <3>2, <3>3, Growth
    <3> QED
      BY <2>2, <3>2, <3>4 DEF Pending
  <2>3. ASSUME pc[w] \in RecordSteps \ {"inbox"}, Same
        PROVE  inbox'[EventId[rec'[w]]] # NoRow
    <3>1. rec[w] \in Envelopes
      BY <2>3 DEF TypeOK, WorkersOK
    <3> QED
      BY <2>3, <3>1, Growth DEF OffsetInv, BatchInv
  <2>4. ASSUME pc[w] = "count", Same
        PROVE  watermark'[<<Tenant[rec'[w]], Topic[cur'[w]]>>] >= handled'[w][cur'[w]]
    <3> DEFINE s == <<Tenant[rec[w]], Topic[cur[w]]>>
    <3>1. rec[w] \in Envelopes /\ cur[w] \in Partitions
      BY <2>4 DEF TypeOK, WorkersOK, RecordSteps
    <3>2. s \in Tenants \X Topics
      BY <3>1
    <3>3. watermark[s] >= handled[w][cur[w]]
      BY <2>4 DEF OffsetInv, BatchInv
    <3>4. watermark[s] \in Int /\ watermark'[s] \in Int /\ handled[w][cur[w]] \in Nat
      BY <1>1, <1>3, <3>1, <3>2 DEF TypeOK, TablesOK
    <3>5. watermark[s] <= watermark'[s]
      BY <3>2, Growth
    <3> HIDE DEF s
    <3>6. watermark'[s] >= handled[w][cur[w]]
      BY <3>3, <3>4, <3>5
    <3> QED
      BY <2>4, <3>6 DEF s
  \* A step of which w takes no part, or that hands it no next call.
  <2>5. CASE Same /\ (pc'[w] = pc[w] \/ pc'[w] \notin RecordSteps)
    BY <2>1, <2>2, <2>3, <2>4, <2>5 DEF RecordSteps
  <2>6. CASE UNCHANGED <<handled, position, cur, rec, pc>>
    BY <2>5, <2>6
  <2>7. CASE Environment
    BY <2>6, <2>7 DEF Environment, Produce, SeedRawEvent, Rebalance, consumer, loop
  <2>8. ASSUME NEW v \in Workers, v # w, Loop(v) \/ Fail(v) \/ Crash(v)
        PROVE  Same /\ pc'[w] = pc[w]
    <3>1. /\ handled'[w] = handled[w] /\ position'[w] = position[w]
      BY <2>8 DEF Loop, Handle, Join, Poll,
           TakeEnvelope, TakePoison, SkipCommit, Commit, CommitFails, Restart, Skip,
           WriteInboxRow, WriteRawEvent, MarkEventDuplicate, WriteDomainRow,
           WriteRiskAlert, WriteMetricHourly, WriteMetricDaily, MarkEventProcessed,
           UpdateWatermark, CountProcessed, Fail, Crash, consumer, loop, TypeOK, WorkersOK
    <3>2. /\ cur'[w] = cur[w] /\ rec'[w] = rec[w]
      BY <2>8 DEF Loop, Handle, Join, Poll,
           TakeEnvelope, TakePoison, SkipCommit, Commit, CommitFails, Restart,
           WriteInboxRow, WriteRawEvent, MarkEventDuplicate, WriteDomainRow,
           WriteRiskAlert, WriteMetricHourly, WriteMetricDaily, MarkEventProcessed,
           UpdateWatermark, CountProcessed, Fail, Crash, consumer, loop, TypeOK, WorkersOK
    <3>3. pc'[w] = pc[w]
      BY <2>8 DEF Loop, Handle, Join, Poll, Call, Goto,
           TakeEnvelope, TakePoison, SkipCommit, Commit, CommitFails, Restart,
           WriteInboxRow, WriteRawEvent, MarkEventDuplicate, WriteDomainRow,
           WriteRiskAlert, WriteMetricHourly, WriteMetricDaily, MarkEventProcessed,
           UpdateWatermark, CountProcessed, Fail, Crash, consumer, loop, TypeOK, WorkersOK
    <3> QED
      BY <3>1, <3>2, <3>3
  <2>9. CASE Join(w)
    <3>1. /\ handled'[w] = committed /\ position'[w] = committed
          /\ pc'[w] \notin RecordSteps
      BY <2>9 DEF Join, RecordSteps, TypeOK, WorkersOK
    <3>2. \A p \in Partitions :
             /\ committed[p] <= Len(log'[p])
             /\ \A n \in 0 .. committed[p] - 1 : Accounted(p, n)'
      BY <1>2, <1>4, <1>a
    <3> QED
      BY <1>2, <3>1, <3>2 DEF RecordSteps
  <2>10. CASE Poll(w)
    <3>1. PICK upto \in [Partitions -> 0 .. MaxLog] :
             /\ \A q \in Partitions : position[w][q] <= upto[q] /\ upto[q] <= Len(log[q])
             /\ position' = [position EXCEPT ![w] = upto]
      BY <2>10 DEF Poll
    <3>2. position'[w] = upto /\ handled' = handled /\ log' = log /\ pc'[w] = "next"
      BY <2>10, <3>1 DEF Poll, Call, Goto, kafka, TypeOK, WorkersOK
    <3>3. ASSUME NEW q \in Partitions
          PROVE  handled[w][q] <= upto[q] /\ upto[q] <= Len(log[q])
      <4>1. /\ handled[w][q] \in Nat /\ position[w][q] \in Nat /\ upto[q] \in Nat
        BY <1>3
      <4>2. handled[w][q] <= position[w][q] /\ position[w][q] <= upto[q]
        BY <3>1, <1>b
      <4>3. upto[q] <= Len(log[q])
        BY <3>1
      <4> QED
        BY <4>1, <4>2, <4>3
    <3> QED
      BY <2>1, <3>2, <3>3 DEF RecordSteps
  <2>11. CASE \E p \in Partitions : TakeEnvelope(w, p)
    <3>1. PICK p \in Partitions : TakeEnvelope(w, p)
      BY <2>11
    <3>2. /\ pc'[w] = "inbox" /\ cur'[w] = p
          /\ rec'[w] = log[p][handled[w][p] + 1]
          /\ UNCHANGED <<log, handled, position>>
      BY <3>1 DEF TakeEnvelope, Call, Goto, kafka, TypeOK, WorkersOK
    <3>3. Pending(w, p)
      BY <3>1 DEF TakeEnvelope, IsNext
    <3> QED
      BY <2>1, <3>2, <3>3 DEF Pending
  \* A record passed over: its offset n joins those gone through.
  <2>12. ASSUME NEW p \in Partitions, NEW n \in Nat, n = handled[w][p],
                handled' = [handled EXCEPT ![w][p] = @ + 1],
                position'[w] = position[w],
                Pending(w, p),
                Accounted(p, n)'
         PROVE  \A q \in Partitions :
                   /\ handled'[w][q] <= position'[w][q]
                   /\ position'[w][q] <= Len(log'[q])
                   /\ \A m \in 0 .. handled'[w][q] - 1 : Accounted(q, m)'
    <3> TAKE q \in Partitions
    <3>1. CASE q # p
      <4>1. handled'[w][q] = handled[w][q]
        BY <2>12, <3>1 DEF TypeOK, WorkersOK
      <4> QED
        BY <2>1, <2>12, <4>1
    <3>2. CASE q = p
      <4>1. handled'[w][p] = n + 1
        BY <2>12 DEF TypeOK, WorkersOK
      <4>2. handled'[w][p] <= position[w][p]
        BY <2>12, <1>3, <4>1 DEF Pending
      <4>3. \A m \in 0 .. n - 1 : Accounted(p, m)'
        BY <2>1, <2>12
      <4>4. \A m \in 0 .. handled'[w][p] - 1 : Accounted(p, m)'
        <5>1. \A m \in 0 .. handled'[w][p] - 1 : m \in 0 .. n - 1 \/ m = n
          BY <4>1
        <5> QED
          BY <2>12, <4>3, <5>1
      <4> QED
        BY <2>1, <2>12, <3>2, <4>2, <4>4
    <3> QED
      BY <3>1, <3>2
  <2>13. CASE \E p \in Partitions : TakePoison(w, p)
    <3>1. PICK p \in Partitions : TakePoison(w, p)
      BY <2>13
    <3>n. PICK n \in Nat : n = handled[w][p]
      BY <1>3
    <3>2. /\ pc'[w] = "next" /\ handled' = [handled EXCEPT ![w][p] = @ + 1]
          /\ position'[w] = position[w] /\ Pending(w, p)
          /\ <<p, n>> \in failed'
      BY <3>1, <3>n DEF TakePoison, Call, Goto, Skip, IsNext, TypeOK, WorkersOK
    <3>3. Accounted(p, n)'
      BY <3>2 DEF Accounted
    <3> QED
      BY <2>12, <3>n, <3>2, <3>3 DEF RecordSteps
  <2>14. CASE SkipCommit(w) \/ Commit(w) \/ CommitFails(w) \/ Restart(w)
    <3>1. Same /\ pc'[w] \notin RecordSteps
      BY <2>14 DEF SkipCommit, Commit, CommitFails, Restart, Call, Goto, consumer, loop,
                   RecordSteps, TypeOK, WorkersOK
    <3> QED
      BY <2>5, <3>1
  <2>15. CASE WriteInboxRow(w)
    <3>1. /\ Same /\ pc[w] = "inbox" /\ pc'[w] \in {"raw", "watermark"}
          /\ rec[w] \in Envelopes /\ EventId[rec[w]] \in Ids
          /\ inbox' = [inbox EXCEPT ![EventId[rec[w]]] = rec[w]] \/ inbox[EventId[rec[w]]] # NoRow
      BY <2>15 DEF WriteInboxRow, Goto, consumer, loop, RecordSteps, TypeOK, WorkersOK
    <3>2. inbox'[EventId[rec[w]]] # NoRow
      BY <3>1, Growth DEF TypeOK, TablesOK
    <3> QED
      BY <2>1, <2>2, <3>1, <3>2 DEF RecordSteps
  <2>16. CASE Handle(w) /\ ~WriteInboxRow(w)
    <3>1. Same /\ pc[w] \in RecordSteps \ {"inbox"} /\ pc'[w] # "count"
      BY <2>16 DEF Handle, WriteRawEvent, MarkEventDuplicate, WriteDomainRow,
           WriteRiskAlert, WriteMetricHourly, WriteMetricDaily, MarkEventProcessed,
           Call, Goto, consumer, loop, RecordSteps, TypeOK, WorkersOK
    <3> QED
      BY <2>1, <2>2, <2>3, <3>1
  <2>17. CASE UpdateWatermark(w)
    <3> DEFINE s == <<Tenant[rec[w]], Topic[cur[w]]>>
               n == handled[w][cur[w]]
    <3>1. Same /\ pc[w] = "watermark" /\ pc'[w] = "count"
      BY <2>17 DEF UpdateWatermark, Call, Goto, consumer, loop, TypeOK, WorkersOK
    <3>2. rec[w] \in Envelopes /\ cur[w] \in Partitions
      BY <3>1 DEF TypeOK, WorkersOK, RecordSteps
    <3>3. s \in Tenants \X Topics /\ n \in Nat
      BY <1>3, <3>2
    <3>4. watermark' = [watermark EXCEPT ![s] = Greatest(@, n)]
      BY <2>17 DEF UpdateWatermark
    <3>5. watermark[s] \in Int
      BY <3>3 DEF TypeOK, TablesOK
    <3> HIDE DEF s, n
    <3>6. watermark'[s] >= n
      BY <3>3, <3>4, <3>5 DEF Greatest, TypeOK, TablesOK
    <3> QED
      BY <2>1, <2>2, <2>3, <3>1, <3>6 DEF s, n, RecordSteps
  <2>18. CASE CountProcessed(w)
    <3>a. cur[w] \in Partitions
      BY DEF TypeOK, WorkersOK
    <3>b. PICK p \in Partitions, n \in Nat, e \in Envelopes :
             p = cur[w] /\ n = handled[w][p] /\ e = rec[w]
      BY <2>18, <3>a, <1>3 DEF CountProcessed, Call, TypeOK, WorkersOK, RecordSteps
    <3>1. /\ pc[w] = "count" /\ pc'[w] = "next"
          /\ handled' = [handled EXCEPT ![w][p] = @ + 1]
          /\ UNCHANGED <<position, log, inbox, watermark>>
      BY <2>18, <3>b DEF CountProcessed, Call, Goto, Skip, consumer, kafka, db, claims,
                         TypeOK, WorkersOK
    <3>2. /\ Pending(w, p) /\ log[p][n + 1] = e /\ inbox[EventId[e]] # NoRow
          /\ watermark[<<Tenant[e], Topic[p]>>] >= n
      BY <3>1, <3>b DEF OffsetInv, BatchInv, RecordSteps
    <3>3. Accounted(p, n)'
      BY <3>1, <3>2 DEF Accounted
    <3> QED
      BY <2>12, <3>b, <3>1, <3>2, <3>3 DEF RecordSteps
  <2>19. CASE Fail(w)
    <3>a. cur[w] \in Partitions
      BY DEF TypeOK, WorkersOK
    <3>b. PICK p \in Partitions, n \in Nat : p = cur[w] /\ n = handled[w][p]
      BY <3>a, <1>3
    <3>1. /\ pc[w] \in RecordSteps /\ pc'[w] = "next"
          /\ handled' = [handled EXCEPT ![w][p] = @ + 1]
          /\ UNCHANGED position
          /\ <<p, n>> \in failed'
      BY <2>19, <3>b DEF Fail, Goto, Skip, consumer, TypeOK, WorkersOK
    <3>2. Pending(w, p)
      BY <3>1, <3>b DEF OffsetInv, BatchInv
    <3>3. Accounted(p, n)'
      BY <3>1 DEF Accounted
    <3> QED
      BY <2>12, <3>b, <3>1, <3>2, <3>3 DEF RecordSteps
  <2>20. CASE Crash(w)
    <3>1. /\ handled'[w] = [p \in Partitions |-> 0] /\ position'[w] = [p \in Partitions |-> 0]
          /\ pc'[w] = "down"
      BY <2>20 DEF Crash, Goto, TypeOK, WorkersOK
    <3> QED
      BY <1>2, <3>1 DEF RecordSteps
  <2>21. CASE UNCHANGED vars
    BY <2>6, <2>21 DEF vars, consumer, loop
  <2>22. CASE \E v \in Workers : v # w /\ (Loop(v) \/ Fail(v) \/ Crash(v))
    BY <2>5, <2>8, <2>22
  <2>23. CASE Loop(w)
    BY <2>9, <2>10, <2>11, <2>13, <2>14, <2>15, <2>16, <2>17, <2>18, <2>23 DEF Loop
  <2> QED
    BY <2>7, <2>19, <2>20, <2>21, <2>22, <2>23 DEF Next
<1> QED
  BY <1>5, <1>6, <1>7 DEF OffsetInv

\* The group's offset never passes a record nobody has dealt with.
THEOREM NothingPassedOver == Spec => []CommittedIsAccounted
<1>1. OffsetInv => CommittedIsAccounted
  BY DEF OffsetInv
<1> QED
  BY <1>1, InitType, NextType, InitClaim, NextClaim, InitOffsets, NextOffsets, PTL DEF Spec

\* A worker fenced out of the group cannot move its offset back.
THEOREM OffsetsOnlyAdvance == Spec => CommittedNeverRetreats
<1>1. TypeOK /\ OffsetInv /\ [Next]_vars =>
         [\A p \in Partitions : committed'[p] >= committed[p]]_vars
  <2> SUFFICES ASSUME TypeOK, OffsetInv, [Next]_vars, NEW p \in Partitions
               PROVE  committed'[p] >= committed[p]
    OBVIOUS
  <2>1. committed[p] \in Nat
    BY DEF TypeOK, KafkaOK
  <2>2. ASSUME NEW w \in Workers, Commit(w)
        PROVE  committed'[p] >= committed[p]
    <3>1. owner[p] = w => committed[p] <= position[w][p] /\ position[w][p] \in Nat
      BY <2>2 DEF Commit, OffsetInv, FenceInv, TypeOK, WorkersOK
    <3> QED
      BY <2>1, <2>2, <3>1 DEF Commit
  <2>3. committed' = committed \/ \E w \in Workers : Commit(w)
    BY DEF Next, Environment, Loop, Handle, Produce, SeedRawEvent, Rebalance, Join, Poll,
           TakeEnvelope, TakePoison, SkipCommit, CommitFails, Restart,
           WriteInboxRow, WriteRawEvent, MarkEventDuplicate, WriteDomainRow,
           WriteRiskAlert, WriteMetricHourly, WriteMetricDaily, MarkEventProcessed,
           UpdateWatermark, CountProcessed, Fail, Crash, vars, kafka
  <2> QED
    BY <2>1, <2>2, <2>3
<1> QED
  BY <1>1, InitType, NextType, InitClaim, NextClaim, InitOffsets, NextOffsets, PTL
     DEF Spec, CommittedNeverRetreats

-------------------------------------------------------------------------------
(* Without failed calls, with one reader of each partition and one         *)
(* partition for each row, the writes to a row are in the order of the     *)
(* partition.                                                              *)

ReadInOrder ==
    /\ MaxFailures = 0
    /\ MaxRebalances = 0 \/ \A v, w \in Workers : v = w
    /\ \A e \in Envelopes : Kind[e] \in UpsertKinds
    /\ \A d, e \in Envelopes : RowKey[d] = RowKey[e] => \A p \in Routes[d], q \in Routes[e] : p = q

\* Only poison is passed over, records are where they are routed, and of the
\* workers only the owner of a partition has records of it.
ReadInv ==
    /\ budget["failure"] = 0
    /\ \A f \in failed : f[2] < Len(log[f[1]]) /\ log[f[1]][f[2] + 1] \notin Envelopes
    /\ \A p \in Partitions : \A m \in 1 .. Len(log[p]) : log[p][m] \in Envelopes => p \in Routes[log[p][m]]
    /\ \/ \A v, w \in Workers : v = w
       \/ budget["rebalance"] = 0 /\ \A w \in Workers, p \in Partitions : Pending(w, p) => owner[p] = w

\* An envelope is claimed where it is first in its partition, when everything
\* before it is settled.
Settled(p, m) == log[p][m] \in Envelopes => inbox[EventId[log[p][m]]] # NoRow

ClaimedInOrder ==
    \A e \in Envelopes :
       inbox[EventId[e]] = e =>
          \E p \in Partitions : \E m \in 1 .. Len(log[p]) :
             log[p][m] = e /\ \A n \in 1 .. m - 1 : Settled(p, n)

\* The event in hand is new, and what was claimed for its row comes before it.
HandIsLatest(w) ==
    LET e == rec[w]
        records == log[cur[w]]
        n == handled[w][cur[w]]
    IN /\ \A m \in 1 .. n : records[m] # e
       /\ \A d \in Envelopes :
             d # e /\ RowKey[d] = RowKey[e] /\ inbox[EventId[d]] = d => \E m \in 1 .. n : records[m] = d

AfterRow == {"alert", "hourly", "daily", "mark"}

WriteInv ==
    /\ ClaimedInOrder
    /\ \A w \in Workers : pc[w] \in ClaimSteps => HandIsLatest(w)
    /\ \A w \in Workers : pc[w] \in AfterRow => rows[RowKey[rec[w]]] = rec[w]
    /\ RowHoldsLatest

LEMMA InitReads == ReadInOrder /\ Init => ReadInv /\ WriteInv
<1> SUFFICES ASSUME ReadInOrder, Init
             PROVE  ReadInv /\ WriteInv
    OBVIOUS
<1> USE ConstantsAssumption
<1>1. budget["failure"] = MaxFailures /\ budget["rebalance"] = MaxRebalances
  BY DEF Init, Faults
<1>2. ReadInv
  <2>1. \A p \in Partitions : Len(log[p]) = 0
    BY DEF Init
  <2>2. \A w \in Workers, p \in Partitions : ~Pending(w, p)
    BY DEF Init, Pending
  <2>3. failed = {}
    BY DEF Init
  <2> QED
    BY <1>1, <2>1, <2>2, <2>3 DEF ReadInOrder, ReadInv
<1>3. \A e \in Envelopes : inbox[EventId[e]] # e /\ hourly[e] = 0
  BY DEF Init
<1>4. WriteInv
  BY <1>3 DEF Init, WriteInv, ClaimedInOrder, RowHoldsLatest, ClaimSteps, RecordSteps, AfterRow
<1> QED
  BY <1>2, <1>4

\* What a step does to the logs, one partition at a time.
LEMMA LogsGrow ==
  ASSUME TypeOK, [Next]_vars, NEW p \in Partitions
  PROVE  /\ Len(log[p]) \in Nat /\ Len(log'[p]) \in Nat /\ Len(log[p]) <= Len(log'[p])
         /\ \A m \in 1 .. Len(log[p]) : log'[p][m] = log[p][m]
         /\ DOMAIN log[p] = 1 .. Len(log[p]) /\ DOMAIN log'[p] = 1 .. Len(log'[p])
<1>1. TypeOK'
  BY NextType
<1>2. log[p] \in Seq(Envelopes \cup {Poison}) /\ log'[p] \in Seq(Envelopes \cup {Poison})
  BY <1>1 DEF TypeOK, KafkaOK
<1> QED
  BY <1>2, Growth

LEMMA NextReads == TypeOK /\ OffsetInv /\ ReadInOrder /\ ReadInv /\ [Next]_vars => ReadInv'
<1> SUFFICES ASSUME TypeOK, OffsetInv, ReadInOrder, ReadInv, [Next]_vars
             PROVE  ReadInv'
    OBVIOUS
<1> USE ConstantsAssumption
<1>1. budget["failure"] = 0 /\ \A w \in Workers : ~Fail(w)
  BY DEF ReadInv, Fail, Spend
<1>2. budget' = budget \/ \E f \in {"crash", "rebalance", "seed"} : Spend(f)
  BY <1>1 DEF Next, Environment, Loop, Handle, Produce, SeedRawEvent, Rebalance, Join, Poll,
         TakeEnvelope, TakePoison, SkipCommit, Commit, CommitFails, Restart,
         WriteInboxRow, WriteRawEvent, MarkEventDuplicate, WriteDomainRow,
         WriteRiskAlert, WriteMetricHourly, WriteMetricDaily, MarkEventProcessed,
         UpdateWatermark, CountProcessed, Crash, vars
<1>3. budget'["failure"] = 0 /\ (budget["rebalance"] = 0 => budget'["rebalance"] = 0)
  <2>1. budget \in [Faults -> Nat]
    BY DEF TypeOK
  <2> QED
    BY <1>1, <1>2, <2>1 DEF Spend, Faults
<1>4. ASSUME NEW f \in failed'
      PROVE  f[2] < Len(log'[f[1]]) /\ log'[f[1]][f[2] + 1] \notin Envelopes
  <2>1. CASE f \in failed
    <3>1. f[1] \in Partitions /\ f[2] \in Nat /\ f[2] < Len(log[f[1]]) /\ log[f[1]][f[2] + 1] \notin Envelopes
      BY <2>1 DEF ReadInv, TypeOK, WorkersOK
    <3>2. f[2] + 1 \in 1 .. Len(log[f[1]]) /\ f[2] < Len(log'[f[1]])
      BY <3>1, LogsGrow
    <3> QED
      BY <3>1, <3>2, LogsGrow
  <2>2. ASSUME NEW w \in Workers, NEW p \in Partitions, TakePoison(w, p), f \notin failed
        PROVE  f[2] < Len(log'[f[1]]) /\ log'[f[1]][f[2] + 1] \notin Envelopes
    <3>1. /\ f = <<p, handled[w][p]>> /\ log' = log /\ Pending(w, p)
          /\ log[p][handled[w][p] + 1] \notin Envelopes
      BY <1>4, <2>2 DEF TakePoison, IsEnvelope, IsNext, kafka
    <3>2. handled[w][p] \in Nat /\ position[w][p] \in Nat /\ position[w][p] <= Len(log[p]) /\ Len(log[p]) \in Nat
      <4>1. Len(log[p]) \in Nat
        BY LogsGrow
      <4>2. position[w][p] <= Len(log[p])
        BY DEF OffsetInv, BatchInv
      <4> QED
        BY <4>1, <4>2 DEF TypeOK, WorkersOK
    <3> QED
      BY <3>1, <3>2 DEF Pending
  <2>3. failed' = failed \/ \E w \in Workers, p \in Partitions : TakePoison(w, p)
    BY <1>1 DEF Next, Environment, Loop, Handle, Produce, SeedRawEvent, Rebalance, Join, Poll,
           TakeEnvelope, SkipCommit, Commit, CommitFails, Restart,
           WriteInboxRow, WriteRawEvent, MarkEventDuplicate, WriteDomainRow,
           WriteRiskAlert, WriteMetricHourly, WriteMetricDaily, MarkEventProcessed,
           UpdateWatermark, CountProcessed, Crash, vars, loop
  <2> QED
    BY <1>4, <2>1, <2>2, <2>3
<1>5. ASSUME NEW p \in Partitions, NEW m \in 1 .. Len(log'[p]), log'[p][m] \in Envelopes
      PROVE  p \in Routes[log'[p][m]]
  <2>1. CASE m \in 1 .. Len(log[p])
    BY <1>5, <2>1, LogsGrow DEF ReadInv
  <2>2. CASE m \notin 1 .. Len(log[p])
    <3>1. PICK q \in Partitions, r \in Envelopes \cup {Poison} : Produce(q, r)
      BY <2>2 DEF Next, Environment, Loop, Handle, SeedRawEvent, Rebalance, Join, Poll,
           TakeEnvelope, TakePoison, SkipCommit, Commit, CommitFails, Restart,
           WriteInboxRow, WriteRawEvent, MarkEventDuplicate, WriteDomainRow,
           WriteRiskAlert, WriteMetricHourly, WriteMetricDaily, MarkEventProcessed,
           UpdateWatermark, CountProcessed, Fail, Crash, vars, kafka
    <3>2. p = q /\ log'[p] = Append(log[p], r) /\ log[p] \in Seq(Envelopes \cup {Poison})
      BY <2>2, <3>1 DEF Produce, TypeOK, KafkaOK
    <3>3. log'[p][m] = r
      BY <2>2, <3>2
    <3> QED
      BY <1>5, <3>1, <3>2, <3>3 DEF Produce
  <2> QED
    BY <2>1, <2>2
<1>6. CASE \A v, w \in Workers : v = w
  BY <1>3, <1>4, <1>5, <1>6 DEF ReadInv
<1>7. CASE budget["rebalance"] = 0 /\ \A w \in Workers, p \in Partitions : Pending(w, p) => owner[p] = w
  <2>1. owner' = owner
    <3>1. ~Rebalance
      BY <1>7 DEF Rebalance, Spend
    <3> QED
      BY <3>1 DEF Next, Environment, Loop, Handle, Produce, SeedRawEvent, Join, Poll,
           TakeEnvelope, TakePoison, SkipCommit, Commit, CommitFails, Restart,
           WriteInboxRow, WriteRawEvent, MarkEventDuplicate, WriteDomainRow,
           WriteRiskAlert, WriteMetricHourly, WriteMetricDaily, MarkEventProcessed,
           UpdateWatermark, CountProcessed, Fail, Crash, vars, kafka
  <2>2. ASSUME NEW w \in Workers, NEW p \in Partitions, Pending(w, p)'
        PROVE  owner[p] = w
    <3>1. /\ handled[w][p] \in Nat /\ position[w][p] \in Nat
      BY DEF TypeOK, WorkersOK
    <3>2. CASE UNCHANGED <<handled, position>>
      BY <1>7, <2>2, <3>2 DEF Pending
    <3>3. ASSUME NEW v \in Workers, Join(v)
          PROVE  Pending(w, p)
      <4>1. committed[p] \in Nat
        BY DEF TypeOK, KafkaOK
      <4>2. v = w => position'[w][p] = committed[p] /\ handled'[w][p] = committed[p]
        BY <3>3 DEF Join, TypeOK, WorkersOK
      <4>3. v # w => position'[w] = position[w] /\ handled'[w] = handled[w]
        BY <3>3 DEF Join, TypeOK, WorkersOK
      <4> QED
        BY <2>2, <4>1, <4>2, <4>3 DEF Pending
    <3>4. ASSUME NEW v \in Workers, Crash(v)
          PROVE  Pending(w, p)
      BY <2>2, <3>4 DEF Crash, Pending, TypeOK, WorkersOK
    <3>5. ASSUME NEW v \in Workers, position' = position,
                 \E q \in Partitions : Skip(v, q)
          PROVE  Pending(w, p)
      BY <2>2, <3>1, <3>5 DEF Skip, Pending, TypeOK, WorkersOK
    <3>6. ASSUME NEW v \in Workers, Poll(v)
          PROVE  Pending(w, p) \/ owner[p] = w
      <4>1. PICK upto \in [Partitions -> 0 .. MaxLog] :
               /\ \A q \in Partitions : owner[q] # v => upto[q] = position[v][q]
               /\ position' = [position EXCEPT ![v] = upto]
        BY <3>6 DEF Poll
      <4>2. handled' = handled
        BY <3>6 DEF Poll
      <4>3. v # w => position'[w] = position[w]
        BY <4>1 DEF TypeOK, WorkersOK
      <4>4. v = w => position'[w] = upto
        BY <4>1 DEF TypeOK, WorkersOK
      <4> QED
        BY <2>2, <4>1, <4>2, <4>3, <4>4 DEF Pending
    <3>7. ASSUME NEW v \in Workers,
                 CountProcessed(v) \/ \E q \in Partitions : TakePoison(v, q)
          PROVE  position' = position /\ \E q \in Partitions : Skip(v, q)
      BY <3>7 DEF CountProcessed, TakePoison, consumer, TypeOK, WorkersOK
    <3>8. ASSUME NEW v \in Workers,
                 \/ Handle(v) \/ UpdateWatermark(v) \/ SkipCommit(v) \/ Commit(v) \/ CommitFails(v) \/ Restart(v)
                 \/ \E q \in Partitions : TakeEnvelope(v, q)
          PROVE  UNCHANGED <<handled, position>>
      BY <3>8 DEF Handle, UpdateWatermark, SkipCommit, Commit, CommitFails, Restart, TakeEnvelope,
             WriteInboxRow, WriteRawEvent, MarkEventDuplicate, WriteDomainRow,
             WriteRiskAlert, WriteMetricHourly, WriteMetricDaily, MarkEventProcessed, consumer, loop
    <3>9. CASE Environment \/ UNCHANGED vars
      <4>1. UNCHANGED <<handled, position>>
        BY <3>9 DEF Environment, Produce, SeedRawEvent, Rebalance, vars, consumer, loop
      <4> QED
        BY <3>2, <4>1
    <3> QED
      BY <1>1, <1>7, <3>2, <3>3, <3>4, <3>5, <3>6, <3>7, <3>8, <3>9 DEF Next, Loop
  <2> QED
    BY <1>3, <1>4, <1>5, <1>7, <2>1, <2>2 DEF ReadInv
<1> QED
  BY <1>6, <1>7 DEF ReadInv

\* A worker gets a claim from its inbox insert only, and keeps its record until
\* it is done with it; it gets past the row by writing it.
LEMMA HandsMove ==
  ASSUME TypeOK, [Next]_vars, NEW v \in Workers, pc'[v] \in ClaimSteps
  PROVE  /\ rec'[v] = rec[v] /\ cur'[v] = cur[v] /\ handled'[v] = handled[v]
         /\ \/ WriteInboxRow(v) /\ inbox[EventId[rec[v]]] = NoRow /\ pc'[v] = "raw"
            \/ /\ pc[v] \in ClaimSteps
               /\ pc'[v] \in AfterRow => pc[v] \in AfterRow \/ WriteDomainRow(v)
               /\ pc[v] \in AfterRow => pc'[v] \in AfterRow
<1> DEFINE Kept == /\ rec'[v] = rec[v] /\ cur'[v] = cur[v] /\ handled'[v] = handled[v]
                   /\ \/ WriteInboxRow(v) /\ inbox[EventId[rec[v]]] = NoRow /\ pc'[v] = "raw"
                      \/ /\ pc[v] \in ClaimSteps
                         /\ pc'[v] \in AfterRow => pc[v] \in AfterRow \/ WriteDomainRow(v)
                         /\ pc[v] \in AfterRow => pc'[v] \in AfterRow
<1> USE DEF ClaimSteps, RecordSteps, AfterRow
<1>1. WorkersOK
  BY DEF TypeOK
<1>2. CASE Environment \/ UNCHANGED vars
  BY <1>2 DEF Environment, Produce, SeedRawEvent, Rebalance, vars, consumer, loop
<1>3. ASSUME NEW w \in Workers, Join(w) \/ Poll(w) \/ SkipCommit(w) \/ Commit(w) \/ CommitFails(w) \/ Restart(w)
      PROVE  Kept
  <2>1. UNCHANGED <<rec, cur>> /\ \A u \in Workers : u # w => pc'[u] = pc[u] /\ handled'[u] = handled[u]
    BY <1>1, <1>3 DEF Join, Poll, SkipCommit, Commit, CommitFails, Restart, Call, Goto, consumer, loop, WorkersOK
  <2>2. pc'[w] \notin ClaimSteps
    BY <1>1, <1>3 DEF Join, Poll, SkipCommit, Commit, CommitFails, Restart, Call, Goto, WorkersOK
  <2> QED
    BY <2>1, <2>2
<1>4. ASSUME NEW w \in Workers,
             \/ CountProcessed(w) \/ Fail(w) \/ Crash(w)
             \/ \E p \in Partitions : TakeEnvelope(w, p) \/ TakePoison(w, p)
      PROVE  Kept
  <2>1. \A u \in Workers : u # w => pc'[u] = pc[u] /\ handled'[u] = handled[u] /\ rec'[u] = rec[u] /\ cur'[u] = cur[u]
    BY <1>1, <1>4 DEF CountProcessed, Fail, Crash, TakeEnvelope, TakePoison, Skip, Call, Goto, consumer, WorkersOK
  <2>2. pc'[w] \notin ClaimSteps
    BY <1>1, <1>4 DEF CountProcessed, Fail, Crash, TakeEnvelope, TakePoison, Call, Goto, WorkersOK
  <2> QED
    BY <2>1, <2>2
<1>5. ASSUME NEW w \in Workers, Handle(w) \/ UpdateWatermark(w)
      PROVE  Kept
  <2>1. UNCHANGED <<rec, cur, handled>>
    BY <1>5 DEF Handle, UpdateWatermark, WriteInboxRow, WriteRawEvent, MarkEventDuplicate, WriteDomainRow,
           WriteRiskAlert, WriteMetricHourly, WriteMetricDaily, MarkEventProcessed, consumer, loop
  <2>2. \A u \in Workers : u # w => pc'[u] = pc[u]
    BY <1>1, <1>5 DEF Handle, UpdateWatermark, WriteInboxRow, WriteRawEvent, MarkEventDuplicate, WriteDomainRow,
           WriteRiskAlert, WriteMetricHourly, WriteMetricDaily, MarkEventProcessed, Call, Goto, WorkersOK
  <2>3. CASE WriteInboxRow(w)
    BY <1>1, <2>1, <2>2, <2>3 DEF WriteInboxRow, Goto, WorkersOK
  <2>4. CASE WriteRawEvent(w) \/ MarkEventDuplicate(w) \/ UpdateWatermark(w) \/ MarkEventProcessed(w)
    BY <1>1, <2>1, <2>2, <2>4
    DEF WriteRawEvent, MarkEventDuplicate, UpdateWatermark, MarkEventProcessed, Call, Goto, WorkersOK
  <2>5. CASE WriteDomainRow(w)
    <3>1. pc[w] = "domain" /\ pc'[w] \in AfterRow
      BY <1>1, <2>5 DEF WriteDomainRow, Call, Goto, WorkersOK
    <3> QED
      BY <2>1, <2>2, <2>5, <3>1
  <2>6. CASE WriteRiskAlert(w) \/ WriteMetricHourly(w) \/ WriteMetricDaily(w)
    BY <1>1, <2>1, <2>2, <2>6 DEF WriteRiskAlert, WriteMetricHourly, WriteMetricDaily, Call, Goto, WorkersOK
  <2> QED
    BY <1>5, <2>3, <2>4, <2>5, <2>6 DEF Handle
<1> QED
  BY <1>2, <1>3, <1>4, <1>5 DEF Next, Loop

\* Two workers never have records of one row in hand.
LEMMA RowsAreApart ==
  ASSUME TypeOK, OffsetInv, ReadInOrder, ReadInv,
         NEW v \in Workers, NEW w \in Workers, v # w,
         pc[v] \in RecordSteps, pc[w] \in RecordSteps
  PROVE  RowKey[rec[v]] # RowKey[rec[w]]
<1>1. ASSUME NEW u \in Workers, pc[u] \in RecordSteps
      PROVE  cur[u] \in Partitions /\ Pending(u, cur[u]) /\ rec[u] \in Envelopes /\ cur[u] \in Routes[rec[u]]
  <2>1. rec[u] \in Envelopes /\ cur[u] \in Partitions
    BY <1>1 DEF TypeOK, WorkersOK
  <2>2. Pending(u, cur[u]) /\ log[cur[u]][handled[u][cur[u]] + 1] = rec[u] /\ position[u][cur[u]] <= Len(log[cur[u]])
    BY <1>1, <2>1 DEF OffsetInv, BatchInv
  <2>3. handled[u][cur[u]] \in Nat /\ position[u][cur[u]] \in Nat /\ Len(log[cur[u]]) \in Nat
    BY <2>1 DEF TypeOK, WorkersOK, KafkaOK
  <2>4. handled[u][cur[u]] + 1 \in 1 .. Len(log[cur[u]])
    BY <2>2, <2>3 DEF Pending
  <2>5. cur[u] \in Routes[rec[u]]
    BY <2>1, <2>2, <2>4 DEF ReadInv
  <2> QED
    BY <2>1, <2>2, <2>5
<1>2. cur[v] # cur[w]
  BY <1>1 DEF ReadInv
<1> QED
  BY <1>1, <1>2 DEF ReadInOrder

\* What was settled, or preceded in a partition, stays so.
LEMMA SettledStays ==
  ASSUME TypeOK, [Next]_vars, NEW p \in Partitions, NEW m \in 1 .. Len(log[p]), Settled(p, m)
  PROVE  Settled(p, m)'
<1> USE ConstantsAssumption
<1>1. log'[p][m] = log[p][m]
  BY LogsGrow
<1>2. log[p][m] \in Envelopes => EventId[log[p][m]] \in Ids
  OBVIOUS
<1> QED
  BY <1>1, <1>2, Growth DEF Settled

LEMMA PrecedesStays ==
  ASSUME TypeOK, [Next]_vars, NEW d, NEW e, Precedes(d, e)
  PROVE  Precedes(d, e)'
<1>0. PICK p \in Partitions :
         \E m \in DOMAIN log[p] : log[p][m] = d /\ \A n \in DOMAIN log[p] : log[p][n] = e => m < n
  BY DEF Precedes
<1>1. PICK m \in DOMAIN log[p] : log[p][m] = d /\ \A n \in DOMAIN log[p] : log[p][n] = e => m < n
  BY <1>0
<1>2. /\ Len(log[p]) \in Nat /\ Len(log'[p]) \in Nat /\ Len(log[p]) <= Len(log'[p])
      /\ \A n \in 1 .. Len(log[p]) : log'[p][n] = log[p][n]
      /\ DOMAIN log[p] = 1 .. Len(log[p]) /\ DOMAIN log'[p] = 1 .. Len(log'[p])
  BY LogsGrow
<1>3. m \in DOMAIN log'[p] /\ log'[p][m] = d
  BY <1>1, <1>2
<1>4. ASSUME NEW n \in DOMAIN log'[p], log'[p][n] = e
      PROVE  m < n
  <2>1. CASE n \in 1 .. Len(log[p])
    BY <1>1, <1>2, <1>4, <2>1
  <2>2. CASE n \notin 1 .. Len(log[p])
    BY <1>1, <1>2, <1>4, <2>2
  <2> QED
    BY <2>1, <2>2
<1> QED
  BY <1>3, <1>4 DEF Precedes

\* At an insert into the inbox, everything before the record in hand is settled.
LEMMA AllBeforeIsSettled ==
  ASSUME TypeOK, OffsetInv, ReadInv, NEW w \in Workers, pc[w] \in RecordSteps
  PROVE  /\ rec[w] \in Envelopes /\ EventId[rec[w]] \in Ids /\ cur[w] \in Partitions
         /\ handled[w][cur[w]] \in Nat /\ handled[w][cur[w]] + 1 \in 1 .. Len(log[cur[w]])
         /\ log[cur[w]][handled[w][cur[w]] + 1] = rec[w]
         /\ \A m \in 1 .. handled[w][cur[w]] : Settled(cur[w], m)
<1> USE ConstantsAssumption
<1>1. rec[w] \in Envelopes /\ EventId[rec[w]] \in Ids /\ cur[w] \in Partitions
  BY DEF TypeOK, WorkersOK
<1>2. handled[w][cur[w]] \in Nat /\ position[w][cur[w]] \in Nat /\ Len(log[cur[w]]) \in Nat
  BY <1>1 DEF TypeOK, WorkersOK, KafkaOK
<1>3. /\ Pending(w, cur[w]) /\ position[w][cur[w]] <= Len(log[cur[w]])
      /\ log[cur[w]][handled[w][cur[w]] + 1] = rec[w]
      /\ \A n \in 0 .. handled[w][cur[w]] - 1 : Accounted(cur[w], n)
  BY <1>1 DEF OffsetInv, BatchInv
<1>4. ASSUME NEW m \in 1 .. handled[w][cur[w]]
      PROVE  Settled(cur[w], m)
  <2>1. m - 1 \in 0 .. handled[w][cur[w]] - 1 /\ (m - 1) + 1 = m
    BY <1>2
  <2>2. Accounted(cur[w], m - 1)
    BY <1>3, <2>1
  <2>3. CASE <<cur[w], m - 1>> \in failed
    <3>1. log[cur[w]][(m - 1) + 1] \notin Envelopes
      BY <2>3 DEF ReadInv
    <3> QED
      BY <2>1, <3>1 DEF Settled
  <2>4. CASE <<cur[w], m - 1>> \notin failed
    BY <2>1, <2>2, <2>4 DEF Accounted, Settled
  <2> QED
    BY <2>3, <2>4
<1> QED
  BY <1>1, <1>2, <1>3, <1>4 DEF Pending

\* Which steps write the inbox, the domain rows and the hourly metrics.
LEMMA WhoWrites ==
  ASSUME [Next]_vars
  PROVE  /\ \/ inbox' = inbox
            \/ \E w \in Workers : WriteInboxRow(w) /\ inbox[EventId[rec[w]]] = NoRow
         /\ UNCHANGED <<rows, stock>> \/ \E w \in Workers : WriteDomainRow(w)
         /\ hourly' = hourly \/ \E w \in Workers : WriteMetricHourly(w)
<1>1. \/ inbox' = inbox
      \/ \E w \in Workers : WriteInboxRow(w) /\ inbox[EventId[rec[w]]] = NoRow
  BY DEF Next, Environment, Loop, Handle, Produce, SeedRawEvent, Rebalance, Join, Poll,
         TakeEnvelope, TakePoison, SkipCommit, Commit, CommitFails, Restart, WriteInboxRow,
         WriteRawEvent, MarkEventDuplicate, WriteDomainRow,
         WriteRiskAlert, WriteMetricHourly, WriteMetricDaily, MarkEventProcessed,
         UpdateWatermark, CountProcessed, Fail, Crash, vars, db, claims
<1>2. UNCHANGED <<rows, stock>> \/ \E w \in Workers : WriteDomainRow(w)
  BY DEF Next, Environment, Loop, Handle, Produce, SeedRawEvent, Rebalance, Join, Poll,
         TakeEnvelope, TakePoison, SkipCommit, Commit, CommitFails, Restart, WriteInboxRow,
         WriteRawEvent, MarkEventDuplicate,
         WriteRiskAlert, WriteMetricHourly, WriteMetricDaily, MarkEventProcessed,
         UpdateWatermark, CountProcessed, Fail, Crash, vars, db, domain
<1>3. hourly' = hourly \/ \E w \in Workers : WriteMetricHourly(w)
  BY DEF Next, Environment, Loop, Handle, Produce, SeedRawEvent, Rebalance, Join, Poll,
         TakeEnvelope, TakePoison, SkipCommit, Commit, CommitFails, Restart, WriteInboxRow,
         WriteRawEvent, MarkEventDuplicate, WriteDomainRow,
         WriteRiskAlert, WriteMetricDaily, MarkEventProcessed,
         UpdateWatermark, CountProcessed, Fail, Crash, vars, db, metrics
<1> QED
  BY <1>1, <1>2, <1>3

LEMMA NextWrites ==
  ASSUME TypeOK, ClaimInv, OffsetInv, ReadInOrder, ReadInv, WriteInv, [Next]_vars
  PROVE  WriteInv'
<1> USE ConstantsAssumption
<1>1. TablesOK /\ WorkersOK
  BY DEF TypeOK
<1>2. inbox' = inbox \/ \E w \in Workers : WriteInboxRow(w) /\ inbox[EventId[rec[w]]] = NoRow
  BY WhoWrites
<1>3. rows' = rows \/ \E w \in Workers : WriteDomainRow(w)
  BY WhoWrites
<1>4. hourly' = hourly \/ \E w \in Workers : WriteMetricHourly(w)
  BY WhoWrites
\* What a claim and a write to a row do.
<1>5. ASSUME NEW w \in Workers, WriteInboxRow(w), inbox[EventId[rec[w]]] = NoRow
      PROVE  /\ pc[w] = "inbox" /\ pc[w] \in RecordSteps /\ log' = log
             /\ UNCHANGED <<rec, cur, handled>>
             /\ inbox' = [inbox EXCEPT ![EventId[rec[w]]] = rec[w]]
             /\ \A d \in Envelopes : inbox'[EventId[d]] = d /\ d # rec[w] => inbox[EventId[d]] = d
  <2>1. /\ pc[w] = "inbox" /\ log' = log /\ UNCHANGED <<rec, cur, handled>>
        /\ inbox' = [inbox EXCEPT ![EventId[rec[w]]] = rec[w]]
    BY <1>5 DEF WriteInboxRow, kafka, consumer, loop
  <2>2. rec[w] \in Envelopes /\ EventId[rec[w]] \in Ids
    BY <1>1, <2>1 DEF WorkersOK, RecordSteps
  <2> QED
    BY <1>1, <2>1, <2>2 DEF TablesOK, RecordSteps
<1>6. ASSUME NEW w \in Workers, WriteDomainRow(w)
      PROVE  /\ pc[w] \in ClaimSteps /\ pc[w] \in RecordSteps /\ log' = log
             /\ rec[w] \in Envelopes /\ UNCHANGED <<inbox, rec, cur, handled, hourly>>
             /\ \A k \in Keys : rows'[k] = IF k = RowKey[rec[w]] THEN rec[w] ELSE rows[k]
  <2>1. pc[w] \in ClaimSteps /\ pc[w] \in RecordSteps /\ pc[w] = "domain"
    BY <1>6 DEF WriteDomainRow, Call, ClaimSteps, RecordSteps
  <2>2. rec[w] \in Envelopes
    BY <1>1, <2>1 DEF WorkersOK
  <2>3. Kind[rec[w]] \in UpsertKinds
    BY <2>2 DEF ReadInOrder
  <2>4. rows' = [rows EXCEPT ![RowKey[rec[w]]] = rec[w]]
    BY <1>6, <2>3 DEF WriteDomainRow
  <2>5. log' = log /\ UNCHANGED <<inbox, rec, cur, handled, hourly>>
    BY <1>6 DEF WriteDomainRow, kafka, claims, metrics, consumer, loop
  <2> QED
    BY <1>1, <2>1, <2>2, <2>4, <2>5 DEF TablesOK
<1>7. ClaimedInOrder'
  <2>1. ASSUME NEW e \in Envelopes, inbox[EventId[e]] = e
        PROVE  \E p \in Partitions : \E m \in 1 .. Len(log'[p]) :
                  log'[p][m] = e /\ \A n \in 1 .. m - 1 : Settled(p, n)'
    <3>1. PICK p \in Partitions :
             \E m \in 1 .. Len(log[p]) : log[p][m] = e /\ \A n \in 1 .. m - 1 : Settled(p, n)
      BY <2>1 DEF WriteInv, ClaimedInOrder
    <3>2. PICK m \in 1 .. Len(log[p]) : log[p][m] = e /\ \A n \in 1 .. m - 1 : Settled(p, n)
      BY <3>1
    <3>3. /\ Len(log[p]) \in Nat /\ Len(log'[p]) \in Nat /\ Len(log[p]) <= Len(log'[p])
          /\ log'[p][m] = log[p][m]
      BY LogsGrow
    <3>4. ASSUME NEW n \in 1 .. m - 1
          PROVE  Settled(p, n)'
      <4>1. n \in 1 .. Len(log[p]) /\ Settled(p, n)
        BY <3>2, <3>3
      <4> QED
        BY <4>1, SettledStays
    <3>5. m \in 1 .. Len(log'[p])
      BY <3>3
    <3> QED
      BY <3>2, <3>3, <3>4, <3>5
  <2>2. ASSUME NEW w \in Workers, WriteInboxRow(w), inbox[EventId[rec[w]]] = NoRow
        PROVE  \E p \in Partitions : \E m \in 1 .. Len(log'[p]) :
                  log'[p][m] = rec[w] /\ \A n \in 1 .. m - 1 : Settled(p, n)'
    <3>1. PICK p \in Partitions, m \in Nat : p = cur[w] /\ m = handled[w][cur[w]] + 1
      BY <1>5, <2>2, AllBeforeIsSettled
    <3>2. /\ m \in 1 .. Len(log[p]) /\ log[p][m] = rec[w] /\ Len(log[p]) \in Nat
          /\ \A n \in 1 .. m - 1 : Settled(p, n)
      BY <1>5, <2>2, <3>1, AllBeforeIsSettled, LogsGrow
    <3>3. ASSUME NEW n \in 1 .. m - 1
          PROVE  Settled(p, n)'
      <4>1. n \in 1 .. Len(log[p]) /\ Settled(p, n)
        BY <3>2
      <4> QED
        BY <4>1, SettledStays
    <3>4. log' = log
      BY <1>5, <2>2
    <3> QED
      BY <3>2, <3>3, <3>4
  <2>3. ASSUME NEW e \in Envelopes, inbox'[EventId[e]] = e, inbox[EventId[e]] # e
        PROVE  \E w \in Workers : WriteInboxRow(w) /\ inbox[EventId[rec[w]]] = NoRow /\ e = rec[w]
    BY <1>2, <1>5, <2>3
  <2>4. ASSUME NEW e \in Envelopes, inbox'[EventId[e]] = e
        PROVE  \E p \in Partitions : \E m \in 1 .. Len(log'[p]) :
                  log'[p][m] = e /\ \A n \in 1 .. m - 1 : Settled(p, n)'
    BY <2>1, <2>2, <2>3, <2>4
  <2> QED
    BY <2>4 DEF ClaimedInOrder
<1>8. ASSUME NEW w \in Workers, pc'[w] \in ClaimSteps
      PROVE  HandIsLatest(w)'
  <2>1. /\ rec'[w] = rec[w] /\ cur'[w] = cur[w] /\ handled'[w] = handled[w]
        /\ \/ WriteInboxRow(w) /\ inbox[EventId[rec[w]]] = NoRow /\ pc'[w] = "raw"
           \/ pc[w] \in ClaimSteps
    BY <1>8, HandsMove
  <2>2. pc[w] \in RecordSteps
    BY <1>5, <2>1 DEF ClaimSteps
  <2> DEFINE e == rec[w]
             p == cur[w]
             k == handled[w][cur[w]]
  <2>3. /\ e \in Envelopes /\ EventId[e] \in Ids /\ p \in Partitions
        /\ k \in Nat /\ k + 1 \in 1 .. Len(log[p]) /\ log[p][k + 1] = e
        /\ \A m \in 1 .. k : Settled(p, m)
    BY <2>2, AllBeforeIsSettled
  <2>4. Len(log[p]) \in Nat /\ \A m \in 1 .. Len(log[p]) : log'[p][m] = log[p][m]
    BY <2>3, LogsGrow
  <2>5. \A m \in 1 .. k : m \in 1 .. Len(log[p]) /\ log'[p][m] = log[p][m]
    BY <2>3, <2>4
  <2>6. HandIsLatest(w)' <=>
          /\ \A m \in 1 .. k : log'[p][m] # e
          /\ \A d \in Envelopes :
                d # e /\ RowKey[d] = RowKey[e] /\ inbox'[EventId[d]] = d => \E m \in 1 .. k : log'[p][m] = d
    BY <2>1 DEF HandIsLatest
  <2>7. CASE pc[w] \in ClaimSteps
    <3>1. /\ \A m \in 1 .. k : log[p][m] # e
          /\ \A d \in Envelopes :
                d # e /\ RowKey[d] = RowKey[e] /\ inbox[EventId[d]] = d => \E m \in 1 .. k : log[p][m] = d
      BY <2>7 DEF WriteInv, HandIsLatest
    <3>2. ASSUME NEW d \in Envelopes, d # e, RowKey[d] = RowKey[e], inbox'[EventId[d]] = d
          PROVE  inbox[EventId[d]] = d
      <4>1. ASSUME NEW v \in Workers, WriteInboxRow(v), inbox[EventId[rec[v]]] = NoRow
            PROVE  d # rec[v]
        <5>1. pc[v] \in RecordSteps /\ pc[v] = "inbox"
          BY <1>5, <4>1
        <5>2. v # w
          BY <2>7, <5>1 DEF ClaimSteps, RecordSteps
        <5> QED
          BY <2>2, <3>2, <5>1, <5>2, RowsAreApart
      <4> QED
        BY <1>2, <1>5, <3>2, <4>1
    <3> HIDE DEF e, p, k
    <3> QED
      BY <2>5, <2>6, <3>1, <3>2
  <2>8. CASE WriteInboxRow(w) /\ inbox[EventId[e]] = NoRow
    <3>1. ASSUME NEW m \in 1 .. Len(log[p]), Settled(p, m)
          PROVE  log[p][m] # e
      BY <2>3, <2>8, <3>1 DEF Settled
    <3>2. ASSUME NEW d \in Envelopes, d # e, RowKey[d] = RowKey[e], inbox'[EventId[d]] = d
          PROVE  \E m \in 1 .. k : log[p][m] = d
      <4>1. inbox[EventId[d]] = d
        BY <1>5, <2>8, <3>2
      <4>2. PICK q \in Partitions :
               \E m \in 1 .. Len(log[q]) : log[q][m] = d /\ \A n \in 1 .. m - 1 : Settled(q, n)
        BY <4>1 DEF WriteInv, ClaimedInOrder
      <4>3. PICK m \in 1 .. Len(log[q]) : log[q][m] = d /\ \A n \in 1 .. m - 1 : Settled(q, n)
        BY <4>2
      <4>4. q \in Routes[d] /\ p \in Routes[e]
        BY <2>3, <4>3 DEF ReadInv
      <4>5. q = p
        BY <2>3, <3>2, <4>4 DEF ReadInOrder
      <4> HIDE DEF e, p, k
      <4>6. m # k + 1
        BY <2>3, <3>2, <4>3, <4>5
      <4>7. ~(k + 1 < m)
        <5>1. k + 1 < m => k + 1 \in 1 .. m - 1
          BY <2>3
        <5>2. k + 1 < m => Settled(p, k + 1)
          BY <4>3, <4>5, <5>1
        <5> QED
          BY <2>3, <3>1, <5>2
      <4>8. m \in 1 .. k
        BY <2>3, <2>4, <4>5, <4>6, <4>7
      <4> QED
        BY <4>3, <4>5, <4>8
    <3> HIDE DEF e, p, k
    <3>3. \A m \in 1 .. k : log[p][m] # e
      BY <2>3, <2>5, <3>1
    <3> QED
      BY <2>5, <2>6, <3>2, <3>3
  <2> QED
    BY <2>1, <2>7, <2>8
<1>9. ASSUME NEW w \in Workers, pc'[w] \in AfterRow
      PROVE  rows'[RowKey[rec'[w]]] = rec'[w]
  <2>1. pc'[w] \in ClaimSteps
    BY <1>9 DEF AfterRow, ClaimSteps, RecordSteps
  <2>2. rec'[w] = rec[w] /\ (pc[w] \in AfterRow \/ WriteDomainRow(w))
    BY <1>9, <2>1, HandsMove DEF AfterRow
  <2>3. ASSUME WriteDomainRow(w)
        PROVE  rows'[RowKey[rec[w]]] = rec[w]
    BY <1>6, <2>3
  <2>4. ASSUME pc[w] \in AfterRow
        PROVE  rec[w] \in Envelopes /\ pc[w] \in RecordSteps /\ rows[RowKey[rec[w]]] = rec[w]
    <3>1. pc[w] \in RecordSteps
      BY <2>4 DEF AfterRow, RecordSteps
    <3> QED
      BY <1>1, <2>4, <3>1 DEF WriteInv, WorkersOK
  <2>5. ASSUME NEW v \in Workers, v # w, WriteDomainRow(v), pc[w] \in AfterRow
        PROVE  rows'[RowKey[rec[w]]] = rec[w]
    <3>1. RowKey[rec[v]] # RowKey[rec[w]]
      BY <1>6, <2>4, <2>5, RowsAreApart
    <3> QED
      BY <1>6, <2>4, <2>5, <3>1
  <2> QED
    BY <1>3, <2>2, <2>3, <2>4, <2>5
<1>10. RowHoldsLatest'
  <2> SUFFICES ASSUME NEW d \in Envelopes, NEW e \in Envelopes, d # e, RowKey[d] = RowKey[e],
                      rows'[RowKey[e]] = e, hourly'[d] > 0
               PROVE  Precedes(d, e)'
    BY DEF RowHoldsLatest
  <2>1. CASE rows[RowKey[e]] = e /\ hourly[d] > 0
    <3>1. Precedes(d, e)
      BY <2>1 DEF WriteInv, RowHoldsLatest
    <3> QED
      BY <3>1, PrecedesStays
  <2>2. ASSUME NEW w \in Workers, WriteDomainRow(w), rows[RowKey[e]] # e
        PROVE  Precedes(d, e)'
    <3>1. e = rec[w] /\ log' = log /\ hourly' = hourly /\ pc[w] \in ClaimSteps /\ pc[w] \in RecordSteps
      BY <1>6, <2>2
    <3>2. inbox[EventId[d]] = d
      BY <1>1, <3>1 DEF ClaimInv, OnlyClaimedCounts, NoEffect, TablesOK
    <3> DEFINE p == cur[w]
               k == handled[w][cur[w]]
    <3>3. p \in Partitions /\ k \in Nat /\ k + 1 \in 1 .. Len(log[p])
      BY <3>1, AllBeforeIsSettled
    <3>4. (\A m \in 1 .. k : log[p][m] # e) /\ \E m \in 1 .. k : log[p][m] = d
      BY <3>1, <3>2 DEF WriteInv, HandIsLatest
    <3>5. DOMAIN log[p] = 1 .. Len(log[p]) /\ Len(log[p]) \in Nat
      BY <3>3, LogsGrow
    <3> HIDE DEF p, k
    <3>6. PICK m \in 1 .. k : log[p][m] = d
      BY <3>4
    <3>7. m \in DOMAIN log[p] /\ \A n \in DOMAIN log[p] : log[p][n] = e => m < n
      BY <3>3, <3>4, <3>5
    <3> QED
      BY <3>1, <3>3, <3>6, <3>7 DEF Precedes
  <2>3. ASSUME NEW w \in Workers, WriteMetricHourly(w), ~(hourly[d] > 0), rows' = rows
        PROVE  FALSE
    <3>1. pc[w] = "hourly" /\ hourly' = [hourly EXCEPT ![rec[w]] = @ + 1]
      BY <2>3 DEF WriteMetricHourly, Call
    <3>2. d = rec[w]
      BY <1>1, <2>3, <3>1 DEF TablesOK
    <3>3. rows[RowKey[d]] = d
      BY <3>1, <3>2 DEF WriteInv, AfterRow
    <3> QED
      BY <2>3, <3>3
  <2>4. (\E w \in Workers : WriteDomainRow(w)) => hourly' = hourly
    BY <1>6
  <2> QED
    BY <1>3, <1>4, <2>1, <2>2, <2>3, <2>4
<1> QED
  BY <1>7, <1>8, <1>9, <1>10 DEF WriteInv

\* With one reader of each partition, no failed call, one partition for each row
\* and tables that are upserted, the last writer of a row is the last event of
\* its partition, for any number of workers, crashes and redeliveries.
THEOREM RowsHoldTheLatest ==
  ASSUME ReadInOrder
  PROVE  Spec => []RowHoldsLatest
<1>1. Init => TypeOK /\ ClaimInv /\ OffsetInv /\ ReadInv /\ WriteInv
  BY InitType, InitClaim, InitOffsets, InitReads
<1>2. TypeOK /\ ClaimInv /\ OffsetInv /\ ReadInv /\ WriteInv /\ [Next]_vars
      => (TypeOK /\ ClaimInv /\ OffsetInv /\ ReadInv /\ WriteInv)'
  BY NextType, NextClaim, NextOffsets, NextReads, NextWrites
<1>3. WriteInv => RowHoldsLatest
  BY DEF WriteInv
<1> QED
  BY <1>1, <1>2, <1>3, PTL DEF Spec

-------------------------------------------------------------------------------
(* The stock that a list of deltas leaves.  That the recursion has one     *)
(* solution on every list is proved by the least counterexample: a set of  *)
(* naturals that is not empty has a least element.                         *)

LEMMA LeastElement ==
  ASSUME NEW S \in SUBSET Nat, S # {}
  PROVE  \E x \in S : \A y \in S : x <= y
<1>1. PICK x \in S : \A y \in S : ~(<<y, x>> \in OpToRel(<, Nat))
  BY NatLessThanWellFounded, WFMin
<1>2. \A y \in S : ~(y < x)
  BY <1>1 DEF OpToRel
<1> QED
  BY <1>2

\* run solves the recursion of StockAfter on s.
RunsOn(s, run) == run = [i \in 0 .. Len(s) |-> IF i = 0 THEN 0 ELSE Clamped(run[i - 1] + Delta[s[i]])]

LEMMA StockOfRun == ASSUME NEW s PROVE StockAfter(s) = (CHOOSE run : RunsOn(s, run))[Len(s)]
BY DEF StockAfter, RunsOn

LEMMA RunStep ==
  ASSUME NEW s \in Seq(Envelopes), NEW run, RunsOn(s, run), NEW i \in 0 .. Len(s)
  PROVE  run[i] = IF i = 0 THEN 0 ELSE Clamped(run[i - 1] + Delta[s[i]])
BY DEF RunsOn

\* Runs on two lists agree as long as the lists do.
LEMMA RunsAgree ==
  ASSUME NEW s \in Seq(Envelopes), NEW t \in Seq(Envelopes), NEW f, NEW g, RunsOn(s, f), RunsOn(t, g),
         Len(s) <= Len(t), \A i \in 1 .. Len(s) : s[i] = t[i]
  PROVE  f[Len(s)] = g[Len(s)]
<1> DEFINE Bad == {i \in Nat : i <= Len(s) /\ f[i] # g[i]}
<1>1. Bad = {}
  <2> SUFFICES ASSUME Bad # {}
               PROVE  FALSE
    OBVIOUS
  <2>1. PICK i \in Bad : \A j \in Bad : i <= j
    <3>1. Bad \in SUBSET Nat
      OBVIOUS
    <3> HIDE DEF Bad
    <3> QED
      BY <3>1, LeastElement
  <2>2. i \in 0 .. Len(s) /\ i \in 0 .. Len(t) /\ f[i] # g[i]
    OBVIOUS
  <2>3. /\ f[i] = IF i = 0 THEN 0 ELSE Clamped(f[i - 1] + Delta[s[i]])
        /\ g[i] = IF i = 0 THEN 0 ELSE Clamped(g[i - 1] + Delta[t[i]])
    BY <2>2, RunStep
  <2>4. i # 0
    BY <2>2, <2>3
  <2>5. i - 1 \notin Bad
    BY <2>1, <2>2
  <2>6. f[i - 1] = g[i - 1] /\ s[i] = t[i]
    BY <2>2, <2>4, <2>5
  <2> QED
    BY <2>2, <2>3, <2>4, <2>6
<1> QED
  BY <1>1

\* A run on s goes on to a run on s with e at its end.
LEMMA RunGoesOn ==
  ASSUME NEW s \in Seq(Envelopes), NEW e \in Envelopes, NEW f, RunsOn(s, f)
  PROVE  \E g : RunsOn(Append(s, e), g) /\ g[Len(s) + 1] = Clamped(f[Len(s)] + Delta[e])
<1> DEFINE t == Append(s, e)
           g == [i \in 0 .. Len(t) |-> IF i <= Len(s) THEN f[i] ELSE Clamped(f[Len(s)] + Delta[e])]
<1>1. t \in Seq(Envelopes) /\ Len(t) = Len(s) + 1 /\ t[Len(t)] = e /\ \A i \in 1 .. Len(s) : t[i] = s[i]
  OBVIOUS
<1>2. ASSUME NEW i \in 0 .. Len(t)
      PROVE  g[i] = IF i = 0 THEN 0 ELSE Clamped(g[i - 1] + Delta[t[i]])
  <2>1. CASE i <= Len(s)
    <3>1. i \in 0 .. Len(s) /\ g[i] = f[i]
      BY <1>1, <2>1
    <3>2. f[i] = IF i = 0 THEN 0 ELSE Clamped(f[i - 1] + Delta[s[i]])
      BY <3>1, RunStep
    <3>3. i # 0 => g[i - 1] = f[i - 1] /\ t[i] = s[i]
      BY <1>1, <2>1
    <3> QED
      BY <3>1, <3>2, <3>3
  <2>2. CASE ~(i <= Len(s))
    <3>1. i = Len(s) + 1 /\ i # 0 /\ i - 1 = Len(s) /\ Len(s) \in 0 .. Len(t)
      BY <1>1, <2>2
    <3>2. g[i] = Clamped(f[Len(s)] + Delta[e]) /\ g[i - 1] = f[Len(s)] /\ t[i] = e
      BY <1>1, <3>1
    <3> QED
      BY <3>1, <3>2
  <2> QED
    BY <2>1, <2>2
<1>3. g[Len(s) + 1] = Clamped(f[Len(s)] + Delta[e])
  BY <1>1
<1>4. g = [i \in 0 .. Len(t) |-> g[i]]
  OBVIOUS
<1> HIDE DEF g, t
<1>5. RunsOn(t, g)
  BY <1>2, <1>4 DEF RunsOn
<1> QED
  BY <1>3, <1>5 DEF t

LEMMA RunsExist ==
  ASSUME NEW s \in Seq(Envelopes)
  PROVE  \E run : RunsOn(s, run)
<1> DEFINE Bad == {n \in Nat : \E t \in Seq(Envelopes) : Len(t) = n /\ ~\E run : RunsOn(t, run)}
<1>1. Bad = {}
  <2> SUFFICES ASSUME Bad # {}
               PROVE  FALSE
    OBVIOUS
  <2>1. PICK n \in Bad : \A m \in Bad : n <= m
    <3>1. Bad \in SUBSET Nat
      OBVIOUS
    <3> HIDE DEF Bad
    <3> QED
      BY <3>1, LeastElement
  <2>2. PICK t \in Seq(Envelopes) : Len(t) = n /\ ~\E run : RunsOn(t, run)
    BY <2>1
  <2>3. n # 0
    <3>1. SUFFICES ASSUME n = 0
                   PROVE  RunsOn(t, [i \in {0} |-> 0])
      BY <2>2
    <3>2. 0 .. Len(t) = {0}
      BY <2>2, <3>1
    <3> QED
      BY <3>2 DEF RunsOn
  <2> DEFINE u == SubSeq(t, 1, n - 1)
             e == t[n]
  <2>4. u \in Seq(Envelopes) /\ Len(u) = n - 1 /\ e \in Envelopes /\ Append(u, e) = t
    BY <2>2, <2>3
  <2>5. n - 1 \in Nat /\ n - 1 \notin Bad
    <3>1. n \in Nat /\ n - 1 \in Nat /\ ~(n <= n - 1)
      BY <2>3
    <3> HIDE DEF Bad
    <3> QED
      BY <2>1, <3>1
  <2> HIDE DEF u, e
  <2>6. PICK f : RunsOn(u, f)
    BY <2>4, <2>5
  <2> QED
    BY <2>2, <2>4, <2>6, RunGoesOn
<1> QED
  BY <1>1

LEMMA StockRuns ==
  ASSUME NEW s \in Seq(Envelopes), NEW run, RunsOn(s, run)
  PROVE  StockAfter(s) = run[Len(s)]
<1> DEFINE chosen == CHOOSE f : RunsOn(s, f)
<1>1. RunsOn(s, chosen)
  BY RunsExist
<1> HIDE DEF chosen
<1>2. chosen[Len(s)] = run[Len(s)]
  BY <1>1, RunsAgree
<1> QED
  BY <1>2, StockOfRun DEF chosen

\* No delta leaves the stock at zero; one more is added to it and cut off at zero.
LEMMA StockUnfolds ==
  /\ StockAfter(<<>>) = 0
  /\ \A s \in Seq(Envelopes), e \in Envelopes :
        StockAfter(Append(s, e)) = Clamped(StockAfter(s) + Delta[e])
<1>1. StockAfter(<<>>) = 0
  <2> DEFINE s == <<>>
  <2>1. s \in Seq(Envelopes) /\ Len(s) = 0 /\ 0 \in 0 .. Len(s)
    OBVIOUS
  <2> HIDE DEF s
  <2>2. PICK run : RunsOn(s, run)
    BY <2>1, RunsExist
  <2>3. run[0] = 0
    BY <2>1, <2>2, RunStep
  <2>4. StockAfter(s) = 0
    BY <2>1, <2>2, <2>3, StockRuns
  <2> QED
    BY <2>4 DEF s
<1>2. ASSUME NEW s \in Seq(Envelopes), NEW e \in Envelopes
      PROVE  StockAfter(Append(s, e)) = Clamped(StockAfter(s) + Delta[e])
  <2>1. PICK f : RunsOn(s, f)
    BY RunsExist
  <2>2. PICK g : RunsOn(Append(s, e), g) /\ g[Len(s) + 1] = Clamped(f[Len(s)] + Delta[e])
    BY <2>1, RunGoesOn
  <2>3. StockAfter(s) = f[Len(s)]
    BY <2>1, StockRuns
  <2>4. Append(s, e) \in Seq(Envelopes) /\ Len(Append(s, e)) = Len(s) + 1
    OBVIOUS
  <2>5. StockAfter(Append(s, e)) = g[Len(s) + 1]
    BY <2>2, <2>4, StockRuns
  <2> QED
    BY <2>2, <2>3, <2>5
<1> QED
  BY <1>1, <1>2

-------------------------------------------------------------------------------
(* The stock of a product.                                                 *)

BeforeRow == ClaimSteps \ AfterRow

Within(e, s) == \E i \in 1 .. Len(s) : s[i] = e

\* The stock is what the list s of claimed events leaves: it has what is counted
\* and, of the events in hand, those whose row is written.
StockIs(k, s) ==
    /\ s \in Seq(Envelopes)
    /\ stock[k] = StockAfter(s)
    /\ \A i, j \in 1 .. Len(s) : s[i] = s[j] => i = j
    /\ ReadInOrder => \A i, j \in 1 .. Len(s) : i < j => Precedes(s[i], s[j])
    /\ \A i \in 1 .. Len(s) : s[i] \in OfProduct(k) /\ inbox[EventId[s[i]]] = s[i]
    /\ \A e \in OfProduct(k) : hourly[e] > 0 => Within(e, s)
    /\ \A w \in Workers :
          /\ pc[w] \in BeforeRow => ~Within(rec[w], s)
          /\ pc[w] \in AfterRow /\ rec[w] \in OfProduct(k) => Within(rec[w], s)

StockInv == \A k \in Keys : \E s : StockIs(k, s)

LEMMA InitStock == Init => StockInv
<1> SUFFICES ASSUME Init, NEW k \in Keys
             PROVE  StockIs(k, <<>>)
    BY DEF StockInv
<1> USE ConstantsAssumption
<1>1. <<>> \in Seq(Envelopes) /\ Len(<<>>) = 0
  OBVIOUS
<1>2. \A w \in Workers : pc[w] \notin BeforeRow /\ pc[w] \notin AfterRow
  BY DEF Init, BeforeRow, ClaimSteps, RecordSteps, AfterRow
<1>3. stock[k] = 0 /\ \A e \in OfProduct(k) : ~(hourly[e] > 0)
  BY DEF Init, OfProduct
<1>4. StockAfter(<<>>) = 0
  BY StockUnfolds
<1> DEFINE s == <<>>
<1> HIDE DEF s
<1> SUFFICES StockIs(k, s)
    BY DEF s
<1>5. s \in Seq(Envelopes) /\ Len(s) = 0 /\ StockAfter(s) = 0 /\ \A i \in 1 .. Len(s) : FALSE
  BY <1>1, <1>4 DEF s
<1> QED
  BY <1>2, <1>3, <1>5 DEF StockIs

\* The event whose row is written comes after those written to its row before.
LEMMA HandComesLast ==
  ASSUME TypeOK, OffsetInv, ReadInv, WriteInv, NEW w \in Workers, pc[w] \in ClaimSteps,
         NEW d \in Envelopes, d # rec[w], RowKey[d] = RowKey[rec[w]], inbox[EventId[d]] = d
  PROVE  Precedes(d, rec[w])
<1> DEFINE p == cur[w]
           n == handled[w][p]
<1>1. pc[w] \in RecordSteps
  BY DEF ClaimSteps
<1>2. /\ rec[w] \in Envelopes /\ p \in Partitions
      /\ n \in Nat /\ n + 1 \in 1 .. Len(log[p])
  BY <1>1, AllBeforeIsSettled
<1>3. HandIsLatest(w)
  BY DEF WriteInv
<1>4. /\ \A m \in 1 .. n : log[p][m] # rec[w]
      /\ \E m \in 1 .. n : log[p][m] = d
  BY <1>3 DEF HandIsLatest
<1>5. DOMAIN log[p] = 1 .. Len(log[p]) /\ Len(log[p]) \in Nat
  BY <1>2 DEF TypeOK, KafkaOK
<1> HIDE DEF p, n
<1>6. PICK m \in 1 .. n : log[p][m] = d
  BY <1>4
<1>7. m \in DOMAIN log[p] /\ \A i \in DOMAIN log[p] : log[p][i] = rec[w] => m < i
  BY <1>2, <1>4, <1>5, <1>6
<1> QED
  BY <1>2, <1>6, <1>7 DEF Precedes

LEMMA NextStock ==
  ASSUME TypeOK, ClaimInv, StockInv, [Next]_vars,
         ReadInOrder => OffsetInv /\ ReadInv /\ WriteInv
  PROVE  StockInv'
<1> USE ConstantsAssumption
<1>1. TablesOK /\ WorkersOK
  BY DEF TypeOK
\* What a claim and a write to a row do.
<1>2. ASSUME NEW w \in Workers, WriteInboxRow(w), inbox[EventId[rec[w]]] = NoRow
      PROVE  /\ rec[w] \in Envelopes /\ EventId[rec[w]] \in Ids
             /\ inbox' = [inbox EXCEPT ![EventId[rec[w]]] = rec[w]]
  <2>1. pc[w] \in RecordSteps
    BY <1>2 DEF WriteInboxRow, RecordSteps
  <2> QED
    BY <1>1, <1>2, <2>1 DEF WriteInboxRow, WorkersOK
<1>3. \A e \in Envelopes : inbox[EventId[e]] = e => inbox'[EventId[e]] = e
  <2>1. ASSUME NEW w \in Workers, WriteInboxRow(w), inbox[EventId[rec[w]]] = NoRow,
               NEW e \in Envelopes, inbox[EventId[e]] = e
        PROVE  inbox'[EventId[e]] = e
    BY <1>1, <1>2, <2>1 DEF TablesOK
  <2> QED
    BY <2>1, WhoWrites
<1>4. ASSUME NEW w \in Workers, pc'[w] \in ClaimSteps
      PROVE  /\ rec'[w] = rec[w]
             /\ \/ inbox[EventId[rec[w]]] = NoRow /\ pc'[w] = "raw" /\ rec[w] \in Envelopes
                \/ /\ pc[w] \in ClaimSteps
                   /\ pc'[w] \in AfterRow => pc[w] \in AfterRow \/ WriteDomainRow(w)
                   /\ pc[w] \in AfterRow => pc'[w] \in AfterRow
  BY <1>2, <1>4, HandsMove
<1>5. ASSUME NEW w \in Workers, WriteDomainRow(w)
      PROVE  /\ pc[w] = "domain" /\ pc[w] \in BeforeRow /\ pc[w] \in ClaimSteps
             /\ rec[w] \in Envelopes /\ UNCHANGED <<inbox, rec, hourly>>
             /\ pc' = [pc EXCEPT ![w] = IF rec[w] \in Risky THEN "alert" ELSE "hourly"]
             /\ \A k \in Keys :
                   IF rec[w] \in OfProduct(k)
                   THEN stock'[k] = Clamped(stock[k] + Delta[rec[w]])
                   ELSE stock'[k] = stock[k]
  <2>1. pc[w] = "domain" /\ pc' = [pc EXCEPT ![w] = IF rec[w] \in Risky THEN "alert" ELSE "hourly"]
    BY <1>5 DEF WriteDomainRow, Call, Goto
  <2>2. pc[w] \in BeforeRow /\ pc[w] \in ClaimSteps /\ rec[w] \in Envelopes
    BY <1>1, <2>1 DEF BeforeRow, AfterRow, ClaimSteps, RecordSteps, WorkersOK
  <2>3. UNCHANGED <<inbox, rec, hourly>>
    BY <1>5 DEF WriteDomainRow, claims, metrics, loop
  <2>4. stock' = IF Kind[rec[w]] = "product"
                 THEN [stock EXCEPT ![RowKey[rec[w]]] = Clamped(@ + Delta[rec[w]])]
                 ELSE stock
    BY <1>5 DEF WriteDomainRow
  <2>5. ASSUME NEW k \in Keys
        PROVE  IF rec[w] \in OfProduct(k)
               THEN stock'[k] = Clamped(stock[k] + Delta[rec[w]])
               ELSE stock'[k] = stock[k]
    BY <1>1, <2>2, <2>4 DEF TablesOK, OfProduct
  <2> QED
    BY <2>1, <2>2, <2>3, <2>5
\* The list of a product grows by the event whose row is written.
<1>6. ASSUME NEW k \in Keys
      PROVE  \E s : StockIs(k, s)'
  <2>1. PICK s : StockIs(k, s)
    BY DEF StockInv
  <2>2. /\ s \in Seq(Envelopes) /\ Len(s) \in Nat
        /\ stock[k] = StockAfter(s)
        /\ \A i, j \in 1 .. Len(s) : s[i] = s[j] => i = j
        /\ \A i \in 1 .. Len(s) : s[i] \in OfProduct(k) /\ inbox[EventId[s[i]]] = s[i]
        /\ \A e \in OfProduct(k) : hourly[e] > 0 => Within(e, s)
    BY <2>1 DEF StockIs
  <2>3. ASSUME ReadInOrder, NEW i \in 1 .. Len(s), NEW j \in 1 .. Len(s), i < j
        PROVE  Precedes(s[i], s[j])'
    <3>1. Precedes(s[i], s[j])
      BY <2>1, <2>3 DEF StockIs
    <3> QED
      BY <3>1, PrecedesStays
  <2>4. ASSUME NEW i \in 1 .. Len(s)
        PROVE  s[i] \in OfProduct(k) /\ s[i] \in Envelopes /\ inbox'[EventId[s[i]]] = s[i]
    BY <1>3, <2>2 DEF OfProduct
  <2>5. CASE \E w \in Workers : WriteDomainRow(w) /\ rec[w] \in OfProduct(k)
    <3>1. PICK w \in Workers : WriteDomainRow(w) /\ rec[w] \in OfProduct(k)
      BY <2>5
    <3>2. PICK e \in Envelopes : e = rec[w]
      BY <1>5, <3>1
    <3>3. PICK t : t = Append(s, e)
      OBVIOUS
    <3>4. /\ pc[w] = "domain" /\ pc[w] \in BeforeRow /\ pc[w] \in ClaimSteps /\ e \in OfProduct(k)
          /\ rec' = rec /\ hourly' = hourly /\ inbox' = inbox
          /\ pc' = [pc EXCEPT ![w] = IF e \in Risky THEN "alert" ELSE "hourly"]
          /\ stock'[k] = Clamped(stock[k] + Delta[e])
      BY <1>5, <3>1, <3>2
    <3>5. ~Within(e, s)
      BY <2>1, <3>2, <3>4 DEF StockIs
    <3>6. /\ inbox[EventId[e]] = e
          /\ \A v \in Workers : v # w /\ pc[v] \in ClaimSteps => rec[v] # e
      BY <3>2, <3>4, Ownership
    <3>7. /\ t \in Seq(Envelopes) /\ Len(t) = Len(s) + 1 /\ t[Len(t)] = e
          /\ \A i \in 1 .. Len(s) : t[i] = s[i]
      BY <2>2, <3>3
    <3>8. stock'[k] = StockAfter(t)
      BY <2>2, <3>3, <3>4, StockUnfolds
    <3>9. ASSUME NEW i \in 1 .. Len(t), NEW j \in 1 .. Len(t), t[i] = t[j]
          PROVE  i = j
      <4>1. ASSUME NEW m \in 1 .. Len(t)
            PROVE  IF m = Len(t) THEN t[m] = e ELSE m \in 1 .. Len(s) /\ t[m] = s[m] /\ t[m] # e
        <5>1. m # Len(t) => m \in 1 .. Len(s) /\ t[m] = s[m]
          BY <2>2, <3>7
        <5>2. \A i1 \in 1 .. Len(s) : s[i1] # e
          BY <3>5 DEF Within
        <5> QED
          BY <3>7, <5>1, <5>2
      <4>2. i \in 1 .. Len(s) /\ j \in 1 .. Len(s) => i = j
        BY <2>2, <3>7, <3>9
      <4> QED
        BY <3>9, <4>1, <4>2
    <3>10. ASSUME ReadInOrder, NEW i \in 1 .. Len(t), NEW j \in 1 .. Len(t), i < j
           PROVE  Precedes(t[i], t[j])'
      <4>1. i \in 1 .. Len(s) /\ t[i] = s[i]
        BY <2>2, <3>7, <3>10
      <4>2. CASE j \in 1 .. Len(s)
        BY <2>3, <3>7, <3>10, <4>1, <4>2
      <4>3. CASE j \notin 1 .. Len(s)
        <5>1. t[j] = e
          BY <2>2, <3>7, <4>3
        <5>2. s[i] # e /\ s[i] \in Envelopes /\ RowKey[s[i]] = RowKey[e] /\ inbox[EventId[s[i]]] = s[i]
          BY <2>2, <3>4, <3>5, <4>1 DEF Within, OfProduct
        <5>3. Precedes(s[i], e)
          BY <3>2, <3>4, <3>10, <5>2, HandComesLast
        <5> QED
          BY <4>1, <5>1, <5>3, PrecedesStays
      <4> QED
        BY <4>2, <4>3
    <3>11. ASSUME NEW i \in 1 .. Len(t)
           PROVE  t[i] \in OfProduct(k) /\ inbox'[EventId[t[i]]] = t[i]
      <4>1. CASE i \in 1 .. Len(s)
        BY <2>4, <3>7, <4>1
      <4>2. CASE i \notin 1 .. Len(s)
        BY <2>2, <3>4, <3>6, <3>7, <4>2
      <4> QED
        BY <4>1, <4>2
    <3>12. \A d : Within(d, t) <=> Within(d, s) \/ d = e
      <4>1. \A i \in 1 .. Len(s) : i \in 1 .. Len(t)
        BY <2>2, <3>7
      <4>2. Len(t) \in 1 .. Len(t)
        BY <2>2, <3>7
      <4>3. \A i \in 1 .. Len(t) : i \in 1 .. Len(s) \/ i = Len(t)
        BY <2>2, <3>7
      <4> QED
        BY <3>7, <4>1, <4>2, <4>3 DEF Within
    <3>13. ASSUME NEW v \in Workers
           PROVE  /\ pc'[v] \in BeforeRow => ~Within(rec'[v], t)
                  /\ pc'[v] \in AfterRow /\ rec'[v] \in OfProduct(k) => Within(rec'[v], t)
      <4>1. CASE v = w
        BY <1>1, <3>2, <3>4, <3>12, <4>1 DEF WorkersOK, BeforeRow, AfterRow
      <4>2. CASE v # w
        <5>1. pc'[v] = pc[v] /\ rec'[v] = rec[v]
          BY <1>1, <3>4, <4>2 DEF WorkersOK
        <5>2. pc[v] \in BeforeRow => pc[v] \in ClaimSteps
          BY DEF BeforeRow
        <5>3. /\ pc[v] \in BeforeRow => ~Within(rec[v], s)
              /\ pc[v] \in AfterRow /\ rec[v] \in OfProduct(k) => Within(rec[v], s)
          BY <2>1 DEF StockIs
        <5> QED
          BY <3>6, <3>12, <4>2, <5>1, <5>2, <5>3
      <4> QED
        BY <4>1, <4>2
    <3>14. \A d \in OfProduct(k) : hourly'[d] > 0 => Within(d, t)
      BY <2>2, <3>4, <3>12
    <3> QED
      BY <3>7, <3>8, <3>9, <3>10, <3>11, <3>13, <3>14 DEF StockIs
  <2>6. CASE ~\E w \in Workers : WriteDomainRow(w) /\ rec[w] \in OfProduct(k)
    <3>1. stock'[k] = stock[k]
      BY <1>5, <2>6, WhoWrites
    <3>2. \A d \in OfProduct(k) : hourly'[d] > 0 => Within(d, s)
      <4>1. ASSUME NEW w \in Workers, WriteMetricHourly(w), NEW d \in OfProduct(k), hourly'[d] > 0
            PROVE  Within(d, s)
        <5>1. pc[w] = "hourly" /\ hourly' = [hourly EXCEPT ![rec[w]] = @ + 1] /\ pc[w] \in AfterRow
          BY <4>1 DEF WriteMetricHourly, Call, AfterRow
        <5>2. d = rec[w] \/ hourly'[d] = hourly[d]
          BY <1>1, <5>1 DEF TablesOK, OfProduct
        <5> QED
          BY <2>1, <4>1, <5>1, <5>2 DEF StockIs
      <4> QED
        BY <2>2, <4>1, WhoWrites
    <3>3. ASSUME NEW w \in Workers, pc'[w] \in BeforeRow
          PROVE  ~Within(rec'[w], s)
      <4>1. pc'[w] \in ClaimSteps /\ pc'[w] \notin AfterRow
        BY <3>3 DEF BeforeRow
      <4>2. CASE inbox[EventId[rec[w]]] = NoRow /\ rec[w] \in Envelopes
        BY <1>4, <2>2, <4>1, <4>2 DEF Within
      <4>3. CASE pc[w] \in ClaimSteps /\ (pc[w] \in AfterRow => pc'[w] \in AfterRow)
        BY <1>4, <2>1, <4>1, <4>3 DEF StockIs, BeforeRow
      <4> QED
        BY <1>4, <4>1, <4>2, <4>3
    <3>4. ASSUME NEW w \in Workers, pc'[w] \in AfterRow, rec'[w] \in OfProduct(k)
          PROVE  Within(rec'[w], s)
      <4>1. pc'[w] \in ClaimSteps /\ pc'[w] # "raw"
        BY <3>4 DEF AfterRow, ClaimSteps, RecordSteps
      <4>2. rec'[w] = rec[w] /\ (pc[w] \in AfterRow \/ WriteDomainRow(w))
        BY <1>4, <3>4, <4>1
      <4>3. pc[w] \in AfterRow
        BY <2>6, <3>4, <4>2
      <4> QED
        BY <2>1, <3>4, <4>2, <4>3 DEF StockIs
    <3>5. stock'[k] = StockAfter(s)
      BY <2>2, <3>1
    <3> QED
      BY <2>2, <2>3, <2>4, <3>2, <3>3, <3>4, <3>5 DEF StockIs
  <2> QED
    BY <2>5, <2>6
<1> QED
  BY <1>6 DEF StockInv

\* The list of StockInv is one of the histories.
LEMMA StockHasHistory ==
  ASSUME NEW k \in Keys, NEW s, StockIs(k, s)
  PROVE  /\ s \in Histories(k) /\ stock[k] = StockAfter(s)
         /\ ReadInOrder => \A i, j \in DOMAIN s : i < j => Precedes(s[i], s[j])
<1>1. /\ s \in Seq(Envelopes) /\ Len(s) \in Nat /\ DOMAIN s = 1 .. Len(s)
      /\ \A i, j \in 1 .. Len(s) : s[i] = s[j] => i = j
      /\ \A i \in 1 .. Len(s) : s[i] \in OfProduct(k) /\ inbox[EventId[s[i]]] = s[i]
      /\ \A e \in OfProduct(k) : hourly[e] > 0 => Within(e, s)
  BY DEF StockIs
<1> DEFINE S == {s[i] : i \in 1 .. Len(s)}
<1>2. s \in [1 .. Len(s) -> S]
  BY <1>1
<1>3. Cardinality(S) = Len(s)
  <2>1. s \in Bijection(1 .. Len(s), S)
    <3>1. \A i, j \in DOMAIN s : s[i] = s[j] => i = j
      BY <1>1
    <3>2. \A x \in S : \E i \in 1 .. Len(s) : s[i] = x
      OBVIOUS
    <3> HIDE DEF S
    <3>3. s \in Injection(1 .. Len(s), S)
      BY <1>2, <3>1 DEF Injection, IsInjective
    <3>4. s \in Surjection(1 .. Len(s), S)
      BY <1>2, <3>2 DEF Surjection
    <3> QED
      BY <3>3, <3>4 DEF Bijection
  <2>2. IsFiniteSet(1 .. Len(s)) /\ Cardinality(1 .. Len(s)) = Len(s)
    <3> DEFINE n == Len(s)
    <3>1. n \in Nat /\ n \in Int /\ 1 \in Int
      BY <1>1
    <3> HIDE DEF n
    <3>2. IsFiniteSet(1 .. n) /\ Cardinality(1 .. n) = IF 1 > n THEN 0 ELSE n - 1 + 1
      BY <3>1, FS_Interval
    <3>3. (IF 1 > n THEN 0 ELSE n - 1 + 1) = n
      BY <3>1
    <3>4. IsFiniteSet(1 .. n) /\ Cardinality(1 .. n) = n
      BY <3>2, <3>3
    <3> QED
      BY <3>4 DEF n
  <2> HIDE DEF S
  <2>3. ExistsBijection(1 .. Len(s), S)
    BY <2>1 DEF ExistsBijection
  <2> QED
    BY <2>2, <2>3, FS_Bijection
<1>4. /\ S \in SUBSET OfProduct(k)
      /\ \A e \in OfProduct(k) : (hourly[e] > 0 => e \in S) /\ (e \in S => inbox[EventId[e]] = e)
  BY <1>1 DEF Within
<1> HIDE DEF S
<1>5. s \in Histories(k)
  BY <1>1, <1>2, <1>3, <1>4 DEF Histories
<1> QED
  BY <1>1, <1>5 DEF StockIs

\* Whatever deltas are sent and whatever fails, crashes or is redelivered, with
\* any number of replicas: the stock is what some of the product's events leave,
\* each applied once at most, and those that were counted are among them.
THEOREM StocksCountOnce == Spec => []StockCountsOnce
<1> DEFINE Ordered == ReadInOrder => OffsetInv /\ ReadInv /\ WriteInv
<1>1. StockInv => StockCountsOnce
  BY StockHasHistory DEF StockInv, StockCountsOnce
<1>2. Init => TypeOK /\ ClaimInv /\ StockInv /\ Ordered
  BY InitType, InitClaim, InitStock, InitOffsets, InitReads
<1>3. TypeOK /\ ClaimInv /\ StockInv /\ Ordered /\ [Next]_vars => (TypeOK /\ ClaimInv /\ StockInv)'
  BY NextType, NextClaim, NextStock
<1>4. TypeOK /\ ClaimInv /\ Ordered /\ [Next]_vars => Ordered'
  BY NextOffsets, NextReads, NextWrites
<1> HIDE DEF Ordered
<1> QED
  BY <1>1, <1>2, <1>3, <1>4, PTL DEF Spec

\* Under the conditions of RowsHoldTheLatest they are applied in the order of the
\* product's partition, so the log explains the stock, clamp included.
THEOREM StocksFollowTheLog ==
  ASSUME ReadInOrder
  PROVE  Spec => []StockFollowsLog
<1> DEFINE Ordered == OffsetInv /\ ReadInv /\ WriteInv
<1>1. StockInv => StockFollowsLog
  BY StockHasHistory DEF StockInv, StockFollowsLog
<1>2. Init => TypeOK /\ ClaimInv /\ StockInv /\ Ordered
  BY InitType, InitClaim, InitStock, InitOffsets, InitReads
<1>3. TypeOK /\ ClaimInv /\ StockInv /\ Ordered /\ [Next]_vars => (TypeOK /\ ClaimInv /\ StockInv)'
  BY NextType, NextClaim, NextStock
<1>4. TypeOK /\ ClaimInv /\ Ordered /\ [Next]_vars => Ordered'
  BY NextOffsets, NextReads, NextWrites
<1> HIDE DEF Ordered
<1> QED
  BY <1>1, <1>2, <1>3, <1>4, PTL DEF Spec
===============================================================================
