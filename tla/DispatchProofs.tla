----------------------------- MODULE DispatchProofs ---------------------------
(* That the outbox's marks are true and final for any dispatchers, rows    *)
(* and crashes, and that a replay of dead letters leaves at most one of    *)
(* its events without an audit row, for any topic, commands and runs.      *)
EXTENDS Outbox, DlqTool, FiniteSetTheorems, TLAPS

-------------------------------------------------------------------------------
(* The inductive invariant: mark_published and mark_failed look at nothing *)
(* but the row's id, so what they rely on is the lease.                    *)

\* Type correctness.
OutboxTypeOK ==
    /\ status \in [Rows -> {"pending", "publishing", "published", "failed"}]
    /\ attempts \in [Rows -> Nat]
    /\ lease \in [Dispatchers -> Rows \cup {NoLease}]
    /\ sent \in [Dispatchers -> {"no", "yes", "error"}]

\* A leased row is in publishing and nobody else has it: skip locked and the
\* status test of the lease statement.
LeaseIsExclusive ==
    \A d \in Dispatchers : lease[d] # NoLease =>
        /\ status[lease[d]] = "publishing"
        /\ \A c \in Dispatchers : lease[c] = lease[d] => c = d

\* A dispatcher that believes its row was published is right.
SentIsInTopic ==
    \A d \in Dispatchers : lease[d] # NoLease /\ sent[d] = "yes" => lease[d] \in published

OutboxInv == OutboxTypeOK /\ LeaseIsExclusive /\ SentIsInTopic /\ MarksAreTrue

LEMMA OutboxInvInitially == OutboxInit => OutboxInv
BY DEF OutboxInit, OutboxInv, OutboxTypeOK, LeaseIsExclusive, SentIsInTopic, MarksAreTrue

LEMMA OutboxInvIsKept == OutboxInv /\ [OutboxNext]_outboxVars => OutboxInv'
<1> SUFFICES ASSUME OutboxInv, [OutboxNext]_outboxVars PROVE OutboxInv'
    OBVIOUS
<1> USE OutboxAssumption
<1> USE DEF OutboxInv, OutboxTypeOK
<1>1. ASSUME NEW d \in Dispatchers, NEW r \in Rows, LeasePending(d, r) PROVE OutboxInv'
    <2> USE <1>1 DEF LeasePending, Leasable
    <2>1. OutboxTypeOK'
        OBVIOUS
    <2>2. \A c \in Dispatchers : lease[c] # r
        BY DEF LeaseIsExclusive
    <2>3. LeaseIsExclusive'
        BY <2>2 DEF LeaseIsExclusive
    <2>4. SentIsInTopic'
        BY DEF SentIsInTopic
    <2>5. MarksAreTrue'
        BY DEF MarksAreTrue
    <2> QED BY <2>1, <2>3, <2>4, <2>5
<1>2. ASSUME NEW d \in Dispatchers, PublishRow(d) PROVE OutboxInv'
    <2> USE <1>2 DEF PublishRow, table
    <2>1. OutboxTypeOK'
        OBVIOUS
    <2>2. LeaseIsExclusive'
        BY DEF LeaseIsExclusive
    <2>3. published \subseteq published'
        OBVIOUS
    <2>4. SentIsInTopic'
        BY <2>3 DEF SentIsInTopic
    <2>5. MarksAreTrue'
        BY <2>3 DEF MarksAreTrue
    <2> QED BY <2>1, <2>2, <2>4, <2>5
<1>3. ASSUME NEW d \in Dispatchers, MarkPublished(d) PROVE OutboxInv'
    <2> USE <1>3 DEF MarkPublished, MayMark, DropLease
    <2>1. OutboxTypeOK'
        OBVIOUS
    <2>2. LeaseIsExclusive'
        BY DEF LeaseIsExclusive
    <2>3. SentIsInTopic'
        BY DEF SentIsInTopic
    <2>4. MarksAreTrue'
        BY DEF MarksAreTrue, SentIsInTopic
    <2> QED BY <2>1, <2>2, <2>3, <2>4
<1>4. ASSUME NEW d \in Dispatchers, MarkFailed(d) PROVE OutboxInv'
    <2> USE <1>4 DEF MarkFailed, DropLease
    <2>1. OutboxTypeOK'
        OBVIOUS
    <2>2. LeaseIsExclusive'
        BY DEF LeaseIsExclusive
    <2>3. SentIsInTopic'
        BY DEF SentIsInTopic
    <2>4. MarksAreTrue'
        BY DEF MarksAreTrue
    <2> QED BY <2>1, <2>2, <2>3, <2>4
<1>5. ASSUME NEW d \in Dispatchers, CrashDispatcher(d) PROVE OutboxInv'
    BY <1>5 DEF CrashDispatcher, DropLease, table, LeaseIsExclusive, SentIsInTopic, MarksAreTrue
<1>6. ASSUME UNCHANGED <<status, attempts, lease, sent, published>> PROVE OutboxInv'
    BY <1>6 DEF LeaseIsExclusive, SentIsInTopic, MarksAreTrue
<1>7. ASSUME NEW r \in Rows, RetryDelayEnds(r) PROVE OutboxInv'
    BY <1>6, <1>7 DEF RetryDelayEnds, dispatchers
<1>8. CASE UNCHANGED outboxVars
    BY <1>6, <1>8 DEF outboxVars, table, dispatchers
<1> QED
    BY <1>1, <1>2, <1>3, <1>4, <1>5, <1>7, <1>8 DEF OutboxNext, Dispatch

LEMMA OutboxInvAlways == OutboxSpec => []OutboxInv
BY OutboxInvInitially, OutboxInvIsKept, PTL DEF OutboxSpec

-------------------------------------------------------------------------------

\* For any number of dispatchers and rows, whichever die: "published" is only
\* said of events in the topic, and "failed" only after the last attempt.
THEOREM MarksStayTrue == OutboxSpec => []MarksAreTrue
<1>1. OutboxInv => MarksAreTrue
    BY DEF OutboxInv
<1> QED BY OutboxInvAlways, <1>1, PTL

\* Although the mark statements test neither status nor lease, no step takes a
\* final row back: a dispatcher only marks a row that its lease keeps in
\* publishing.
THEOREM FinalRowsAreFinal == OutboxSpec => FinalRowsStay
<1> DEFINE Kept == \A r \in Rows :
                      status[r] \in {"published", "failed"} => status'[r] = status[r]
<1>1. OutboxInv /\ [OutboxNext]_outboxVars => [Kept]_outboxVars
    <2> SUFFICES ASSUME OutboxInv, [OutboxNext]_outboxVars PROVE Kept
        OBVIOUS
    <2> USE DEF OutboxInv, OutboxTypeOK
    <2>1. ASSUME NEW d \in Dispatchers, NEW r \in Rows, LeasePending(d, r) PROVE Kept
        BY <2>1 DEF LeasePending, Leasable
    <2>2. ASSUME NEW d \in Dispatchers, MarkPublished(d) PROVE Kept
        BY <2>2 DEF MarkPublished, LeaseIsExclusive
    <2>3. ASSUME NEW d \in Dispatchers, MarkFailed(d) PROVE Kept
        BY <2>3 DEF MarkFailed, LeaseIsExclusive
    <2>4. ASSUME UNCHANGED status PROVE Kept
        BY <2>4
    <2> QED
        BY <2>1, <2>2, <2>3, <2>4
        DEF OutboxNext, Dispatch, PublishRow, CrashDispatcher, RetryDelayEnds, outboxVars, table
<1> QED BY OutboxInvAlways, <1>1, PTL DEF OutboxSpec, FinalRowsStay

-------------------------------------------------------------------------------
(* The DLQ tool: what its audit rows lag behind.                           *)

\* The events that run n republished and has not audited.
Unaudited(n) ==
    {r.event : r \in {x \in replays : x.run = n}} \ {a.event : a \in {x \in audits : x.run = n}}

DlqTypeOK ==
    /\ runs \in Seq(Commands)
    /\ step \in {"publish", "audit"}

\* What is on record belongs to an invocation that there was.
RecordsHaveRuns == \A x \in replays \cup audits : x.run \in 1..Len(runs)

\* The command that runs is the last one invoked.
CommandIsLast == command # NoEvent => Len(runs) > 0 /\ command = runs[Len(runs)]

\* The audit call is the next one after a publish: before a publish nothing is
\* unaudited, and after it the record at hand at most.
AuditKeepsUp ==
    command # NoEvent /\ command.audited =>
        /\ step = "publish" => Unaudited(Len(runs)) = {}
        /\ step = "audit" => Unaudited(Len(runs)) \subseteq {Record.event}

OneIsUnaudited ==
    \A n \in DOMAIN runs : runs[n].audited => \E e : Unaudited(n) \subseteq {e}

DlqInv == DlqTypeOK /\ RecordsHaveRuns /\ CommandIsLast /\ AuditKeepsUp /\ OneIsUnaudited

LEMMA DlqInvInitially == DlqInit => DlqInv
BY DEF DlqInit, DlqInv, DlqTypeOK, RecordsHaveRuns, CommandIsLast, AuditKeepsUp, OneIsUnaudited

LEMMA DlqInvIsKept == DlqInv /\ [DlqNext]_dlqVars => DlqInv'
<1> SUFFICES ASSUME DlqInv, [DlqNext]_dlqVars PROVE DlqInv'
    OBVIOUS
<1> USE DlqAssumption
<1> USE DEF DlqInv, DlqTypeOK
<1>1. ASSUME NEW c \in Commands, StartReplay(c) PROVE DlqInv'
    <2> USE <1>1 DEF StartReplay
    <2>1. /\ DlqTypeOK'
          /\ Len(runs') = Len(runs) + 1
          /\ runs'[Len(runs')] = c
          /\ \A n \in DOMAIN runs : runs'[n] = runs[n]
          /\ DOMAIN runs' = DOMAIN runs \cup {Len(runs')}
        OBVIOUS
    <2>2. RecordsHaveRuns'
        BY <2>1 DEF RecordsHaveRuns
    <2>3. CommandIsLast'
        BY <2>1 DEF CommandIsLast
    <2>4. \A n : Unaudited(n)' = Unaudited(n)
        BY DEF Unaudited
    <2>5. Unaudited(Len(runs')) = {}
        BY <2>1 DEF Unaudited, RecordsHaveRuns
    <2>6. AuditKeepsUp'
        BY <2>4, <2>5 DEF AuditKeepsUp
    <2>7. OneIsUnaudited'
        BY <2>1, <2>4, <2>5 DEF OneIsUnaudited
    <2> QED BY <2>1, <2>2, <2>3, <2>6, <2>7
<1>2. ASSUME NEW outcome, Audit(outcome), Replaying, NextRecord, UNCHANGED <<runs, command>>,
             \/ replays' = replays
             \/ step = "publish" /\ replays' = replays \cup {Successor(command, Record)}
      PROVE  DlqInv'
    <2> USE <1>2 DEF Audit, Replaying, NextRecord
    <2>1. DlqTypeOK' /\ CommandIsLast'
        BY DEF CommandIsLast
    <2>2. Len(runs) \in 1..Len(runs)
        BY DEF CommandIsLast
    <2>3. Successor(command, Record).run = Len(runs) /\ Successor(command, Record).event = Record.event
        BY DEF Successor
    <2>4. RecordsHaveRuns'
        BY <2>2, <2>3 DEF RecordsHaveRuns
    <2>5. \A n : n # Len(runs) => Unaudited(n)' = Unaudited(n)
        BY <2>3 DEF Unaudited
    <2>6. ASSUME command.audited PROVE Unaudited(Len(runs))' = {}
        <3>1. Unaudited(Len(runs)) \subseteq {Record.event}
            BY <2>6 DEF AuditKeepsUp
        <3>2. Unaudited(Len(runs))' \subseteq Unaudited(Len(runs)) \cup {Record.event}
            BY <2>3 DEF Unaudited
        <3> DEFINE row == [event |-> Record.event, status |-> outcome, run |-> Len(runs)]
        <3>3. row \in audits' /\ row.run = Len(runs) /\ row.event = Record.event
            BY <2>6
        <3>4. Record.event \notin Unaudited(Len(runs))'
            BY <3>3 DEF Unaudited
        <3> QED BY <3>1, <3>2, <3>4
    <2>7. AuditKeepsUp'
        BY <2>6 DEF AuditKeepsUp
    <2>8. OneIsUnaudited'
        BY <2>5, <2>6 DEF OneIsUnaudited, CommandIsLast
    <2> QED BY <2>1, <2>4, <2>7, <2>8
<1>3. CASE SkipRecord
    BY <1>2, <1>3 DEF SkipRecord
<1>4. CASE ReplayFails
    BY <1>2, <1>4 DEF ReplayFails
<1>5. CASE AuditReplay
    BY <1>2, <1>5 DEF AuditReplay
<1>6. CASE ReplayRecord
    <2> USE <1>6 DEF ReplayRecord, AfterPublish, Replaying
    <2>1. DlqTypeOK' /\ CommandIsLast'
        BY DEF CommandIsLast
    <2>2. Len(runs) \in 1..Len(runs)
        BY DEF CommandIsLast
    <2>3. Successor(command, Record).run = Len(runs) /\ Successor(command, Record).event = Record.event
        BY DEF Successor
    <2>4. RecordsHaveRuns'
        BY <2>2, <2>3 DEF RecordsHaveRuns
    <2>5. \A n : n # Len(runs) => Unaudited(n)' = Unaudited(n)
        BY <2>3 DEF Unaudited
    <2>6. command.audited => Unaudited(Len(runs))' \subseteq {Record.event}
        BY <2>3 DEF Unaudited, AuditKeepsUp
    <2>7. Record' = Record
        BY DEF Record
    <2>8. AuditKeepsUp'
        BY <2>6, <2>7 DEF AuditKeepsUp
    <2>9. OneIsUnaudited'
        BY <2>5, <2>6 DEF OneIsUnaudited, CommandIsLast
    <2> QED BY <2>1, <2>4, <2>8, <2>9
<1>7. CASE EndReplay
    BY <1>7 DEF EndReplay, RecordsHaveRuns, CommandIsLast, AuditKeepsUp, OneIsUnaudited, Unaudited
<1>8. CASE UNCHANGED dlqVars
    BY <1>8 DEF dlqVars, RecordsHaveRuns, CommandIsLast, AuditKeepsUp, OneIsUnaudited, Unaudited, Record
<1> QED
    BY <1>1, <1>3, <1>4, <1>5, <1>6, <1>7, <1>8 DEF DlqNext

\* For any dead-letter topic, commands and number of invocations, wherever one
\* dies: at most one event that it republished lacks its audit row.
THEOREM ReplaysAreAudited == DlqSpec => []OneReplayUnaudited
<1>1. DlqInv => OneReplayUnaudited
    <2> SUFFICES ASSUME DlqInv, NEW n \in DOMAIN runs, runs[n].audited
                 PROVE  Cardinality(Unaudited(n)) <= 1
        BY DEF OneReplayUnaudited, Unaudited
    <2>1. PICK e : Unaudited(n) \subseteq {e}
        BY DEF DlqInv, OneIsUnaudited
    <2>2. IsFiniteSet({e}) /\ Cardinality({e}) = 1
        BY FS_Singleton
    <2>3. Cardinality(Unaudited(n)) <= Cardinality({e})
        BY <2>1, <2>2, FS_Subset
    <2> QED BY <2>2, <2>3
<1>2. DlqSpec => []DlqInv
    BY DlqInvInitially, DlqInvIsKept, PTL DEF DlqSpec
<1> QED BY <1>1, <1>2, PTL
===============================================================================
