------------------------------ MODULE OpsSignals ------------------------------
(***************************************************************************)
(* What an operator sees of short-lived programs: reconciliations and      *)
(* reliability exercises leave rows, the streaming job and the worker too, *)
(* and the ops console turns the rows into gauges on each scrape.  Scrapes *)
(* overlap: every query is awaited.  One exercise, one streaming query and *)
(* one lateness stand for all, as no code relates two labels; an age is    *)
(* kept as the time that it counts from.                                   *)
(***************************************************************************)
EXTENDS Integers, SequencesExt

CONSTANTS
    Reconciliations, Plan,  \* runs of reconcile_metrics.py, what each asks, and what its queries find
    Exercises,              \* runs of the exercise
    Scrapes,
    Absent,                 \* no row, or no sample
    DayLookback, WeekLookback,  \* RECONCILIATION_ and RELIABILITY_LOOKBACK_HOURS, in ticks
    Stories                 \* bound: what happens in a behaviour: the runs, the scrapes, the tables
                            \* written, and how many rows, ticks and failures there are

ASSUME SignalsAssumption ==
    /\ {DayLookback, WeekLookback} \subseteq Nat /\ Absent \notin Nat
    /\ \A r \in Reconciliations : Plan[r].found \in Seq(Seq({"passed", "failed"}))

VARIABLES
    tick,
    runRows,    \* pipeline_run_log: the finished exercises
    audit,      \* reconciliation_audit: [row, status, tick]
    lateRows,   \* streaming_late_events: [row, tick]
    lastRow,    \* the newest row of streaming_checkpoint_audit and the serving tables
    gauges,     \* the console's registry
    reconciliation, exercise, scrape,
    seen,       \* history: per scrape and gauge, what the tables said while it was under way
    story, rowsWritten, losses

tableVars == <<runRows, audit, lateRows, lastRow>>
signalVars == <<tick, tableVars, gauges, reconciliation, exercise, scrape, seen, story, rowsWritten, losses>>

Loss == losses < story.losses /\ losses' = losses + 1
MayWrite(table) == table \in story.tables /\ rowsWritten < story.rows /\ rowsWritten' = rowsWritten + 1

-------------------------------------------------------------------------------
(* What the tables say. *)

Gauges == {"exercise", "failures", "checks", "checkpoint", "late", "daily", "windows"}

Since(rows, lookback) == Cardinality({row \in rows : row.tick >= tick - lookback})

LastExercise ==
    LET recent == {row \in runRows : row.started >= tick - WeekLookback}
    IN IF recent = {} THEN Absent ELSE CHOOSE row \in recent : \A other \in recent : other.finished <= row.finished

\* Late events are grouped: none gives no row.
LateCount == LET n == Since(lateRows, DayLookback) IN IF n = 0 THEN Absent ELSE n

Shown == [
    exercise |-> IF LastExercise = Absent THEN Absent
                 ELSE [ok |-> LastExercise.status = "passed", finished |-> LastExercise.finished],
    failures |-> Since({row \in audit : row.status = "failed"}, DayLookback),
    checks |-> Since(audit, DayLookback),
    checkpoint |-> lastRow["checkpoint"], late |-> LateCount,
    daily |-> lastRow["daily"], windows |-> lastRow["windows"]]

-------------------------------------------------------------------------------
SignalsInit ==
    /\ tick = 0 /\ rowsWritten = 0 /\ losses = 0
    /\ story \in Stories
    /\ runRows = {}
    /\ audit = {} /\ lateRows = {}
    /\ lastRow = [table \in {"checkpoint", "daily", "windows"} |-> Absent]
    /\ gauges = [g \in Gauges |-> IF g \in {"failures", "checks"} THEN 0 ELSE Absent]
    /\ reconciliation = [r \in Reconciliations |->
        [step |-> "idle", left |-> <<>>, results |-> <<>>, failed |-> FALSE, lastFailure |-> 0, status |-> "none"]]
    /\ exercise = [x \in Exercises |-> [step |-> "idle", started |-> 0, finished |-> 0, status |-> "none"]]
    /\ scrape = [sc \in Scrapes |-> [step |-> "idle", query |-> 1, got |-> [g \in Gauges |-> Absent], failed |-> {},
                                     alone |-> TRUE, before |-> {}, ended |-> 0, response |-> gauges]]
    /\ seen = [sc \in Scrapes |-> [g \in Gauges |-> {}]]

-------------------------------------------------------------------------------
(* reconcile_metrics.py: the checks one after the other. *)

\* A request that is refused or dry reads nothing.
Begun(r) ==
    IF ~Plan[r].valid THEN [reconciliation[r] EXCEPT !.step = "ended", !.status = "refused"]
    ELSE IF Plan[r].dry THEN [reconciliation[r] EXCEPT !.step = "ended", !.status = "passed"]
    ELSE [reconciliation[r] EXCEPT !.step = "checking", !.left = Plan[r].found]

StartReconciliation(r) ==
    /\ reconciliation[r].step = "idle" /\ r \in story.runs
    /\ reconciliation' = [reconciliation EXCEPT ![r] = Begun(r)]
    /\ UNCHANGED <<tick, tableVars, gauges, exercise, scrape, rowsWritten, losses>>

\* One query per check: a verdict per day.
RunCheckQuery(r) ==
    /\ reconciliation[r].step = "checking" /\ reconciliation[r].left # <<>>
    /\ LET found == Head(reconciliation[r].left)
       IN reconciliation' = [reconciliation EXCEPT ![r].step = "persisting", ![r].left = Tail(@),
                                ![r].results = found, ![r].failed = @ \/ "failed" \in Range(found)]
    /\ UNCHANGED <<tick, tableVars, gauges, exercise, scrape, rowsWritten, losses>>

PersistVerdict(r) ==
    LET s == Head(reconciliation[r].results)
    IN /\ reconciliation[r].step = "persisting" /\ reconciliation[r].results # <<>>
       /\ audit' = audit \cup {[row |-> Cardinality(audit), status |-> s, tick |-> tick]}
       /\ reconciliation' = [reconciliation EXCEPT ![r].results = Tail(@),
                                ![r].lastFailure = IF s = "failed" THEN tick ELSE @]
       /\ UNCHANGED <<tick, runRows, lateRows, lastRow, gauges, exercise, scrape, rowsWritten, losses>>

\* Whether the lineage event is stored changes nothing here.
EndCheck(r) ==
    /\ reconciliation[r].step = "persisting" /\ reconciliation[r].results = <<>>
    /\ reconciliation' = [reconciliation EXCEPT ![r].step = "checking"]
    /\ UNCHANGED <<tick, tableVars, gauges, exercise, scrape, rowsWritten, losses>>

Report(r) ==
    /\ reconciliation[r].step = "checking" /\ reconciliation[r].left = <<>>
    /\ reconciliation' = [reconciliation EXCEPT ![r].step = "ended",
                            ![r].status = IF reconciliation[r].failed THEN "failed" ELSE "passed"]
    /\ UNCHANGED <<tick, tableVars, gauges, exercise, scrape, rowsWritten, losses>>

\* A query or an insert raises: the rows before it stay.
ReconciliationStops(r) ==
    /\ reconciliation[r].step \in {"checking", "persisting"} /\ Loss
    /\ reconciliation' = [reconciliation EXCEPT ![r].step = "ended", ![r].status = "error"]
    /\ UNCHANGED <<tick, tableVars, gauges, exercise, scrape, rowsWritten>>

-------------------------------------------------------------------------------
(* reliability/runner.py: the row is written at the end, if it can be. *)

StartExercise(x) ==
    /\ exercise[x].step = "idle" /\ x \in story.runs
    /\ exercise' = [exercise EXCEPT ![x].step = "running", ![x].started = tick]
    /\ UNCHANGED <<tick, tableVars, gauges, reconciliation, scrape, rowsWritten, losses>>

EndExercise(x) ==
    /\ exercise[x].step = "running"
    /\ \E s \in {"passed", "failed", "not_run"} :
        exercise' = [exercise EXCEPT ![x].step = "persisting", ![x].finished = tick, ![x].status = s]
    /\ UNCHANGED <<tick, tableVars, gauges, reconciliation, scrape, rowsWritten, losses>>

PersistOutcome(x) ==
    /\ exercise[x].step = "persisting"
    /\ exercise' = [exercise EXCEPT ![x].step = "ended"]
    /\ \/ runRows' = runRows \cup {[started |-> exercise[x].started, finished |-> exercise[x].finished,
                                    status |-> exercise[x].status]} /\ UNCHANGED losses
       \/ Loss /\ UNCHANGED runRows
    /\ UNCHANGED <<tick, audit, lateRows, lastRow, gauges, reconciliation, scrape, rowsWritten>>

-------------------------------------------------------------------------------
(* The streaming job and the serving tables. *)

RowWritten(table) ==
    /\ MayWrite(table) /\ lastRow' = [lastRow EXCEPT ![table] = tick]
    /\ UNCHANGED <<tick, runRows, audit, lateRows, gauges, reconciliation, exercise, scrape, losses>>

LateEventStored ==
    /\ MayWrite("late") /\ lateRows' = lateRows \cup {[row |-> Cardinality(lateRows), tick |-> tick]}
    /\ UNCHANGED <<tick, runRows, audit, lastRow, gauges, reconciliation, exercise, scrape, losses>>

Tick ==
    /\ tick < story.ticks /\ tick' = tick + 1
    /\ UNCHANGED <<tableVars, gauges, reconciliation, exercise, scrape, rowsWritten, losses>>

-------------------------------------------------------------------------------
(* GET /metrics: refresh_all, then the registry as it is. *)

\* What each query reads; the last two belong to one refresh.
Queries == <<{"exercise"}, {"failures", "checks"}, {"checkpoint"}, {"late"}, {"daily"}, {"windows"}>>
FirstServing == 5
RefreshOf(q) == IF q >= FirstServing THEN {"daily", "windows"} ELSE Queries[q]

UnderWay == {sc \in Scrapes : scrape[sc].step \in {"query", "set"}}

StartScrape(sc) ==
    /\ scrape[sc].step = "idle" /\ sc \in story.scrapes
    /\ scrape' = [k \in Scrapes |->
        IF k = sc THEN [scrape[k] EXCEPT !.step = "query", !.alone = UnderWay = {},
                        !.before = {r \in Reconciliations : reconciliation[r].status = "failed"}]
        ELSE IF k \in UnderWay THEN [scrape[k] EXCEPT !.alone = FALSE] ELSE scrape[k]]
    /\ UNCHANGED <<tick, tableVars, gauges, reconciliation, exercise, rowsWritten, losses>>

\* The scrape after a refresh: the next one, or the answer.
After(sc, registry) ==
    IF scrape[sc].query < FirstServing
    THEN [scrape[sc] EXCEPT !.step = "query", !.query = @ + 1, !.got = [g \in Gauges |-> Absent]]
    ELSE [scrape[sc] EXCEPT !.step = "ended", !.ended = tick, !.response = registry]

QueryTables(sc) ==
    LET q == scrape[sc].query
    IN /\ scrape[sc].step = "query"
       /\ scrape' = [scrape EXCEPT ![sc].got = [g \in Gauges |-> IF g \in Queries[q] THEN Shown[g] ELSE @[g]],
                                   ![sc].step = IF q = FirstServing THEN "query" ELSE "set",
                                   ![sc].query = IF q = FirstServing THEN q + 1 ELSE q]
       /\ UNCHANGED <<tick, tableVars, gauges, reconciliation, exercise, rowsWritten, losses>>

\* What has no row keeps its sample.
SetGauges(sc) ==
    /\ scrape[sc].step = "set"
    /\ gauges' = [g \in Gauges |-> IF scrape[sc].got[g] = Absent THEN gauges[g] ELSE scrape[sc].got[g]]
    /\ scrape' = [scrape EXCEPT ![sc] = After(sc, gauges')]
    /\ UNCHANGED <<tick, tableVars, reconciliation, exercise, rowsWritten, losses>>

\* Mutant: one try around all refreshes.
EndRefreshes(sc) == [scrape[sc] EXCEPT !.step = "ended", !.ended = tick, !.response = gauges]

AfterFailure(sc) == After(sc, gauges)

RefreshFails(sc) ==
    /\ scrape[sc].step = "query" /\ Loss
    /\ scrape' = [scrape EXCEPT ![sc] = [AfterFailure(sc) EXCEPT !.failed = @ \cup RefreshOf(scrape[sc].query)]]
    /\ UNCHANGED <<tick, tableVars, gauges, reconciliation, exercise, rowsWritten>>

-------------------------------------------------------------------------------
SignalStep ==
    \/ \E r \in Reconciliations :
        \/ StartReconciliation(r) \/ RunCheckQuery(r) \/ PersistVerdict(r) \/ EndCheck(r) \/ Report(r)
        \/ ReconciliationStops(r)
    \/ \E x \in Exercises : StartExercise(x) \/ EndExercise(x) \/ PersistOutcome(x)
    \/ \E table \in DOMAIN lastRow : RowWritten(table)
    \/ LateEventStored
    \/ \E sc \in Scrapes : StartScrape(sc) \/ QueryTables(sc) \/ SetGauges(sc) \/ RefreshFails(sc)
    \/ Tick

Watch ==
    seen' = [sc \in Scrapes |->
        IF sc \in UnderWay' THEN [g \in Gauges |-> seen[sc][g] \cup {Shown[g]'}] ELSE seen[sc]]

SignalsNext == SignalStep /\ Watch /\ UNCHANGED story

SignalsSpec == SignalsInit /\ [][SignalsNext]_signalVars

-------------------------------------------------------------------------------
\* A scrape that met no other shows, for everything but a refresh that itself
\* failed, what the tables said while it ran, save that a sample outlives its
\* rows; and a reconciliation that had reported a failure is among the
\* failures for as long as its rows count.
ScrapeShowsTables ==
    \A sc \in Scrapes :
        LET s == scrape[sc]
        IN s.step = "ended" /\ s.alone =>
            /\ \A g \in Gauges \ s.failed : Absent \in seen[sc][g] \/ s.response[g] \in seen[sc][g]
            /\ \A r \in s.before :
                "failures" \in s.failed \/ reconciliation[r].lastFailure < s.ended - DayLookback
                \/ s.response["failures"] > 0
===============================================================================
