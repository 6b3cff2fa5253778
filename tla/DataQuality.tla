----------------------------- MODULE DataQuality ------------------------------
(***************************************************************************)
(* run_data_quality_checks.py: for each tenant eight queries, each with    *)
(* its own snapshot, then a row per result and the score of the day, each  *)
(* committed on its own.  Several runs may be under way, from the          *)
(* scheduler and by hand, and any of them may stop anywhere.               *)
(***************************************************************************)
EXTENDS Naturals, SequencesExt

CONSTANTS
    Active,             \* the active tenants of tenant_config, in order
    Runs, Asked,        \* runs of the script, and the --tenant-id options of each
    DryRuns,            \* those with --dry-run
    FreshnessMinutes,
    NoEvent,            \* no event, or no earlier day with events
    Databases,          \* what a tenant's tables may hold
    NoScore,
    MaxDay, MaxChanges, MaxStops, MaxRuns   \* bounds: days, changes of a tenant's tables,
                                            \* stopped runs, runs

Tenants == Range(Active) \cup UNION {Range(Asked[r]) : r \in Runs}

ASSUME QualityAssumption ==
    /\ DryRuns \subseteq Runs
    /\ Active \in Seq(Range(Active)) /\ \A r \in Runs : Asked[r] \in Seq(Range(Asked[r]))
    /\ {MaxDay, MaxChanges, MaxStops, MaxRuns} \subseteq Nat

VARIABLES
    database,   \* per tenant
    today,
    results,    \* data_quality_check_results
    scores,     \* data_quality_score_daily, per tenant and day
    run,
    changes, stops

qualityVars == <<database, today, results, scores, run, changes, stops>>

-------------------------------------------------------------------------------
(* The checks, in their order. *)

Check(name, severity) == [name |-> name, severity |-> severity]
QualityChecks == <<
    Check("raw_event_freshness", "critical"), Check("raw_event_required_fields", "critical"),
    Check("processed_order_event_uniqueness", "high"), Check("processed_order_revenue_ranges", "critical"),
    Check("processed_payment_status_domain", "high"), Check("processed_order_product_reference", "medium"),
    Check("tenant_metric_non_negative_ranges", "critical"), Check("raw_event_volume_anomaly", "medium")>>

PassedIf(condition, otherwise) == IF condition THEN "passed" ELSE otherwise

\* Between 0.4 and 2.5 times the average of the earlier days.
UsualVolume(db) == 5 * db.todayCount >= 2 * db.average /\ 2 * db.todayCount <= 5 * db.average

StatusOf(check, db) ==
    CASE check.name = "raw_event_freshness" ->
            IF db.minutes = NoEvent THEN "warning" ELSE PassedIf(db.minutes <= FreshnessMinutes, "failed")
      [] check.name = "raw_event_volume_anomaly" ->
            PassedIf(db.average \notin {NoEvent, 0} /\ UsualVolume(db), "warning")
      [] check.name = "processed_order_product_reference" -> PassedIf(check.name \notin db.broken, "warning")
      [] OTHER -> PassedIf(check.name \notin db.broken, "failed")

\* quality_score, in half points.
QualityScore(statuses) ==
    LET with(s) == {n \in DOMAIN statuses : statuses[n] = s}
        failed == Cardinality(with("failed"))
        warnings == Cardinality(with("warning"))
        critical == Cardinality({n \in with("failed") : QualityChecks[n].severity = "critical"})
        lost == 40 * failed + 15 * warnings + 30 * critical
    IN [score |-> IF lost > 200 THEN 0 ELSE 200 - lost, passed |-> Cardinality(with("passed")),
        failed |-> failed, warnings |-> warnings, critical |-> critical]

-------------------------------------------------------------------------------
QualityInit ==
    /\ database \in [Tenants -> Databases]
    /\ today = 1
    /\ results = {}
    /\ scores = [t \in Tenants |-> [d \in 1..MaxDay |-> NoScore]]
    /\ run = [r \in Runs |-> [step |-> "idle", left |-> <<>>, tenant |-> Head(Active), statuses |-> <<>>, saved |-> 0]]
    /\ changes = 0 /\ stops = 0

\* The tenants asked for, or the active ones.
StartRun(r) ==
    /\ run[r].step = "idle" /\ Cardinality({k \in Runs : run[k].step # "idle"}) < MaxRuns
    /\ run' = [run EXCEPT ![r].step = "next", ![r].left = IF Asked[r] = <<>> THEN Active ELSE Asked[r]]
    /\ UNCHANGED <<database, today, results, scores, changes, stops>>

NextTenant(r) ==
    /\ run[r].step = "next"
    /\ run' = [run EXCEPT ![r] =
                IF @.left = <<>> THEN [@ EXCEPT !.step = "ended"]
                ELSE [step |-> "checking", left |-> Tail(@.left), tenant |-> Head(@.left),
                      statuses |-> <<>>, saved |-> 0]]
    /\ UNCHANGED <<database, today, results, scores, changes, stops>>

RunCheck(r) ==
    LET statuses == Append(run[r].statuses, StatusOf(QualityChecks[Len(run[r].statuses) + 1], database[run[r].tenant]))
    IN /\ run[r].step = "checking"
       /\ run' = [run EXCEPT ![r].statuses = statuses,
                             ![r].step = IF Len(statuses) < Len(QualityChecks) THEN "checking"
                                         ELSE IF r \in DryRuns THEN "next" ELSE "saving"]
       /\ UNCHANGED <<database, today, results, scores, changes, stops>>

\* A row carries the pass that wrote it, by the tenants that the run had left:
\* an option may name a tenant twice.
ResultRow(r, n) ==
    [run |-> r, pass |-> Len(run[r].left), tenant |-> run[r].tenant, check |-> n, status |-> run[r].statuses[n]]

InsertResult(r) ==
    LET n == run[r].saved + 1
    IN /\ run[r].step = "saving" /\ n <= Len(QualityChecks)
       /\ results' = results \cup {ResultRow(r, n)}
       /\ run' = [run EXCEPT ![r].saved = n]
       /\ UNCHANGED <<database, today, scores, changes, stops>>

\* Mutant: the score comes first.
ScoreFirst(r) == run[r].saved = 0

ScoreIsDue(r) == run[r].saved = Len(QualityChecks)

\* The day is the one on which the score is written.
UpsertScore(r) ==
    /\ run[r].step = "saving" /\ ScoreIsDue(r)
    /\ scores' = [scores EXCEPT ![run[r].tenant][today] = QualityScore(run[r].statuses)]
    /\ run' = [run EXCEPT ![r].step = "next"]
    /\ UNCHANGED <<database, today, results, changes, stops>>

\* A query or a write raises, or the process is killed: the tenants left go
\* unchecked.
RunStops(r) ==
    /\ run[r].step \in {"next", "checking", "saving"} /\ stops < MaxStops
    /\ run' = [run EXCEPT ![r].step = "ended"]
    /\ stops' = stops + 1
    /\ UNCHANGED <<database, today, results, scores, changes>>

\* The platform goes on.
TablesChange(t) ==
    /\ changes < MaxChanges /\ changes' = changes + 1
    /\ \E db \in Databases \ {database[t]} : database' = [database EXCEPT ![t] = db]
    /\ UNCHANGED <<today, results, scores, run, stops>>

Midnight ==
    /\ today < MaxDay /\ today' = today + 1
    /\ UNCHANGED <<database, results, scores, run, changes, stops>>

QualityNext ==
    \/ \E r \in Runs :
        StartRun(r) \/ NextTenant(r) \/ RunCheck(r) \/ InsertResult(r) \/ UpsertScore(r) \/ RunStops(r)
    \/ \E t \in Tenants : TablesChange(t)
    \/ Midnight

QualitySpec == QualityInit /\ [][QualityNext]_qualityVars

-------------------------------------------------------------------------------
\* The rows that one pass of a run has stored.
PassRows(r, p) == {s \in results : s.run = r /\ s.pass = p}

StoredStatuses(rows) == [n \in DOMAIN QualityChecks |-> (CHOOSE s \in rows : s.check = n).status]

\* A score can be accounted for, whichever runs crossed or stopped: it is that
\* of the stored results of one pass of one run, complete, over that tenant.
ScoreHasItsResults ==
    \A t \in Tenants, d \in 1..MaxDay :
        scores[t][d] # NoScore =>
            \E s \in results :
                /\ {other.check : other \in PassRows(s.run, s.pass)} = DOMAIN QualityChecks
                /\ \A other \in PassRows(s.run, s.pass) : other.tenant = t
                /\ scores[t][d] = QualityScore(StoredStatuses(PassRows(s.run, s.pass)))
===============================================================================
