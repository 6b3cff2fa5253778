---------------------------- MODULE MetricRepair ------------------------------
(***************************************************************************)
(* One tenant's daily serving rows while the workers count events into     *)
(* them, operators rebuild them from the processed tables, and onboarding  *)
(* seeds them.  A daily row is kept as what it counts, so that what a      *)
(* repair dropped or counted twice can be told.  PostgreSQL runs at READ   *)
(* COMMITTED: each statement reads its own snapshot, and waits for the     *)
(* rows another transaction holds.                                         *)
(***************************************************************************)
EXTENDS Integers, FiniteSets, Sequences

CONSTANTS
    Event,          \* the events: the envelope's event_type, the payload's word for it (its
                    \* status or action, free text that nothing compares with the type), the
                    \* entity and the day of each
    Days,           \* metric dates
    Jobs, Request,  \* runs of backfill_metrics.py and what each asks
    MaxWindowDays,
    Today,          \* onboarding's date.today()
    SampleEvents,   \* events with the ids of onboarding's sample events
    NoRow,          \* no daily row
    MaxInFlight,    \* bound: workers of the group
    Scripts         \* bound: what happens in a behaviour: the events, the runs, whether the
                    \* tenant is onboarded, and how many statements, answers or processes fail

Events == DOMAIN Event

ASSUME RepairAssumption ==
    /\ Days \subseteq Nat /\ Today \in Days /\ SampleEvents \subseteq Events
    /\ IsFiniteSet(Events)
    /\ \A e \in Events :
        /\ Event[e].day \in Days
        /\ Event[e].type \in {"order", "authorized", "captured", "failed", "signed_up", "activity", "churn_signal"}
    /\ {MaxWindowDays, MaxInFlight} \subseteq Nat

VARIABLES
    facts,      \* processed_orders, _payments, _user_sessions: the event that last wrote each row
    handled,    \* how far the worker is with each event
    daily,      \* tenant_metrics_daily
    caught,     \* history: per day, the events half handled when it was last rebuilt
    job,        \* the backfills
    runLog,     \* pipeline_run_log, per backfill
    lineage,    \* lineage_events, per backfill
    onboarding, \* apply_onboarding: the tables written so far
    faults      \* that may still happen

repairVars == <<facts, handled, daily, caught, job, runLog, lineage, onboarding, faults>>
factVars == <<facts, handled>>
jobVars == <<job, runLog, lineage>>

-------------------------------------------------------------------------------
(* What is counted. *)

Payments == {"authorized", "captured", "failed"}
Users == {"signed_up", "activity", "churn_signal"}

Counters == {"orders", "successes", "failures", "new_users", "active_users", "churn"}

\* metric_delta_for_event: the counters that an event adds one to, by its type.
MetricDelta(e) ==
    CASE Event[e].type = "order" -> {"orders"}
      [] Event[e].type \in {"authorized", "captured"} -> {"successes"}
      [] Event[e].type = "failed" -> {"failures"}
      [] Event[e].type = "signed_up" -> {"new_users", "active_users"}
      [] Event[e].type = "activity" -> {"active_users"}
      [] Event[e].type = "churn_signal" -> {"churn"}

\* The filters of the backfill's select: the table, which the type decides, and
\* the status or action of the row.
Selected(e, c) ==
    CASE c = "orders" -> Event[e].type = "order"
      [] c = "successes" -> Event[e].type \in Payments /\ Event[e].says \in {"authorized", "captured"}
      [] c = "failures" -> Event[e].type \in Payments /\ Event[e].says = "failed"
      [] c = "new_users" -> Event[e].type \in Users /\ Event[e].says = "signed_up"
      [] c = "active_users" -> Event[e].type \in Users
      [] c = "churn" -> Event[e].type \in Users /\ Event[e].says \in {"churn_signal", "cancel_intent"}

\* Rows, and distinct users.
Recount(rows, c) ==
    LET these == {e \in rows : Selected(e, c)}
    IN IF c \in {"new_users", "active_users"} THEN Cardinality({Event[e].entity : e \in these}) ELSE Cardinality(these)

FactsOf(d) == {e \in facts : Event[e].day = d}

\* A daily row: values it was seeded with, rows it was rebuilt from, events
\* added since.
Row(start, base, since) == [start |-> start, base |-> base, since |-> since]
DailyRows == [start : [Counters -> Nat], base : SUBSET Events, since : SUBSET Events]

ASSUME NoRowAssumption == NoRow \notin DailyRows

Zero == [c \in Counters |-> 0]
Serving(row, c) ==
    IF row = NoRow THEN 0
    ELSE row.start[c] + Recount(row.base, c) + Cardinality({e \in row.since : c \in MetricDelta(e)})

\* The counters that each reconciliation compares, and the events they count.
RevenueCheck == [counters |-> {"orders"}, types |-> {"order"}]
PaymentCheck == [counters |-> {"successes", "failures"}, types |-> Payments]
CustomerCheck == [counters |-> {"new_users", "active_users", "churn"}, types |-> Users]
Checks == {RevenueCheck, PaymentCheck, CustomerCheck}

\* evaluate_reconciliation over a snapshot of one statement.
Verdict(check, d) ==
    IF \A c \in check.counters : Serving(daily[d], c) = Recount(FactsOf(d), c) THEN "passed" ELSE "failed"

\* What apply_onboarding writes, in its order.
Tables == <<"config", "users", "products", "raw_events", "daily">>

-------------------------------------------------------------------------------
RepairInit ==
    /\ facts = {}
    /\ \E script \in Scripts :
        /\ handled = [e \in Events |-> IF e \in script.events THEN "new" ELSE "absent"]
        /\ job = [j \in Jobs |-> [step |-> IF j \in script.jobs THEN "idle" ELSE "ended",
                                  seen |-> {}, deleted |-> {}, base |-> {}, late |-> {}]]
        /\ onboarding = IF script.onboard THEN <<>> ELSE Tables
        /\ faults = script.faults
    /\ daily = [d \in Days |-> NoRow]
    /\ caught = [d \in Days |-> {}]
    /\ runLog = [j \in Jobs |-> "none"]
    /\ lineage = [j \in Jobs |-> "none"]

Fault == faults > 0 /\ faults' = faults - 1

Window(j) == {d \in Days : Request[j].first <= d /\ d <= Request[j].last}

\* The days whose row the transaction of a backfill has deleted or inserted.
Holds(j, d) ==
    \/ job[j].step \in {"deleted", "inserting", "inserted"} /\ d \in job[j].deleted
    \/ job[j].step = "inserted" /\ d \in Window(j)

Free(d, js) == \A j \in js : ~Holds(j, d)

-------------------------------------------------------------------------------
(* The worker, in steps that commit on their own. *)

\* An order or a payment keeps one row, which later events overwrite; a user
\* event adds a row.
WriteFact(e) ==
    /\ handled[e] = "new"
    /\ Cardinality({f \in Events : handled[f] = "written"}) < MaxInFlight
    /\ facts' = {e} \cup {f \in facts : Event[f].type \in Users \/ Event[f].entity # Event[e].entity}
    /\ handled' = [handled EXCEPT ![e] = "written"]
    /\ UNCHANGED <<daily, caught, jobVars, onboarding, faults>>

\* write_metric_delta: the upsert waits for a backfill that holds the day.
CountDaily(e) ==
    /\ handled[e] = "written"
    /\ Free(Event[e].day, Jobs)
    /\ LET d == Event[e].day
           row == IF daily[d] = NoRow THEN Row(Zero, {}, {}) ELSE daily[d]
       IN daily' = [daily EXCEPT ![d] = [row EXCEPT !.since = @ \cup {e}]]
    /\ handled' = [handled EXCEPT ![e] = "counted"]
    /\ UNCHANGED <<facts, caught, jobVars, onboarding, faults>>

\* The worker dies in between; redelivered, the event is a duplicate.
WorkerDies(e) ==
    /\ handled[e] = "written" /\ Fault
    /\ handled' = [handled EXCEPT ![e] = "lost"]
    /\ UNCHANGED <<facts, daily, caught, jobVars, onboarding>>

-------------------------------------------------------------------------------
(* run_backfill. *)

JobIs(j, step) == job[j].step = step
JobTo(j, step) == job' = [job EXCEPT ![j].step = step]

\* validate_request.
ValidRequest(j) ==
    /\ Request[j].first <= Request[j].last
    /\ Request[j].last - Request[j].first + 1 <= MaxWindowDays \/ Request[j].large

\* The row of the run is inserted outside the try: when that fails, or its
\* answer is lost, the run ends and no status follows.
RunBackfill(j) ==
    /\ JobIs(j, "idle")
    /\ \/ /\ ~ValidRequest(j) \/ Request[j].dry
          /\ JobTo(j, "ended")
          /\ UNCHANGED <<runLog, faults>>
       \/ /\ ValidRequest(j) /\ ~Request[j].dry
          /\ JobTo(j, "logged")
          /\ runLog' = [runLog EXCEPT ![j] = "running"]
          /\ UNCHANGED faults
       \/ /\ ValidRequest(j) /\ ~Request[j].dry
          /\ Fault /\ JobTo(j, "ended")
          /\ runLog' \in {runLog, [runLog EXCEPT ![j] = "running"]}
    /\ UNCHANGED <<factVars, daily, caught, lineage, onboarding>>

\* The delete reads which rows there are, then takes them when they are free.
BeginDelete(j) ==
    /\ JobIs(j, "logged")
    /\ job' = [job EXCEPT ![j].step = "deleting", ![j].seen = {d \in Window(j) : daily[d] # NoRow}]
    /\ UNCHANGED <<factVars, daily, caught, runLog, lineage, onboarding, faults>>

Delete(j) ==
    /\ JobIs(j, "deleting")
    /\ \A d \in job[j].seen : Free(d, Jobs \ {j})
    /\ job' = [job EXCEPT ![j].step = "deleted", ![j].deleted = job[j].seen]
    /\ UNCHANGED <<factVars, daily, caught, runLog, lineage, onboarding, faults>>

BeginInsert(j) ==
    /\ JobIs(j, "deleted")
    /\ job' = [job EXCEPT ![j].step = "inserting",
                          ![j].base = UNION {FactsOf(d) : d \in Window(j)},
                          ![j].late = {e \in Events : handled[e] = "written"}]
    /\ UNCHANGED <<factVars, daily, caught, runLog, lineage, onboarding, faults>>

\* Mutant: on conflict, the insert overwrites.
OverwritingInsert(j) ==
    /\ JobIs(j, "inserting")
    /\ \A d \in Window(j) : Free(d, Jobs \ {j})
    /\ JobTo(j, "inserted")
    /\ UNCHANGED <<factVars, daily, caught, runLog, lineage, onboarding, faults>>

\* A row that the delete did not see is a duplicate key, and the transaction
\* is rolled back.
Insert(j) ==
    /\ JobIs(j, "inserting")
    /\ \A d \in Window(j) : Free(d, Jobs \ {j})
    /\ JobTo(j, IF \E d \in Window(j) \ job[j].deleted : daily[d] # NoRow THEN "failing" ELSE "inserted")
    /\ UNCHANGED <<factVars, daily, caught, runLog, lineage, onboarding, faults>>

\* Mutant: the insert adds to the row, as the worker's upsert does.
AddedRow(j, d) ==
    LET rebuilt == {e \in job[j].base : Event[e].day = d}
    IN IF daily[d] = NoRow THEN Row(Zero, rebuilt, {}) ELSE Row(daily[d].start, rebuilt, daily[d].since)

RebuiltRow(j, d) == Row(Zero, {e \in job[j].base : Event[e].day = d}, {})

Rebuilt(j) == [d \in Days |-> IF d \in Window(j) THEN RebuiltRow(j, d) ELSE daily[d]]

\* The commit; a delete that waits for these rows finds them gone.  The
\* answer may be lost.
Commit(j) ==
    /\ JobIs(j, "inserted")
    /\ daily' = Rebuilt(j)
    /\ caught' = [d \in Days |-> IF d \in Window(j) THEN job[j].late ELSE caught[d]]
    /\ \E step \in {"committed", "failing"} :
        /\ step = "failing" => Fault
        /\ step = "committed" => UNCHANGED faults
        /\ job' = [k \in Jobs |-> IF k = j THEN [job[j] EXCEPT !.step = step]
                                  ELSE [job[k] EXCEPT !.seen = @ \ Window(j)]]
    /\ UNCHANGED <<factVars, runLog, lineage, onboarding>>

\* The status of the run, then its lineage, which may fail without effect.  A
\* failed status update after the commit is handled as a failed run.
LogSuccess(j) ==
    /\ JobIs(j, "committed")
    /\ JobTo(j, "emitting")
    /\ runLog' = [runLog EXCEPT ![j] = "succeeded"]
    /\ UNCHANGED <<factVars, daily, caught, lineage, onboarding, faults>>

LogFailure(j) ==
    /\ JobIs(j, "failing")
    /\ JobTo(j, "emitting")
    /\ runLog' = [runLog EXCEPT ![j] = "failed"]
    /\ UNCHANGED <<factVars, daily, caught, lineage, onboarding, faults>>

EmitLineage(j) ==
    /\ JobIs(j, "emitting")
    /\ JobTo(j, "ended")
    /\ \/ lineage' = [lineage EXCEPT ![j] = runLog[j]] /\ UNCHANGED faults
       \/ Fault /\ UNCHANGED lineage
    /\ UNCHANGED <<factVars, daily, caught, runLog, onboarding>>

\* A statement fails, or the process is killed: an open transaction is
\* rolled back.
StatementFails(j) ==
    /\ job[j].step \in {"logged", "deleting", "deleted", "inserting", "inserted", "committed"}
    /\ Fault /\ JobTo(j, "failing")
    /\ UNCHANGED <<factVars, daily, caught, runLog, lineage, onboarding>>

JobDies(j) ==
    /\ job[j].step \notin {"idle", "ended"}
    /\ Fault /\ JobTo(j, "ended")
    /\ UNCHANGED <<factVars, daily, caught, runLog, lineage, onboarding>>

-------------------------------------------------------------------------------
(* apply_onboarding, again and again for a tenant that exists. *)

\* What the upsert of the day's row sets, and what it leaves.
Seeded(row) ==
    Row([c \in Counters |-> IF c \in {"orders", "successes", "active_users"} THEN 1 ELSE Serving(row, c)], {}, {})

\* The sample events go straight into raw_events, unless they are there: the
\* worker, when the tenant sends one, takes it for a duplicate.
SampleRows ==
    [e \in Events |-> IF e \in SampleEvents /\ handled[e] = "new" THEN "seeded" ELSE handled[e]]

SeedTable ==
    /\ Len(onboarding) < Len(Tables)
    /\ onboarding' = Append(onboarding, Tables[Len(onboarding) + 1])
    /\ IF Tables[Len(onboarding) + 1] = "daily"
       THEN Free(Today, Jobs) /\ daily' = [daily EXCEPT ![Today] = Seeded(daily[Today])]
       ELSE UNCHANGED daily
    /\ handled' = IF Tables[Len(onboarding) + 1] = "raw_events" THEN SampleRows ELSE handled
    /\ UNCHANGED <<facts, caught, jobVars, faults>>

OnboardingStops ==
    /\ onboarding # <<>> /\ Fault
    /\ onboarding' = <<>>
    /\ UNCHANGED <<factVars, daily, caught, jobVars>>

RepairNext ==
    \/ \E e \in Events : WriteFact(e) \/ CountDaily(e) \/ WorkerDies(e)
    \/ \E j \in Jobs :
        \/ RunBackfill(j) \/ BeginDelete(j) \/ Delete(j) \/ BeginInsert(j) \/ Insert(j) \/ Commit(j)
        \/ LogSuccess(j) \/ LogFailure(j) \/ EmitLineage(j) \/ StatementFails(j) \/ JobDies(j)
    \/ SeedTable \/ OnboardingStops

RepairSpec == RepairInit /\ [][RepairNext]_repairVars

-------------------------------------------------------------------------------
Overwritten(e) ==
    \E f \in Events \ {e} : Event[f].entity = Event[e].entity /\ handled[f] \notin {"absent", "new", "seeded"}

\* The payload's word puts the event under other counters than its type.
Contradicts(e) ==
    LET type == Event[e].type
        says == Event[e].says
    IN  \/ type \in {"authorized", "captured"} /\ says \notin {"authorized", "captured"}
        \/ type \in {"failed", "signed_up"} /\ says # type
        \/ type = "activity" /\ says \in {"signed_up", "churn_signal", "cancel_intent"}
        \/ type = "churn_signal" /\ says \notin {"churn_signal", "cancel_intent"}

\* What a worker has counted stays counted: added since the last rebuild, or
\* rebuilt, under each of its counters, from the row of its order, payment or
\* user, whatever backfills, failures and restarts came in between.  Only an
\* event whose payload contradicts its type is rebuilt under other counters.
NoCountIsLost ==
    \A e \in Events :
        handled[e] = "counted" =>
            LET row == daily[Event[e].day]
            IN /\ row # NoRow
               /\ \/ row.start # Zero
                  \/ e \in row.since
                  \/ e \in row.base /\ (Contradicts(e) \/ \A c \in MetricDelta(e) : Selected(e, c))
                  \/ Event[e].type \notin Users /\ Overwritten(e)

\* A reconciliation fails only for a reason: a seeded day, an event half
\* handled, now, at a crash or when the day was rebuilt, a second event of the
\* same order, payment or user, a payload that contradicts its event's type, or
\* a churn signal, which makes a user active only in the processed tables.
AlarmsAreExplained ==
    \A check \in Checks, d \in Days :
        Verdict(check, d) = "failed" =>
            \/ daily[d] # NoRow /\ daily[d].start # Zero
            \/ \E e \in Events :
                /\ Event[e].type \in check.types
                /\ \/ Event[e].day = d /\ handled[e] \in {"written", "lost"}
                   \/ Event[e].day = d /\ e \in caught[d]
                   \/ Event[e].day = d /\ handled[e] = "counted" /\ Event[e].type = "churn_signal"
                   \/ Event[e].day = d /\ handled[e] = "counted" /\ Contradicts(e)
                   \/ handled[e] \notin {"absent", "new", "seeded"} /\ Overwritten(e)
===============================================================================
