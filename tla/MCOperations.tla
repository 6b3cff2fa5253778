----------------------------- MODULE MCOperations -----------------------------
(* What operators and schedulers run beside the services: the identity     *)
(* provider's keys, the repair of the daily metrics, the restore drill,    *)
(* the quality checks, the console's gauges and the batch DAG.  A behaviour*)
(* runs one.                                                               *)
EXTENDS SigningKeys, MetricRepair, BackupDrill, DataQuality, OpsSignals, BatchJobs

VARIABLE scene

Ev(type, says, entity, day) == [type |-> type, says |-> says, entity |-> entity, day |-> day]
MCEvent == [
    created |-> Ev("order", "created", "o1", 1), moved |-> Ev("order", "updated", "o1", 2),
    paid |-> Ev("authorized", "authorized", "p1", 1), failed |-> Ev("failed", "failed", "p1", 1),
    signup |-> Ev("signed_up", "signed_up", "u1", 1), active |-> Ev("activity", "page_view", "u1", 1),
    churn |-> Ev("churn_signal", "cancel_intent", "u2", 2), sample |-> Ev("activity", "page_view", "u9", 2),
    settled |-> Ev("captured", "settled", "p2", 1), cancels |-> Ev("activity", "cancel_intent", "u3", 1)]

Ask(first, last, large, dry) == [first |-> first, last |-> last, large |-> large, dry |-> dry]
MCRequest == [
    wide |-> Ask(1, 2, TRUE, FALSE), day |-> Ask(1, 1, FALSE, FALSE),
    plan |-> Ask(1, 1, FALSE, TRUE), refused |-> Ask(1, 2, FALSE, FALSE)]
MCJobs == DOMAIN MCRequest

Script(events, jobs, onboard, n) == [events |-> events, jobs |-> jobs, onboard |-> onboard, faults |-> n]
MCScripts == {
    Script({"created", "moved"}, {"wide"}, FALSE, 1), Script({"created", "paid"}, {"wide", "day"}, FALSE, 0),
    Script({"signup"}, {"day", "wide"}, FALSE, 1), Script({"paid", "failed"}, {"day"}, FALSE, 1),
    Script({"active", "signup", "churn"}, {"plan", "wide"}, FALSE, 0), Script({"paid", "sample"}, {"day", "refused"}, TRUE, 1),
    Script({"settled", "cancels"}, {"day"}, FALSE, 1)}

MCBackedUp == <<"orders", "alerts">>

Db(minutes, count, average, broken) ==
    [minutes |-> minutes, todayCount |-> count, average |-> average, broken |-> broken]
Healthy == Db(5, 4, 2, {})
MCDatabases == {
    Healthy, Db(9, 0, 2, {"raw_event_required_fields", "processed_order_product_reference"}),
    Db(NoEvent, 0, NoEvent, {"processed_order_event_uniqueness"})}
MCActive == <<"t1", "t2">>
MCAsked == [nightly |-> <<>>, byHand |-> <<"t2", "t2">>, dry |-> <<"t2">>]

Planned(valid, dry, found) == [valid |-> valid, dry |-> dry, found |-> found]
MCPlan == [
    all |-> Planned(TRUE, FALSE, << <<"passed", "failed">>, <<"passed">> >>),
    dry |-> Planned(TRUE, TRUE, <<>>), refused |-> Planned(FALSE, FALSE, <<>>)]
MCReconciliations == DOMAIN MCPlan
Story(names, scrapes, tables, rows, ticks, n) ==
    [runs |-> names, scrapes |-> scrapes, tables |-> tables, rows |-> rows, ticks |-> ticks, losses |-> n]
MCStories == {
    Story({"all"}, {"s1"}, {}, 0, 1, 1), Story({"all"}, {"s1", "s2"}, {}, 0, 0, 0),
    Story({"x1", "x2"}, {"s1"}, {}, 0, 2, 0), Story({"x1", "dry", "refused"}, {"s1"}, {}, 0, 0, 1),
    Story({}, {"s1", "s2"}, {"daily", "windows"}, 2, 0, 1), Story({}, {"s1", "s2"}, {"late", "checkpoint"}, 1, 1, 0)}

RawRow(domain, day, recent) ==
    [domain |-> domain, tenant |-> "t1", day |-> day, session |-> "s", recent |-> recent]
MCAttributes == [
    order1 |-> RawRow("order", 1, TRUE), order2 |-> RawRow("order", 2, TRUE),
    user1 |-> RawRow("user", 1, TRUE), old |-> RawRow("order", 0, FALSE)]
MCRawEvents == DOMAIN MCAttributes
Batch(runs, rows, slots, more, n) ==
    [runs |-> runs, rows |-> rows, slots |-> slots, inserts |-> more, failures |-> n]
MCBatchStories == {
    Batch({"b1"}, {"old", "order1"}, 3, 2, 1), Batch({"b1", "b2"}, {"order1", "user1"}, 1, 0, 1),
    Batch({"b1", "b2"}, {"order1"}, 2, 0, 0)}

MCVars == <<keysVars, repairVars, drillVars, qualityVars, signalVars, batchVars, scene>>

\* The components that a scene does not run stay in one initial state.
MCInit ==
    /\ KeysInit /\ RepairInit /\ DrillInit /\ QualityInit /\ SignalsInit /\ BatchInit
    /\ scene \in {"keys", "repair", "drill", "quality", "signals", "batch"}
    /\ published = {"x"}
    /\ database = [t \in Tenants |-> Healthy]
    /\ scene # "repair" => handled["churn"] = "new"
    /\ scene # "drill" => source = [t \in TableSet |-> {}]
    /\ scene # "signals" => story.ticks = 2
    /\ scene # "batch" => batch.slots = 3

MCNext ==
    /\ UNCHANGED scene
    /\ \/ scene = "keys" /\ KeysNext /\ UNCHANGED <<repairVars, drillVars, qualityVars, signalVars, batchVars>>
       \/ scene = "repair" /\ RepairNext /\ UNCHANGED <<keysVars, drillVars, qualityVars, signalVars, batchVars>>
       \/ scene = "drill" /\ DrillNext /\ UNCHANGED <<keysVars, repairVars, qualityVars, signalVars, batchVars>>
       \/ scene = "quality" /\ QualityNext /\ UNCHANGED <<keysVars, repairVars, drillVars, signalVars, batchVars>>
       \/ scene = "signals" /\ SignalsNext /\ UNCHANGED <<keysVars, repairVars, drillVars, qualityVars, batchVars>>
       \/ scene = "batch" /\ BatchNext /\ UNCHANGED <<keysVars, repairVars, drillVars, qualityVars, signalVars>>

MCSpec == MCInit /\ [][MCNext]_MCVars
===============================================================================
