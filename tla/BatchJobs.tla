------------------------------ MODULE BatchJobs -------------------------------
(***************************************************************************)
(* The Airflow DAG cloudscale_batch_jobs and the four Spark jobs it runs   *)
(* over raw_events.  The DAG has no schedule and no limit on its runs, the *)
(* outputs have fixed names, and no task is retried.                       *)
(*                                                                         *)
(* Spark is modelled from how the jobs use it: mode("overwrite") deletes   *)
(* the old output before the input is read, the new one appears piece by   *)
(* piece (a partition directory, the rows of a JDBC partition), and a job  *)
(* that dies leaves the pieces it has written.  A piece is the set of the  *)
(* events it was made from.                                                *)
(***************************************************************************)
EXTENDS Naturals, FiniteSets

CONSTANTS
    DagRuns,
    RawEvents,      \* rows that may be in raw_events
    Attributes,     \* per event: domain, tenant, day, session, recent (within --days)
    BatchStories    \* bounds: per story the runs, the rows at first, and how many
                    \* jobs run at once, rows are inserted and tasks fail

ASSUME BatchAssumption ==
    /\ DOMAIN Attributes = RawEvents
    /\ BatchStories \subseteq [runs : SUBSET DagRuns, rows : SUBSET RawEvents,
                              slots : Nat, inserts : Nat, failures : Nat]

VARIABLES
    raw,        \* raw_events
    output,     \* per job, its directory or stage table: pieces, each with the run that wrote it
    task,       \* per run and task, its state; what a job has listed and read, and has still to write
    sole,       \* history: the run, if any, that no other run has disturbed since it began
    batch       \* the story, with what is left of its bounds

batchVars == <<raw, output, task, sole, batch>>

-------------------------------------------------------------------------------
(* The DAG. *)

SparkJobs == {"event_normalization", "revenue_aggregation", "sessionization", "lakehouse_compaction"}

\* Mutant: compaction beside normalization.
Unordered == [
    validate_event_contracts |-> {},
    check_contract_compatibility |-> {"validate_event_contracts"},
    event_normalization |-> {"check_contract_compatibility"},
    revenue_aggregation |-> {"check_contract_compatibility"},
    sessionization |-> {"check_contract_compatibility"},
    lakehouse_compaction |-> {"check_contract_compatibility"},
    metric_backfill_dry_run |-> SparkJobs,
    reconciliation_dry_run |-> {"metric_backfill_dry_run"}]

Upstream == [
    validate_event_contracts |-> {},
    check_contract_compatibility |-> {"validate_event_contracts"},
    event_normalization |-> {"check_contract_compatibility"},
    revenue_aggregation |-> {"check_contract_compatibility"},
    sessionization |-> {"check_contract_compatibility"},
    lakehouse_compaction |-> {"event_normalization"},
    metric_backfill_dry_run |-> SparkJobs \ {"event_normalization"},
    reconciliation_dry_run |-> {"metric_backfill_dry_run"}]

Tasks == DOMAIN Upstream

NotRun == [state |-> "none", listed |-> {}, read |-> {}, left |-> {}]

BatchInit ==
    /\ batch \in BatchStories
    /\ raw = batch.rows
    /\ output = [t \in SparkJobs |-> {}]
    /\ task = [d \in DagRuns |-> [t \in Tasks |-> NotRun]]
    /\ sole = {}

TaskState(d, t) == task[d][t].state
JobsRunning == {x \in batch.runs \X SparkJobs : TaskState(x[1], x[2]) \notin {"none", "success", "failed"}}
Triggered(d, t) == TaskState(d, t) = "none" /\ \A u \in Upstream[t] : TaskState(d, u) = "success"
TaskFault == batch.failures > 0 /\ batch' = [batch EXCEPT !.failures = @ - 1]
Becomes(d, t, s) == task' = [task EXCEPT ![d][t].state = s]

\* A contract check or a dry run: it changes nothing and passes or fails.
RunPlainTask(d, t) ==
    /\ t \notin SparkJobs /\ Triggered(d, t)
    /\ \/ Becomes(d, t, "success") /\ UNCHANGED batch
       \/ Becomes(d, t, "failed") /\ TaskFault
    /\ UNCHANGED <<raw, output, sole>>

StartJob(d, t) ==
    /\ t \in SparkJobs /\ Triggered(d, t) /\ Cardinality(JobsRunning) < batch.slots
    /\ Becomes(d, t, IF t = "lakehouse_compaction" THEN "list" ELSE "clear")
    /\ sole' = IF /\ \A x \in JobsRunning : x[1] = d
                  /\ d \in sole \/ \A u \in SparkJobs : TaskState(d, u) = "none"
               THEN {d} ELSE {}
    /\ UNCHANGED <<raw, output, batch>>

-------------------------------------------------------------------------------
(* The jobs. *)

Recent(es) == {e \in es : Attributes[e].recent}

\* The rows that the query of each job selects.
NormalizationInput == Recent(raw)
RevenueInput == {e \in Recent(raw) : Attributes[e].domain = "order"}
SessionInput == {e \in Recent(raw) : Attributes[e].domain = "user"}

\* What each job groups or partitions its rows by.
EventPartition(e) == <<Attributes[e].tenant, Attributes[e].day, Attributes[e].domain>>
RevenueGroup(e) == <<Attributes[e].tenant, Attributes[e].day>>
SessionGroup(e) == <<Attributes[e].tenant, Attributes[e].session>>

GroupOf(t, e) ==
    CASE t = "revenue_aggregation" -> RevenueGroup(e)
      [] t = "sessionization" -> SessionGroup(e)
      [] OTHER -> EventPartition(e)

Pieces(t, es) == {{f \in es : GroupOf(t, f) = GroupOf(t, e)} : e \in es}

\* spark.read.parquet lists the files; without one it has no schema.
ListInput(d) ==
    LET t == "lakehouse_compaction"
        files == output["event_normalization"]
    IN /\ TaskState(d, t) = "list"
       /\ task' = [task EXCEPT ![d][t].state = IF files = {} THEN "failed" ELSE "clear", ![d][t].listed = files]
       /\ UNCHANGED <<raw, output, sole, batch>>

ClearOutput(d, t) ==
    /\ TaskState(d, t) = "clear"
    /\ output' = [output EXCEPT ![t] = {}]
    /\ Becomes(d, t, "read")
    /\ UNCHANGED <<raw, sole, batch>>

\* dropDuplicates(event_id): an event in two of the files is read once.
Compacted(files) == UNION {file.events : file \in files}

InputOf(d, t) ==
    CASE t = "event_normalization" -> NormalizationInput
      [] t = "revenue_aggregation" -> RevenueInput
      [] t = "sessionization" -> SessionInput
      [] t = "lakehouse_compaction" -> Compacted(task[d][t].listed)

\* A listed file that is gone fails the job.
ReadInput(d, t) ==
    /\ TaskState(d, t) = "read"
    /\ IF task[d][t].listed \subseteq output["event_normalization"]
       THEN task' = [task EXCEPT ![d][t].state = "write", ![d][t].read = InputOf(d, t),
                                 ![d][t].left = Pieces(t, InputOf(d, t))]
       ELSE Becomes(d, t, "failed")
    /\ UNCHANGED <<raw, output, sole, batch>>

WritePiece(d, t) ==
    /\ TaskState(d, t) = "write"
    /\ \E piece \in task[d][t].left :
        /\ output' = [output EXCEPT ![t] = @ \cup {[by |-> d, events |-> piece]}]
        /\ task' = [task EXCEPT ![d][t].left = @ \ {piece}]
    /\ UNCHANGED <<raw, sole, batch>>

EndJob(d, t) ==
    /\ TaskState(d, t) = "write" /\ task[d][t].left = {}
    /\ Becomes(d, t, "success")
    /\ UNCHANGED <<raw, output, sole, batch>>

\* retries = 0, and nothing is undone.
JobFails(d, t) ==
    /\ TaskState(d, t) \in {"list", "clear", "read", "write"}
    /\ Becomes(d, t, "failed") /\ TaskFault
    /\ UNCHANGED <<raw, output, sole>>

InsertRaw(e) ==
    /\ e \notin raw /\ batch.inserts > 0
    /\ raw' = raw \cup {e} /\ batch' = [batch EXCEPT !.inserts = @ - 1]
    /\ UNCHANGED <<output, task, sole>>

BatchNext ==
    \/ \E d \in batch.runs :
        \/ ListInput(d)
        \/ \E t \in Tasks : RunPlainTask(d, t)
        \/ \E t \in SparkJobs :
            \/ StartJob(d, t) \/ ClearOutput(d, t) \/ ReadInput(d, t)
            \/ WritePiece(d, t) \/ EndJob(d, t) \/ JobFails(d, t)
    \/ \E e \in RawEvents : InsertRaw(e)

BatchSpec == BatchInit /\ [][BatchNext]_batchVars

-------------------------------------------------------------------------------
\* Whatever earlier runs left behind and whatever is inserted meanwhile: when a
\* job of the last run has ended and no other run disturbed that run, its output
\* is what this run read, whole and once, and the compacted events are those
\* that its own normalization read.
BatchOutputsAreWhole ==
    \A d \in sole, t \in SparkJobs :
        TaskState(d, t) = "success" =>
            LET from == IF t = "lakehouse_compaction" THEN "event_normalization" ELSE t
            IN /\ {piece.events : piece \in output[t]} = Pieces(t, task[d][from].read)
               /\ \A piece \in output[t] : piece.by = d
===============================================================================
