----------------------------- MODULE BackupDrill ------------------------------
(***************************************************************************)
(* backup_restore_drill.py: a dump of the live database with a manifest of *)
(* its row counts, restored into a scratch database, counted again, and    *)
(* dropped.  Writers go on meanwhile, and files and scratch databases are  *)
(* named after the second they were made in.                               *)
(***************************************************************************)
EXTENDS Naturals, Sequences, FiniteSets

CONSTANTS
    Drills, Keep,   \* the runs, and those with --keep-scratch-db
    BackedUp,       \* BACKED_UP_TABLES, in its order
    Rows,           \* the rows that a table may hold
    Nothing,        \* no file, database or content
    MaxSecond,      \* bound: seconds
    MaxWrites,      \* bound: rows written or deleted
    MaxFaults       \* bound: failed programs, failed queries and killed drills

TableSet == {BackedUp[k] : k \in DOMAIN BackedUp}

ASSUME DrillAssumption ==
    /\ {MaxSecond, MaxWrites, MaxFaults} \subseteq Nat /\ Keep \subseteq Drills
    /\ BackedUp \in Seq(TableSet) /\ IsFiniteSet(Rows)
    /\ Nothing \notin 0..MaxSecond /\ Nothing # "passed"

VARIABLES
    source,     \* the live database
    dumps, manifests,   \* the output directory
    scratch,    \* the other databases of the server
    second,
    drill,
    written,    \* history: rows written or deleted
    failed      \* faults so far

drillVars == <<source, dumps, manifests, scratch, second, drill, written, failed>>

Names == 0..MaxSecond
Empty == [t \in TableSet |-> {}]
Sizes(db) == [t \in TableSet |-> Cardinality(db[t])]

Ready == [step |-> "idle", db |-> Nothing, name |-> Nothing, snapshot |-> Empty, counts |-> <<>>,
          expected |-> Nothing, restored |-> Nothing, verdict |-> Nothing, since |-> 0]

DrillInit ==
    /\ source \in [TableSet -> SUBSET Rows]
    /\ dumps = [n \in Names |-> Nothing]
    /\ manifests = [n \in Names |-> Nothing]
    /\ scratch = [n \in Names |-> Nothing]
    /\ second = 0 /\ written = 0 /\ failed = 0
    /\ drill = [i \in Drills |-> Ready]

At(i, step) == drill[i].step = step
Goto(i, step) == drill' = [drill EXCEPT ![i].step = step]
Failing == failed < MaxFaults /\ failed' = failed + 1

\* An exception ends the drill; once the scratch database is there, the
\* finally clause comes first.
Raised(i) ==
    Goto(i, IF At(i, "restoring") \/ At(i, "verifying") THEN "finally" ELSE "ended")

-------------------------------------------------------------------------------
\* run_drill names its database.
BeginDrill(i) ==
    /\ At(i, "idle")
    /\ drill' = [drill EXCEPT ![i].step = "backup", ![i].db = second]
    /\ UNCHANGED <<source, dumps, manifests, scratch, second, written, failed>>

\* run_backup opens the dump file, and pg_dump takes its snapshot.
StartDump(i) ==
    /\ At(i, "backup")
    /\ drill' = [drill EXCEPT ![i].step = "dumping", ![i].name = second,
                              ![i].snapshot = source, ![i].since = written]
    /\ dumps' = [dumps EXCEPT ![second] = Empty]
    /\ UNCHANGED <<source, manifests, scratch, second, written, failed>>

\* Two dumps into one file spoil it.
Spoiled(i) == \E k \in Drills \ {i} : At(k, "dumping") /\ drill[k].name = drill[i].name

EndDump(i) ==
    /\ At(i, "dumping")
    /\ dumps' = [dumps EXCEPT ![drill[i].name] = IF Spoiled(i) THEN Empty ELSE drill[i].snapshot]
    /\ Goto(i, "counting")
    /\ UNCHANGED <<source, manifests, scratch, second, written, failed>>

\* A failed dump is deleted.
DumpFails(i) ==
    /\ At(i, "dumping") /\ Failing
    /\ dumps' = [dumps EXCEPT ![drill[i].name] = Nothing]
    /\ Raised(i)
    /\ UNCHANGED <<source, manifests, scratch, second, written>>

\* _row_counts: each count sees the database as it then is.
CountTable(i) ==
    /\ At(i, "counting") /\ Len(drill[i].counts) < Len(BackedUp)
    /\ LET t == BackedUp[Len(drill[i].counts) + 1]
       IN drill' = [drill EXCEPT ![i].counts = Append(@, Cardinality(source[t]))]
    /\ UNCHANGED <<source, dumps, manifests, scratch, second, written, failed>>

WriteManifest(i) ==
    /\ At(i, "counting") /\ Len(drill[i].counts) = Len(BackedUp)
    /\ IF dumps[drill[i].name] = Nothing
       THEN Raised(i) /\ UNCHANGED manifests
       ELSE /\ manifests' = [manifests EXCEPT ![drill[i].name] = drill[i].counts]
            /\ Goto(i, "creating")
    /\ UNCHANGED <<source, dumps, scratch, second, written, failed>>

\* Drop if exists, which fails while someone is connected, and create.
Connected(n) == \E k \in Drills : drill[k].db = n /\ At(k, "verifying")

CreateScratch(i) ==
    /\ At(i, "creating")
    /\ IF scratch[drill[i].db] # Nothing /\ Connected(drill[i].db)
       THEN Raised(i) /\ UNCHANGED scratch
       ELSE scratch' = [scratch EXCEPT ![drill[i].db] = Empty] /\ Goto(i, "restoring")
    /\ UNCHANGED <<source, dumps, manifests, second, written, failed>>

\* run_restore: pg_restore replaces the tables; its exit code is not looked
\* at, so some of the tables may stay as they were.
Restore(i) ==
    LET n == drill[i].name
        db == drill[i].db
    IN /\ At(i, "restoring")
       /\ IF manifests[n] = Nothing \/ dumps[n] = Nothing \/ scratch[db] = Nothing
          THEN Raised(i) /\ UNCHANGED <<scratch, failed>>
          ELSE /\ \E done \in SUBSET TableSet :
                    /\ IF done = TableSet THEN UNCHANGED failed ELSE Failing
                    /\ scratch' = [scratch EXCEPT ![db] = [t \in TableSet |-> IF t \in done THEN dumps[n][t] ELSE @[t]]]
               /\ drill' = [drill EXCEPT ![i].step = "verifying", ![i].expected = manifests[n]]
       /\ UNCHANGED <<source, dumps, manifests, second, written>>

\* Mutant: only tables with rows are compared.
NonEmptyMatch(i) ==
    LET db == scratch[drill[i].db]
    IN \A k \in DOMAIN BackedUp :
        Cardinality(db[BackedUp[k]]) \in {0, drill[i].expected[k]}

CountsMatch(i) ==
    LET db == scratch[drill[i].db]
    IN \A k \in DOMAIN BackedUp : Cardinality(db[BackedUp[k]]) = drill[i].expected[k]

Verify(i) ==
    /\ At(i, "verifying")
    /\ IF scratch[drill[i].db] = Nothing
       THEN Raised(i)
       ELSE drill' = [drill EXCEPT ![i].step = "finally", ![i].restored = scratch[drill[i].db],
                                   ![i].verdict = IF CountsMatch(i) THEN "passed" ELSE "failed"]
    /\ UNCHANGED <<source, dumps, manifests, scratch, second, written, failed>>

\* The finally clause ends every connection and drops.
Finally(i) ==
    /\ At(i, "finally") /\ Goto(i, "ended")
    /\ scratch' = IF i \in Keep THEN scratch ELSE [scratch EXCEPT ![drill[i].db] = Nothing]
    /\ UNCHANGED <<source, dumps, manifests, second, written, failed>>

QueryFails(i) ==
    /\ drill[i].step \in {"backup", "counting", "creating", "verifying"}
    /\ Failing /\ Raised(i)
    /\ UNCHANGED <<source, dumps, manifests, scratch, second, written>>

\* Killed, or the drop fails.
DrillDies(i) ==
    /\ drill[i].step \notin {"idle", "ended"}
    /\ Failing
    /\ drill' = [drill EXCEPT ![i].step = "ended", ![i].verdict = Nothing]
    /\ UNCHANGED <<source, dumps, manifests, scratch, second, written>>

\* The platform goes on.
Write(t, r) ==
    /\ written < MaxWrites /\ written' = written + 1
    /\ source' = [source EXCEPT ![t] = IF r \in @ THEN @ \ {r} ELSE @ \cup {r}]
    /\ UNCHANGED <<dumps, manifests, scratch, second, drill, failed>>

NextSecond ==
    /\ second < MaxSecond /\ second' = second + 1
    /\ UNCHANGED <<source, dumps, manifests, scratch, drill, written, failed>>

DrillNext ==
    \/ \E i \in Drills :
        \/ BeginDrill(i) \/ StartDump(i) \/ EndDump(i) \/ DumpFails(i) \/ CountTable(i) \/ WriteManifest(i)
        \/ CreateScratch(i) \/ Restore(i) \/ Verify(i) \/ Finally(i) \/ QueryFails(i) \/ DrillDies(i)
    \/ \E t \in TableSet, r \in Rows : Write(t, r)
    \/ NextSecond

DrillSpec == DrillInit /\ [][DrillNext]_drillVars

-------------------------------------------------------------------------------
\* No other drill used the dump or the database of this one.
Alone(i) == \A k \in Drills \ {i} : drill[k].db # drill[i].db /\ drill[k].name # drill[i].name

\* A drill that says "passed" restored what it dumped, whatever failed, if
\* nothing was written after its dump and no drill began in the same second.
PassedMeansRestored ==
    \A i \in Drills :
        drill[i].verdict = "passed" /\ written = drill[i].since /\ Alone(i) =>
            drill[i].restored = drill[i].snapshot
===============================================================================
