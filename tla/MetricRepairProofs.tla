-------------------------- MODULE MetricRepairProofs --------------------------
(***************************************************************************)
(* Proofs about MetricRepair, for any events, days and backfills.          *)
(***************************************************************************)
EXTENDS MetricRepair, FiniteSetTheorems, TLAPS

Untouched == {"absent", "new", "seeded"}
JobSteps ==
    {"idle", "logged", "deleting", "deleted", "inserting", "inserted", "committed", "failing", "emitting", "ended"}
JobRecords ==
    [step : JobSteps, seen : SUBSET Days, deleted : SUBSET Days, base : SUBSET Events, late : SUBSET Events]

RepairTypeOK ==
    /\ facts \subseteq Events
    /\ handled \in [Events -> Untouched \cup {"written", "counted", "lost"}]
    /\ daily \in [Days -> DailyRows \cup {NoRow}]
    /\ caught \in [Days -> SUBSET Events]
    /\ job \in [Jobs -> JobRecords]

\* The processed tables hold what the worker began with, save what a later
\* event of the same order or payment overwrote.
Superseded(e) == Event[e].type \notin Users /\ Overwritten(e)
FactsAreKept ==
    /\ \A e \in facts : handled[e] \notin Untouched
    /\ \A e \in Events : handled[e] \notin Untouched => e \in facts \/ Superseded(e)

\* A row was rebuilt from events of its day that the worker had begun with, and
\* has counted others since; it can count one twice that was caught half handled.
RowIsExplained(d, row, hs, caughtOnes) ==
    row # NoRow =>
        /\ \A e \in row.base \cup row.since : Event[e].day = d
        /\ \A e \in row.base : hs[e] \notin Untouched
        /\ \A e \in row.since : hs[e] = "counted"
        /\ \A e \in row.base : hs[e] = "written" \/ e \in row.since => e \in caughtOnes

\* What is counted when a backfill inserts is in what it has read, unless it
\* was counted since into a row that makes the insert fail.
BaseIsWhole(j, k, hs, rows) ==
    k.step \in {"inserting", "inserted"} =>
        /\ \A e \in k.base : hs[e] \notin Untouched /\ (hs[e] = "written" => e \in k.late)
        /\ \A e \in Events : hs[e] = "counted" /\ Event[e].day \in Window(j) =>
            \/ e \in k.base \/ Superseded(e)
            \/ k.step = "inserting" /\ Event[e].day \notin k.deleted /\ rows[Event[e].day] # NoRow

\* A count is in the row, or is superseded: NoCountIsLost, counter by counter,
\* follows from the types of the events.
CountsAreHeld ==
    \A e \in Events :
        handled[e] = "counted" =>
            LET row == daily[Event[e].day]
            IN /\ row # NoRow
               /\ row.start # Zero \/ e \in row.since \cup row.base \/ Superseded(e)

RepairInv ==
    /\ RepairTypeOK /\ FactsAreKept /\ CountsAreHeld
    /\ \A d \in Days : RowIsExplained(d, daily[d], handled, caught[d])
    /\ \A j \in Jobs : BaseIsWhole(j, job[j], handled, daily)

LEMMA RepairInvInitially == RepairInit => RepairInv
<1> SUFFICES ASSUME RepairInit PROVE RepairInv
    OBVIOUS
<1>1. PICK script \in Scripts :
        /\ handled = [e \in Events |-> IF e \in script.events THEN "new" ELSE "absent"]
        /\ job = [j \in Jobs |-> [step |-> IF j \in script.jobs THEN "idle" ELSE "ended",
                                  seen |-> {}, deleted |-> {}, base |-> {}, late |-> {}]]
    BY DEF RepairInit
<1>2. handled \in [Events -> Untouched] /\ \A e \in Events : handled[e] \in Untouched
    BY <1>1 DEF Untouched
<1>3. ASSUME NEW j \in Jobs PROVE job[j] \in JobRecords /\ job[j].step \notin {"inserting", "inserted"}
    BY <1>1 DEF JobRecords, JobSteps
<1>4. facts = {} /\ daily = [d \in Days |-> NoRow] /\ caught = [d \in Days |-> {}]
    BY DEF RepairInit
<1>5. RepairTypeOK
    BY <1>1, <1>2, <1>3, <1>4 DEF RepairTypeOK, Untouched
<1>6. FactsAreKept
    BY <1>2, <1>4 DEF FactsAreKept
<1>7. CountsAreHeld
    BY <1>2 DEF CountsAreHeld, Untouched
<1>8. \A d \in Days : RowIsExplained(d, daily[d], handled, caught[d])
    BY <1>4 DEF RowIsExplained
<1>9. \A j \in Jobs : BaseIsWhole(j, job[j], handled, daily)
    BY <1>3 DEF BaseIsWhole
<1> QED BY <1>5, <1>6, <1>7, <1>8, <1>9 DEF RepairInv

\* What was overwritten once is overwritten for good.
LEMMA OverwrittenStays ==
    ASSUME \A f \in Events : handled[f] \notin Untouched => handled'[f] \notin Untouched
    PROVE  \A e \in Events : (Overwritten(e) => Overwritten(e)') /\ (Superseded(e) => Superseded(e)')
BY DEF Overwritten, Superseded, Untouched

\* A step of a backfill that writes no row of the serving table.
LEMMA JobGoesOn ==
    ASSUME RepairInv, UNCHANGED <<facts, handled, daily, caught>>, NEW j \in Jobs, NEW new \in JobRecords,
           BaseIsWhole(j, new, handled, daily), job' = [job EXCEPT ![j] = new]
    PROVE  RepairInv'
<1> USE DEF RepairInv
<1>1. job' \in [Jobs -> JobRecords] /\ \A k \in Jobs : job'[k] = IF k = j THEN new ELSE job[k]
    BY DEF RepairTypeOK
<1>2. RepairTypeOK'
    BY <1>1 DEF RepairTypeOK
<1>3. FactsAreKept' /\ CountsAreHeld'
    BY DEF FactsAreKept, CountsAreHeld, Superseded, Overwritten
<1>4. \A k \in Jobs : BaseIsWhole(k, job'[k], handled, daily)
    BY <1>1
<1>5. \A k \in Jobs : BaseIsWhole(k, job'[k], handled', daily')
    BY <1>4
<1>6. (\A k \in Jobs : BaseIsWhole(k, job[k], handled, daily))'
    BY <1>4 DEF BaseIsWhole, Superseded, Overwritten, Window
<1>7. (\A d \in Days : RowIsExplained(d, daily[d], handled, caught[d]))'
    BY DEF RowIsExplained
<1> QED BY <1>2, <1>3, <1>6, <1>7

-------------------------------------------------------------------------------
LEMMA WriteFactKeeps ==
    ASSUME RepairInv, NEW e \in Events, WriteFact(e)
    PROVE  RepairInv'
<1> USE DEF RepairInv
<1>1. /\ handled[e] = "new" /\ UNCHANGED <<daily, caught, job>>
      /\ facts' = {e} \cup {f \in facts : Event[f].type \in Users \/ Event[f].entity # Event[e].entity}
      /\ handled' = [handled EXCEPT ![e] = "written"]
    BY DEF WriteFact, jobVars
<1>2. handled'[e] = "written" /\ \A f \in Events : f # e => handled'[f] = handled[f]
    BY <1>1 DEF RepairTypeOK
<1>3. \A f \in Events : handled[f] \notin Untouched => handled'[f] \notin Untouched
    BY <1>1, <1>2 DEF Untouched
<1>4. \A f \in Events : (Overwritten(f) => Overwritten(f)') /\ (Superseded(f) => Superseded(f)')
    BY <1>3, OverwrittenStays
<1>5. RepairTypeOK'
    BY <1>1 DEF RepairTypeOK
<1>6. FactsAreKept'
    <2>1. \A f \in facts' : handled'[f] \notin Untouched
        BY <1>1, <1>2, <1>3 DEF FactsAreKept, RepairTypeOK, Untouched
    <2>2. ASSUME NEW f \in Events, f # e, handled'[f] \notin Untouched PROVE f \in facts' \/ Superseded(f)'
        <3>1. f \in facts \/ Superseded(f)
            BY <1>2, <2>2 DEF FactsAreKept
        <3>2. CASE f \in facts /\ f \notin facts'
            <4>1. Event[f].type \notin Users /\ Event[f].entity = Event[e].entity
                BY <1>1, <3>2
            <4> QED BY <1>2, <2>2, <4>1 DEF Superseded, Overwritten
        <3> QED BY <1>4, <3>1, <3>2
    <2> QED BY <1>1, <2>1, <2>2 DEF FactsAreKept
<1>7. CountsAreHeld'
    BY <1>1, <1>2, <1>4 DEF CountsAreHeld
<1>8. ASSUME NEW d \in Days PROVE RowIsExplained(d, daily[d], handled, caught[d])'
    <2>1. RowIsExplained(d, daily[d], handled, caught[d]) /\ daily'[d] = daily[d] /\ caught'[d] = caught[d]
        BY <1>1
    <2>2. daily[d] # NoRow => daily[d].base \subseteq Events /\ daily[d].since \subseteq Events
        BY DEF RepairTypeOK, DailyRows
    <2> QED BY <1>1, <1>2, <1>3, <2>1, <2>2 DEF RowIsExplained, Untouched
<1>9. ASSUME NEW j \in Jobs PROVE BaseIsWhole(j, job[j], handled, daily)'
    <2>1. BaseIsWhole(j, job[j], handled, daily) /\ job'[j] = job[j] /\ daily' = daily /\ Window(j)' = Window(j)
        BY <1>1 DEF Window
    <2>2. job[j].base \subseteq Events
        BY DEF RepairTypeOK, JobRecords
    <2> QED BY <1>1, <1>2, <1>3, <1>4, <2>1, <2>2 DEF BaseIsWhole, Untouched
<1> QED BY <1>5, <1>6, <1>7, <1>8, <1>9

LEMMA WorkerDiesKeeps ==
    ASSUME RepairInv, NEW e \in Events, WorkerDies(e)
    PROVE  RepairInv'
<1> USE DEF RepairInv
<1>1. /\ handled[e] = "written" /\ UNCHANGED <<facts, daily, caught, job>>
      /\ handled' = [handled EXCEPT ![e] = "lost"]
    BY DEF WorkerDies, jobVars
<1>2. handled'[e] = "lost" /\ \A f \in Events : f # e => handled'[f] = handled[f]
    BY <1>1 DEF RepairTypeOK
<1>3. \A f \in Events : handled[f] \notin Untouched <=> handled'[f] \notin Untouched
    BY <1>1, <1>2 DEF Untouched
<1>4. \A f \in Events : (Overwritten(f) => Overwritten(f)') /\ (Superseded(f) => Superseded(f)')
    BY <1>3, OverwrittenStays
<1>5. RepairTypeOK'
    BY <1>1 DEF RepairTypeOK
<1>6. FactsAreKept'
    BY <1>1, <1>3, <1>4 DEF FactsAreKept, RepairTypeOK
<1>7. CountsAreHeld'
    BY <1>1, <1>2, <1>4 DEF CountsAreHeld
<1>8. ASSUME NEW d \in Days PROVE RowIsExplained(d, daily[d], handled, caught[d])'
    <2>1. RowIsExplained(d, daily[d], handled, caught[d]) /\ daily'[d] = daily[d] /\ caught'[d] = caught[d]
        BY <1>1
    <2>2. daily[d] # NoRow => daily[d].base \subseteq Events /\ daily[d].since \subseteq Events
        BY DEF RepairTypeOK, DailyRows
    <2> QED BY <1>1, <1>2, <1>3, <2>1, <2>2 DEF RowIsExplained
<1>9. ASSUME NEW j \in Jobs PROVE BaseIsWhole(j, job[j], handled, daily)'
    <2>1. BaseIsWhole(j, job[j], handled, daily) /\ job'[j] = job[j] /\ daily' = daily /\ Window(j)' = Window(j)
        BY <1>1 DEF Window
    <2>2. job[j].base \subseteq Events
        BY DEF RepairTypeOK, JobRecords
    <2> QED BY <1>1, <1>2, <1>3, <1>4, <2>1, <2>2 DEF BaseIsWhole
<1> QED BY <1>5, <1>6, <1>7, <1>8, <1>9

LEMMA CountDailyKeeps ==
    ASSUME RepairInv, NEW e \in Events, CountDaily(e)
    PROVE  RepairInv'
<1> USE DEF RepairInv
<1> DEFINE day == Event[e].day
           row == IF daily[day] = NoRow THEN Row(Zero, {}, {}) ELSE daily[day]
           new == [row EXCEPT !.since = @ \cup {e}]
<1>1. /\ handled[e] = "written" /\ UNCHANGED <<facts, caught, job>>
      /\ daily' = [daily EXCEPT ![day] = new] /\ handled' = [handled EXCEPT ![e] = "counted"]
      /\ Free(day, Jobs)
    BY DEF CountDaily, jobVars
<1>2. handled'[e] = "counted" /\ \A f \in Events : f # e => handled'[f] = handled[f]
    BY <1>1 DEF RepairTypeOK
<1>3. \A f \in Events : handled[f] \notin Untouched <=> handled'[f] \notin Untouched
    BY <1>1, <1>2 DEF Untouched
<1>4. \A f \in Events : (Overwritten(f) => Overwritten(f)') /\ (Superseded(f) => Superseded(f)')
    BY <1>3, OverwrittenStays
<1>5. day \in Days
    BY RepairAssumption
<1>6. row \in DailyRows /\ (daily[day] # NoRow => row = daily[day])
      /\ (daily[day] = NoRow => row.base = {} /\ row.since = {})
    BY <1>5 DEF RepairTypeOK, DailyRows, Row, Zero
<1> HIDE DEF row
<1>7. new \in DailyRows /\ new.start = row.start /\ new.base = row.base /\ new.since = row.since \cup {e}
    BY <1>6 DEF DailyRows
<1> HIDE DEF new
<1>8. new # NoRow
    BY <1>7, NoRowAssumption
<1>9. daily'[day] = new /\ (\A d \in Days : d # day => daily'[d] = daily[d]) /\ daily' \in [Days -> DailyRows \cup {NoRow}]
    BY <1>1, <1>5, <1>7 DEF RepairTypeOK
<1>10. RepairTypeOK'
    BY <1>1, <1>9 DEF RepairTypeOK
<1>11. FactsAreKept'
    BY <1>1, <1>3, <1>4 DEF FactsAreKept, RepairTypeOK
<1>12. ASSUME NEW f \in Events, handled'[f] = "counted"
       PROVE  /\ daily'[Event[f].day] # NoRow
              /\ \/ daily'[Event[f].day].start # Zero
                 \/ f \in daily'[Event[f].day].since \cup daily'[Event[f].day].base
                 \/ Superseded(f)'
    <2>1. CASE f = e
        BY <1>7, <1>8, <1>9, <2>1
    <2>2. CASE f # e
        <3>1. handled[f] = "counted" /\ Event[f].day \in Days
            BY <1>2, <1>12, <2>2, RepairAssumption
        <3>2. /\ daily[Event[f].day] # NoRow
              /\ \/ daily[Event[f].day].start # Zero
                 \/ f \in daily[Event[f].day].since \cup daily[Event[f].day].base
                 \/ Superseded(f)
            BY <3>1 DEF CountsAreHeld
        <3>3. CASE Event[f].day = day
            BY <1>4, <1>6, <1>7, <1>8, <1>9, <3>2, <3>3
        <3>4. CASE Event[f].day # day
            BY <1>4, <1>9, <3>1, <3>2, <3>4
        <3> QED BY <3>3, <3>4
    <2> QED BY <2>1, <2>2
<1>13. CountsAreHeld'
    BY <1>12 DEF CountsAreHeld
<1>14. ASSUME NEW d \in Days PROVE RowIsExplained(d, daily[d], handled, caught[d])'
    <2>1. RowIsExplained(d, daily[d], handled, caught[d]) /\ caught'[d] = caught[d]
        BY <1>1
    <2>2. CASE d = day
        <3>1. daily[d] # NoRow => row = daily[d] /\ row.base \subseteq Events /\ row.since \subseteq Events
            BY <1>6, <2>2 DEF DailyRows
        <3> QED BY <1>1, <1>2, <1>3, <1>6, <1>7, <1>9, <2>1, <2>2, <3>1 DEF RowIsExplained
    <2>3. CASE d # day
        <3>1. daily[d] # NoRow => daily[d].base \subseteq Events /\ daily[d].since \subseteq Events
            BY DEF RepairTypeOK, DailyRows
        <3>2. daily'[d] = daily[d] /\ (daily[d] # NoRow => e \notin daily[d].base)
            BY <1>9, <2>1, <2>3 DEF RowIsExplained
        <3> QED BY <1>1, <1>2, <1>3, <2>1, <3>1, <3>2 DEF RowIsExplained
    <2> QED BY <2>2, <2>3
<1>15. ASSUME NEW j \in Jobs PROVE BaseIsWhole(j, job[j], handled, daily)'
    <2>1. BaseIsWhole(j, job[j], handled, daily) /\ job'[j] = job[j] /\ Window(j)' = Window(j) /\ Window(j) \subseteq Days
        BY <1>1 DEF Window
    <2>2. job[j].base \subseteq Events
        BY DEF RepairTypeOK, JobRecords
    <2>3. \A d \in Days : daily[d] # NoRow => daily'[d] # NoRow
        BY <1>8, <1>9
    <2>4. job[j].step \in {"inserting", "inserted"} =>
            day \notin job[j].deleted /\ (job[j].step = "inserted" => day \notin Window(j))
        BY <1>1 DEF Free, Holds
    <2>5. job[j].step \in {"inserting", "inserted"} =>
            \A f \in job[j].base : handled'[f] \notin Untouched /\ (handled'[f] = "written" => f \in job[j].late)
        BY <1>2, <1>3, <2>1, <2>2 DEF BaseIsWhole
    <2>6. ASSUME job[j].step \in {"inserting", "inserted"}, NEW f \in Events, handled'[f] = "counted", Event[f].day \in Window(j)
          PROVE  \/ f \in job[j].base \/ Superseded(f)'
                 \/ job[j].step = "inserting" /\ Event[f].day \notin job[j].deleted /\ daily'[Event[f].day] # NoRow
        BY <1>2, <1>4, <1>8, <1>9, <2>1, <2>3, <2>4, <2>6 DEF BaseIsWhole
    <2> QED BY <2>1, <2>5, <2>6 DEF BaseIsWhole
<1> QED BY <1>10, <1>11, <1>13, <1>14, <1>15

-------------------------------------------------------------------------------
\* Recount, with its sets named.
OfCounter(rows, c) == {e \in rows : Selected(e, c)}
Entities(rows) == {Event[e].entity : e \in rows}

LEMMA RecountByCounter ==
    ASSUME NEW rows, NEW c \in Counters
    PROVE  Recount(rows, c) = IF c \in {"new_users", "active_users"}
                              THEN Cardinality(Entities(OfCounter(rows, c)))
                              ELSE Cardinality(OfCounter(rows, c))
BY DEF Recount, OfCounter, Entities

\* Events of different entities have as many entities as there are events.
LEMMA EntitiesOfEvents ==
    ASSUME NEW S \in SUBSET Events
    PROVE  /\ IsFiniteSet(S) /\ IsFiniteSet(Entities(S))
           /\ (\A e \in S : \A f \in S : Event[e].entity = Event[f].entity => e = f) => Cardinality(Entities(S)) = Cardinality(S)
<1> DEFINE entity == [e \in S |-> Event[e].entity]
<1>1. IsFiniteSet(S)
    BY RepairAssumption, FS_Subset
<1>2. entity \in Surjection(S, Entities(S))
    BY DEF Surjection, Entities
<1>3. (\A e \in S : \A f \in S : Event[e].entity = Event[f].entity => e = f) => entity \in Injection(S, Entities(S))
    BY DEF Injection, IsInjective, Entities
<1> HIDE DEF entity
<1> QED BY <1>1, <1>2, <1>3, FS_Surjection

LEMMA RecountIsANumber ==
    ASSUME NEW rows \in SUBSET Events, NEW c \in Counters
    PROVE  Recount(rows, c) \in Nat
<1> DEFINE these == OfCounter(rows, c)
<1>1. these \in SUBSET Events
    BY DEF OfCounter
<1>2. IsFiniteSet(these) /\ IsFiniteSet(Entities(these))
    BY <1>1, EntitiesOfEvents
<1> QED BY <1>2, RecountByCounter, FS_CardinalityType

-------------------------------------------------------------------------------
\* Steps that leave what the tables and the transaction hold alone.
LEMMA OtherStepKeeps ==
    ASSUME RepairInv, UNCHANGED <<facts, handled, daily, caught>>, NEW j \in Jobs, NEW step \in JobSteps,
           job' = [job EXCEPT ![j].step = step], step \in {"inserting", "inserted"} => step = job[j].step
    PROVE  RepairInv'
<1> DEFINE k == job[j]
           new == [k EXCEPT !.step = step]
<1>1. job' = [job EXCEPT ![j] = new]
    OBVIOUS
<1>2. k \in JobRecords /\ BaseIsWhole(j, k, handled, daily)
    BY DEF RepairInv, RepairTypeOK
<1>3. (step \in {"inserting", "inserted"} => step = k.step)
    OBVIOUS
<1> HIDE DEF k
<1>4. /\ new \in JobRecords /\ new.step = step /\ new.base = k.base /\ new.late = k.late
      /\ new.deleted = k.deleted
    BY <1>2 DEF JobRecords
<1> HIDE DEF new
<1>5. BaseIsWhole(j, new, handled, daily)
    BY <1>2, <1>3, <1>4 DEF BaseIsWhole
<1> QED BY <1>1, <1>4, <1>5, JobGoesOn DEF k

LEMMA BeginInsertKeeps ==
    ASSUME RepairInv, NEW j \in Jobs, BeginInsert(j)
    PROVE  RepairInv'
<1> DEFINE k == job[j]
           read == UNION {FactsOf(d) : d \in Window(j)}
           half == {e \in Events : handled[e] = "written"}
           new == [k EXCEPT !.step = "inserting", !.base = read, !.late = half]
<1>1. job' = [job EXCEPT ![j] = new] /\ UNCHANGED <<facts, handled, daily, caught>>
    BY DEF BeginInsert, factVars
<1>2. k \in JobRecords
    BY DEF RepairInv, RepairTypeOK
<1> HIDE DEF k
<1>3. \A e \in Events : e \in read <=> e \in facts /\ Event[e].day \in Window(j)
    BY RepairAssumption DEF RepairInv, RepairTypeOK, FactsOf
<1>4. read \subseteq facts /\ facts \subseteq Events
    BY DEF RepairInv, RepairTypeOK, FactsOf
<1>5. \A e \in Events : handled[e] = "written" => e \in half
    OBVIOUS
<1> HIDE DEF read, half
<1>6. new \in JobRecords /\ new.step = "inserting" /\ new.base = read /\ new.late = half
    <2>1. half \subseteq Events
        BY DEF half
    <2> QED BY <1>2, <1>4, <2>1 DEF JobRecords, JobSteps
<1> HIDE DEF new
<1>7. BaseIsWhole(j, new, handled, daily)
    <2>1. \A e \in read : handled[e] \notin Untouched /\ (handled[e] = "written" => e \in half)
        BY <1>4, <1>5 DEF RepairInv, FactsAreKept
    <2>2. \A e \in Events : handled[e] = "counted" /\ Event[e].day \in Window(j) => e \in read \/ Superseded(e)
        BY <1>3 DEF RepairInv, FactsAreKept, Untouched
    <2> QED BY <1>6, <2>1, <2>2 DEF BaseIsWhole
<1> QED BY <1>1, <1>6, <1>7, JobGoesOn DEF k

LEMMA InsertKeeps ==
    ASSUME RepairInv, NEW j \in Jobs, Insert(j)
    PROVE  RepairInv'
<1> DEFINE k == job[j]
           step == IF \E d \in Window(j) \ k.deleted : daily[d] # NoRow THEN "failing" ELSE "inserted"
           new == [k EXCEPT !.step = step]
<1>1. k.step = "inserting" /\ job' = [job EXCEPT ![j] = new] /\ UNCHANGED <<facts, handled, daily, caught>>
    BY DEF Insert, JobIs, JobTo, factVars
<1>2. k \in JobRecords /\ BaseIsWhole(j, k, handled, daily)
    BY DEF RepairInv, RepairTypeOK
<1> HIDE DEF k
<1>3. /\ step \in {"failing", "inserted"}
      /\ step = "inserted" => \A d \in Window(j) : d \notin k.deleted => daily[d] = NoRow
    OBVIOUS
<1> HIDE DEF step
<1>4. new \in JobRecords /\ new.step = step /\ new.base = k.base /\ new.late = k.late /\ new.deleted = k.deleted
    BY <1>2, <1>3 DEF JobRecords, JobSteps
<1> HIDE DEF new
<1>5. BaseIsWhole(j, new, handled, daily)
    BY <1>1, <1>2, <1>3, <1>4 DEF BaseIsWhole
<1> QED BY <1>1, <1>4, <1>5, JobGoesOn DEF k

LEMMA DeleteKeeps ==
    ASSUME RepairInv, NEW j \in Jobs, BeginDelete(j) \/ Delete(j)
    PROVE  RepairInv'
<1> DEFINE k == job[j]
<1>1. k \in JobRecords
    BY DEF RepairInv, RepairTypeOK
<1>2. ASSUME NEW step \in {"deleting", "deleted"}, NEW looked \in SUBSET Days, NEW gone \in SUBSET Days,
             job' = [job EXCEPT ![j] = [k EXCEPT !.step = step, !.seen = looked, !.deleted = gone]],
             UNCHANGED <<facts, handled, daily, caught>>
      PROVE  RepairInv'
    <2> DEFINE new == [k EXCEPT !.step = step, !.seen = looked, !.deleted = gone]
    <2> HIDE DEF k
    <2>1. new \in JobRecords /\ new.step = step
        BY <1>1, <1>2 DEF JobRecords, JobSteps
    <2>2. job' = [job EXCEPT ![j] = new]
        BY <1>2
    <2> HIDE DEF new
    <2>3. BaseIsWhole(j, new, handled, daily)
        BY <2>1 DEF BaseIsWhole
    <2> QED BY <1>2, <2>1, <2>2, <2>3, JobGoesOn
<1>3. CASE BeginDelete(j)
    <2> DEFINE looked == {d \in Window(j) : daily[d] # NoRow}
               new == [k EXCEPT !.step = "deleting", !.seen = looked, !.deleted = k.deleted]
    <2>1. looked \in SUBSET Days /\ k.deleted \in SUBSET Days
        BY <1>1 DEF Window, JobRecords
    <2>2. job' = [job EXCEPT ![j] = [k EXCEPT !.step = "deleting", !.seen = looked]]
          /\ UNCHANGED <<facts, handled, daily, caught>>
        BY <1>3 DEF BeginDelete, factVars
    <2> HIDE DEF k, looked
    <2>3. [k EXCEPT !.step = "deleting", !.seen = looked] = new
        BY <1>1 DEF JobRecords
    <2> QED BY <1>2, <2>1, <2>2, <2>3
<1>4. CASE Delete(j)
    <2> DEFINE new == [k EXCEPT !.step = "deleted", !.seen = k.seen, !.deleted = k.seen]
    <2>1. k.seen \in SUBSET Days
        BY <1>1 DEF JobRecords
    <2>2. job' = [job EXCEPT ![j] = [k EXCEPT !.step = "deleted", !.deleted = k.seen]]
          /\ UNCHANGED <<facts, handled, daily, caught>>
        BY <1>4 DEF Delete, factVars
    <2> HIDE DEF k
    <2>3. [k EXCEPT !.step = "deleted", !.deleted = k.seen] = new
        BY <1>1 DEF JobRecords
    <2> QED BY <1>2, <2>1, <2>2, <2>3
<1> QED BY <1>3, <1>4

\* The commit replaces rows; what they counted is in what was read.
LEMMA CommitKeeps ==
    ASSUME RepairInv, NEW j \in Jobs, Commit(j)
    PROVE  RepairInv'
<1> USE DEF RepairInv
<1>1. PICK step \in {"committed", "failing"} :
        job' = [k \in Jobs |-> IF k = j THEN [job[j] EXCEPT !.step = step] ELSE [job[k] EXCEPT !.seen = @ \ Window(j)]]
    BY DEF Commit
<1>2. /\ job[j].step = "inserted" /\ UNCHANGED <<facts, handled>>
      /\ \A d \in Days : daily'[d] = IF d \in Window(j) THEN RebuiltRow(j, d) ELSE daily[d]
      /\ \A d \in Days : caught'[d] = IF d \in Window(j) THEN job[j].late ELSE caught[d]
      /\ daily' = Rebuilt(j)
      /\ caught' = [d \in Days |-> IF d \in Window(j) THEN job[j].late ELSE caught[d]]
    BY DEF Commit, JobIs, factVars, Rebuilt
<1>3. job[j] \in JobRecords /\ BaseIsWhole(j, job[j], handled, daily)
    BY DEF RepairTypeOK
<1>4. ASSUME NEW d \in Days
      PROVE  /\ RebuiltRow(j, d) \in DailyRows /\ RebuiltRow(j, d) # NoRow
             /\ RebuiltRow(j, d).base = {e \in job[j].base : Event[e].day = d} /\ RebuiltRow(j, d).since = {}
    <2>1. RebuiltRow(j, d) \in DailyRows
        BY <1>3 DEF RebuiltRow, Row, DailyRows, JobRecords, Zero
    <2> QED BY <2>1, NoRowAssumption DEF RebuiltRow, Row
<1>5. ASSUME NEW k \in Jobs
      PROVE  /\ job'[k] \in JobRecords /\ job'[k].base = job[k].base /\ job'[k].late = job[k].late
             /\ job'[k].deleted = job[k].deleted
             /\ job'[k].step \in {"inserting", "inserted"} => job'[k].step = job[k].step
    <2>1. job[k] \in JobRecords /\ job'[k] = IF k = j THEN [job[j] EXCEPT !.step = step] ELSE [job[k] EXCEPT !.seen = @ \ Window(j)]
        BY <1>1 DEF RepairTypeOK
    <2>2. CASE k = j
        BY <2>1, <2>2 DEF JobRecords, JobSteps
    <2>3. CASE k # j
        BY <2>1, <2>3 DEF JobRecords
    <2> QED BY <2>2, <2>3
<1>6. RepairTypeOK'
    <2>1. daily' \in [Days -> DailyRows \cup {NoRow}]
        BY <1>2, <1>4 DEF Rebuilt, RepairTypeOK
    <2>2. caught' \in [Days -> SUBSET Events]
        BY <1>2, <1>3 DEF RepairTypeOK, JobRecords
    <2>3. job' \in [Jobs -> JobRecords]
        BY <1>1, <1>5
    <2> QED BY <1>2, <2>1, <2>2, <2>3 DEF RepairTypeOK
<1>7. FactsAreKept' /\ \A e \in Events : Overwritten(e)' = Overwritten(e) /\ Superseded(e)' = Superseded(e)
    BY <1>2 DEF FactsAreKept, Superseded, Overwritten
<1>8. ASSUME NEW e \in Events, handled'[e] = "counted"
      PROVE  LET row == daily'[Event[e].day]
             IN row # NoRow /\ (row.start # Zero \/ e \in row.since \cup row.base \/ Superseded(e)')
    <2>1. Event[e].day \in Days /\ handled[e] = "counted"
        BY <1>2, <1>8, RepairAssumption
    <2>2. CASE Event[e].day \in Window(j)
        <3>1. e \in job[j].base \/ Superseded(e)
            BY <1>2, <1>3, <2>1, <2>2 DEF BaseIsWhole
        <3> QED BY <1>2, <1>4, <1>7, <2>1, <2>2, <3>1 DEF Superseded
    <2>3. CASE Event[e].day \notin Window(j)
        BY <1>2, <1>7, <2>1, <2>3 DEF CountsAreHeld
    <2> QED BY <2>2, <2>3
<1>9. CountsAreHeld'
    BY <1>8 DEF CountsAreHeld
<1>10. ASSUME NEW d \in Days PROVE RowIsExplained(d, daily[d], handled, caught[d])'
    <2>1. CASE d \in Window(j)
        BY <1>2, <1>3, <1>4, <2>1 DEF RowIsExplained, BaseIsWhole
    <2>2. CASE d \notin Window(j)
        BY <1>2, <2>2 DEF RowIsExplained
    <2> QED BY <2>1, <2>2
<1>11. ASSUME NEW k \in Jobs PROVE BaseIsWhole(k, job[k], handled, daily)'
    <2>1. BaseIsWhole(k, job[k], handled, daily) /\ Window(k)' = Window(k) /\ Window(k) \subseteq Days
        BY DEF Window
    <2>2. \A d \in Days : daily[d] # NoRow => daily'[d] # NoRow
        BY <1>2, <1>4
    <2> QED BY <1>2, <1>5, <1>7, <2>1, <2>2 DEF BaseIsWhole
<1> QED BY <1>6, <1>7, <1>9, <1>10, <1>11

LEMMA ServingIsANumber ==
    ASSUME NEW row \in DailyRows \cup {NoRow}, NEW c \in Counters
    PROVE  Serving(row, c) \in Nat
<1>1. CASE row = NoRow
    BY <1>1 DEF Serving
<1>2. CASE row # NoRow
    <2>1. row.start[c] \in Nat /\ row.base \subseteq Events /\ row.since \subseteq Events
        BY <1>2 DEF DailyRows
    <2>2. Recount(row.base, c) \in Nat
        BY <2>1, RecountIsANumber
    <2>3. Cardinality({e \in row.since : c \in MetricDelta(e)}) \in Nat
        BY <2>1, RepairAssumption, FS_Subset, FS_CardinalityType
    <2> QED BY <1>2, <2>1, <2>2, <2>3 DEF Serving
<1> QED BY <1>1, <1>2

LEMMA SeededIsARow ==
    ASSUME NEW row \in DailyRows \cup {NoRow}
    PROVE  /\ Seeded(row) \in DailyRows /\ Seeded(row).start # Zero
           /\ Seeded(row).base = {} /\ Seeded(row).since = {}
<1> DEFINE start == [c \in Counters |-> IF c \in {"orders", "successes", "active_users"} THEN 1 ELSE Serving(row, c)]
<1>1. start \in [Counters -> Nat]
    BY ServingIsANumber
<1>2. start["orders"] = 1 /\ Zero["orders"] = 0
    BY DEF Counters, Zero
<1>3. Seeded(row) = Row(start, {}, {})
    BY DEF Seeded
<1> HIDE DEF start
<1> QED BY <1>1, <1>2, <1>3 DEF Row, DailyRows

\* Onboarding replaces the counts of its day by values of its own.
LEMMA SeedTableKeeps ==
    ASSUME RepairInv, SeedTable
    PROVE  RepairInv'
<1> USE DEF RepairInv
<1>1. /\ UNCHANGED <<facts, caught, job>>
      /\ daily' = daily \/ daily' = [daily EXCEPT ![Today] = Seeded(daily[Today])]
      /\ handled' = SampleRows \/ handled' = handled
    BY DEF SeedTable, jobVars
<1>2. /\ handled' \in [Events -> Untouched \cup {"written", "counted", "lost"}]
      /\ \A e \in Events : handled'[e] # handled[e] => handled[e] \in Untouched /\ handled'[e] \in Untouched
    BY <1>1 DEF RepairTypeOK, SampleRows, Untouched
<1>3. /\ Seeded(daily[Today]) \in DailyRows /\ Seeded(daily[Today]).start # Zero
      /\ Seeded(daily[Today]).base = {} /\ Seeded(daily[Today]).since = {}
    BY SeededIsARow, RepairAssumption DEF RepairTypeOK
<1>4. \A f \in Events : (Overwritten(f) => Overwritten(f)') /\ (Superseded(f) => Superseded(f)')
    BY <1>2, OverwrittenStays
<1>5. \A e \in Events : (handled'[e] \notin Untouched => handled'[e] = handled[e])
                        /\ (handled[e] \notin Untouched => handled'[e] = handled[e])
    BY <1>2
<1>6. Today \in Days /\ Seeded(daily[Today]) # NoRow
    BY <1>3, NoRowAssumption, RepairAssumption
<1>7. daily' \in [Days -> DailyRows \cup {NoRow}]
      /\ \A d \in Days : daily'[d] = daily[d] \/ daily'[d] = Seeded(daily[Today])
    BY <1>1, <1>3, <1>6 DEF RepairTypeOK
<1>8. RepairTypeOK'
    BY <1>1, <1>2, <1>7 DEF RepairTypeOK
<1>9. FactsAreKept'
    BY <1>1, <1>4, <1>5 DEF FactsAreKept, RepairTypeOK
<1>10. CountsAreHeld'
    <2>1. ASSUME NEW e \in Events, handled'[e] = "counted"
          PROVE  LET row == daily'[Event[e].day]
                 IN row # NoRow /\ (row.start # Zero \/ e \in row.since \cup row.base \/ Superseded(e)')
        <3>1. Event[e].day \in Days /\ handled[e] = "counted"
            BY <1>5, <2>1, RepairAssumption DEF Untouched
        <3> QED BY <1>3, <1>4, <1>6, <1>7, <3>1 DEF CountsAreHeld
    <2> QED BY <2>1 DEF CountsAreHeld
<1>11. ASSUME NEW d \in Days PROVE RowIsExplained(d, daily[d], handled, caught[d])'
    <2>1. RowIsExplained(d, daily[d], handled, caught[d]) /\ caught'[d] = caught[d]
        BY <1>1
    <2>2. CASE daily'[d] = daily[d]
        <3>1. daily[d] # NoRow => daily[d].base \subseteq Events /\ daily[d].since \subseteq Events
            BY DEF RepairTypeOK, DailyRows
        <3> QED BY <1>5, <2>1, <2>2, <3>1 DEF RowIsExplained, Untouched
    <2>3. CASE daily'[d] = Seeded(daily[Today])
        BY <1>3, <2>3 DEF RowIsExplained
    <2> QED BY <1>7, <2>2, <2>3
<1>12. ASSUME NEW k \in Jobs PROVE BaseIsWhole(k, job[k], handled, daily)'
    <2>1. BaseIsWhole(k, job[k], handled, daily) /\ job'[k] = job[k] /\ Window(k)' = Window(k) /\ Window(k) \subseteq Days
        BY <1>1 DEF Window
    <2>2. \A d \in Days : daily[d] # NoRow => daily'[d] # NoRow
        BY <1>6, <1>7
    <2>3. job[k].base \subseteq Events
        BY DEF RepairTypeOK, JobRecords
    <2> QED BY <1>4, <1>5, <2>1, <2>2, <2>3 DEF BaseIsWhole, Untouched
<1> QED BY <1>8, <1>9, <1>10, <1>11, <1>12

LEMMA RepairInvIsKept == RepairInv /\ [RepairNext]_repairVars => RepairInv'
<1> SUFFICES ASSUME RepairInv, [RepairNext]_repairVars PROVE RepairInv'
    OBVIOUS
<1>1. ASSUME NEW j \in Jobs,
             \/ RunBackfill(j) \/ LogSuccess(j) \/ LogFailure(j) \/ EmitLineage(j) \/ StatementFails(j) \/ JobDies(j)
      PROVE  RepairInv'
    <2>1. \E step \in JobSteps \ {"inserting", "inserted"} :
            job' = [job EXCEPT ![j].step = step] /\ UNCHANGED <<facts, handled, daily, caught>>
        BY <1>1 DEF RunBackfill, LogSuccess, LogFailure, EmitLineage, StatementFails, JobDies, JobTo, JobIs, factVars, JobSteps
    <2> QED BY <2>1, OtherStepKeeps
<1>2. ASSUME UNCHANGED <<facts, handled, daily, caught, job>> PROVE RepairInv'
    BY <1>2 DEF RepairInv, RepairTypeOK, FactsAreKept, CountsAreHeld, RowIsExplained, BaseIsWhole, Superseded,
                Overwritten, Window
<1>3. CASE OnboardingStops \/ UNCHANGED repairVars
    BY <1>2, <1>3 DEF OnboardingStops, repairVars, factVars, jobVars
<1> QED
    BY <1>1, <1>3, WriteFactKeeps, CountDailyKeeps, WorkerDiesKeeps, DeleteKeeps, BeginInsertKeeps, InsertKeeps,
       CommitKeeps, SeedTableKeeps DEF RepairNext

\* What the backfill recounts of an event is what the worker adds for it,
\* unless its payload contradicts its type or it is a churn signal, which the
\* backfill takes for an active user.
LEMMA DeltaIsRecounted ==
    ASSUME NEW e \in Events, NEW c \in Counters, ~Contradicts(e)
    PROVE  /\ c \in MetricDelta(e) => Selected(e, c)
           /\ Event[e].type # "churn_signal" \/ c # "active_users" => (Selected(e, c) => c \in MetricDelta(e))
<1> DEFINE type == Event[e].type
           says == Event[e].says
<1>1. type \in {"order"} \cup Payments \cup Users
    BY RepairAssumption DEF Payments, Users
<1>2. MetricDelta(e) = CASE type = "order" -> {"orders"}
                         [] type \in {"authorized", "captured"} -> {"successes"}
                         [] type = "failed" -> {"failures"}
                         [] type = "signed_up" -> {"new_users", "active_users"}
                         [] type = "activity" -> {"active_users"}
                         [] type = "churn_signal" -> {"churn"}
    BY DEF MetricDelta
<1>3. /\ Selected(e, "orders") <=> type = "order"
      /\ Selected(e, "successes") <=> type \in Payments /\ says \in {"authorized", "captured"}
      /\ Selected(e, "failures") <=> type \in Payments /\ says = "failed"
      /\ Selected(e, "new_users") <=> type \in Users /\ says = "signed_up"
      /\ Selected(e, "active_users") <=> type \in Users
      /\ Selected(e, "churn") <=> type \in Users /\ says \in {"churn_signal", "cancel_intent"}
    BY DEF Selected
<1>4. /\ type \in {"authorized", "captured"} => says \in {"authorized", "captured"}
      /\ type \in {"failed", "signed_up"} => says = type
      /\ type = "activity" => says \notin {"signed_up", "churn_signal", "cancel_intent"}
      /\ type = "churn_signal" => says \in {"churn_signal", "cancel_intent"}
    BY DEF Contradicts
<1> HIDE DEF type, says
<1>5. ASSUME NEW given \in {"orders", "successes", "failures", "new_users", "active_users", "churn"}
      PROVE  /\ given \in MetricDelta(e) => Selected(e, given)
             /\ type # "churn_signal" \/ given # "active_users" => (Selected(e, given) => given \in MetricDelta(e))
    <2>1. CASE given = "orders"
        BY <1>1, <1>2, <1>3, <2>1 DEF Payments, Users
    <2>2. CASE given = "successes"
        BY <1>1, <1>2, <1>3, <1>4, <2>2 DEF Payments, Users
    <2>3. CASE given = "failures"
        BY <1>1, <1>2, <1>3, <1>4, <2>3 DEF Payments, Users
    <2>4. CASE given = "new_users"
        BY <1>1, <1>2, <1>3, <1>4, <2>4 DEF Payments, Users
    <2>5. CASE given = "active_users"
        BY <1>1, <1>2, <1>3, <2>5 DEF Payments, Users
    <2>6. CASE given = "churn"
        BY <1>1, <1>2, <1>3, <1>4, <2>6 DEF Payments, Users
    <2> QED BY <2>1, <2>2, <2>3, <2>4, <2>5, <2>6
<1>6. c \in {"orders", "successes", "failures", "new_users", "active_users", "churn"}
    BY DEF Counters
<1> QED BY <1>5, <1>6 DEF type

\* What a worker has counted stays counted, under the counters of its type
\* unless the payload contradicts it, whatever backfills, failures and restarts
\* came in between.
THEOREM CountsAreKept == RepairSpec => []NoCountIsLost
<1>1. RepairInv => NoCountIsLost
    <2>1. \A e \in Events : \A c \in MetricDelta(e) : c \in Counters
        BY RepairAssumption DEF MetricDelta, Counters
    <2>2. \A e \in Events : Contradicts(e) \/ \A c \in MetricDelta(e) : Selected(e, c)
        BY <2>1, DeltaIsRecounted
    <2> QED BY <2>2 DEF RepairInv, CountsAreHeld, NoCountIsLost, Superseded
<1> QED BY <1>1, RepairInvInitially, RepairInvIsKept, PTL DEF RepairSpec

-------------------------------------------------------------------------------
\* A row and the events of its day agree when no event counts twice, none is
\* missing and each has an entity of its own.
LEMMA RowsAgree ==
    ASSUME NEW row \in DailyRows, NEW c \in Counters, NEW rows \in SUBSET Events, row.start = Zero, row # NoRow,
           OfCounter(row.base, c) \cup OfCounter(row.since, c) = OfCounter(rows, c),
           OfCounter(row.base, c) \cap OfCounter(row.since, c) = {},
           \A e \in row.since : c \in MetricDelta(e) <=> Selected(e, c),
           \A e \in OfCounter(rows, c) : \A f \in OfCounter(rows, c) :
               Event[e].entity = Event[f].entity => e = f
    PROVE  Serving(row, c) = Recount(rows, c)
<1> DEFINE base == OfCounter(row.base, c)
           since == OfCounter(row.since, c)
           these == OfCounter(rows, c)
<1>1. base \in SUBSET Events /\ since \in SUBSET Events /\ these \in SUBSET Events
    BY DEF OfCounter, DailyRows
<1>2. {e \in row.since : c \in MetricDelta(e)} = since
    BY DEF OfCounter
<1>3. \A e \in base : \A f \in base : Event[e].entity = Event[f].entity => e = f
    OBVIOUS
<1>4. Recount(row.base, c) = Cardinality(base) /\ Recount(rows, c) = Cardinality(these)
    <2> HIDE DEF base, these
    <2>1. Cardinality(Entities(base)) = Cardinality(base)
        BY <1>1, <1>3, EntitiesOfEvents
    <2>2. Cardinality(Entities(these)) = Cardinality(these)
        BY <1>1, EntitiesOfEvents DEF these
    <2> QED BY <2>1, <2>2, RecountByCounter DEF base, these
<1>5. Serving(row, c) = 0 + Recount(row.base, c) + Cardinality(since)
    BY <1>2 DEF Serving, Zero
<1>6. base \cup since = these /\ base \cap since = {}
    OBVIOUS
<1> HIDE DEF base, since, these
<1>7. IsFiniteSet(base) /\ IsFiniteSet(since)
    BY <1>1, EntitiesOfEvents
<1>8. Cardinality(these) = Cardinality(base) + Cardinality(since) - 0
    BY <1>6, <1>7, FS_Union, FS_EmptySet
<1>9. Cardinality(base) \in Nat /\ Cardinality(since) \in Nat
    BY <1>7, FS_CardinalityType
<1> QED BY <1>4, <1>5, <1>8, <1>9

\* The events that add to a counter are among those its reconciliation is about.
LEMMA DeltasAreChecked ==
    ASSUME NEW e \in Events, NEW check \in Checks, NEW c \in check.counters, c \in MetricDelta(e)
    PROVE  Event[e].type \in check.types
<1> DEFINE type == Event[e].type
<1>1. type \in {"order", "authorized", "captured", "failed", "signed_up", "activity", "churn_signal"}
    BY RepairAssumption
<1>2. MetricDelta(e) = CASE type = "order" -> {"orders"}
                         [] type \in {"authorized", "captured"} -> {"successes"}
                         [] type = "failed" -> {"failures"}
                         [] type = "signed_up" -> {"new_users", "active_users"}
                         [] type = "activity" -> {"active_users"}
                         [] type = "churn_signal" -> {"churn"}
    BY DEF MetricDelta
<1> HIDE DEF type
<1>3. CASE check = RevenueCheck
    BY <1>1, <1>2, <1>3 DEF RevenueCheck, type
<1>4. CASE check = PaymentCheck
    BY <1>1, <1>2, <1>4 DEF PaymentCheck, Payments, type
<1>5. CASE check = CustomerCheck
    BY <1>1, <1>2, <1>5 DEF CustomerCheck, Users, type
<1> QED BY <1>3, <1>4, <1>5 DEF Checks

LEMMA AlarmHasAReason ==
    ASSUME RepairInv, NEW check \in Checks, NEW d \in Days,
           daily[d] = NoRow \/ daily[d].start = Zero,
           \A e \in Events : Event[e].type \in check.types =>
               /\ Event[e].day = d => handled[e] \notin {"written", "lost"} /\ e \notin caught[d]
               /\ Event[e].day = d /\ handled[e] = "counted" => Event[e].type # "churn_signal" /\ ~Contradicts(e)
               /\ handled[e] \notin Untouched => ~Overwritten(e),
           NEW c \in check.counters
    PROVE  Serving(daily[d], c) = Recount(FactsOf(d), c)
<1> DEFINE row == daily[d]
           these == OfCounter(FactsOf(d), c)
<1>1. c \in Counters /\ \A e \in Events : Selected(e, c) => Event[e].type \in check.types
    <2>1. CASE check = RevenueCheck
        BY <2>1 DEF RevenueCheck, Counters, Selected
    <2>2. CASE check = PaymentCheck
        BY <2>2 DEF PaymentCheck, Counters, Selected
    <2>3. CASE check = CustomerCheck
        BY <2>3 DEF CustomerCheck, Counters, Selected
    <2> QED BY <2>1, <2>2, <2>3 DEF Checks
<1>2. facts \subseteq Events /\ handled \in [Events -> Untouched \cup {"written", "counted", "lost"}]
      /\ row \in DailyRows \cup {NoRow} /\ RowIsExplained(d, row, handled, caught[d])
    BY DEF RepairInv, RepairTypeOK
<1>3. \A e \in Events : Event[e].type \in check.types /\ Event[e].day = d =>
        (e \in facts <=> handled[e] = "counted") /\ (handled[e] \notin Untouched => handled[e] = "counted")
    BY <1>2 DEF RepairInv, FactsAreKept, Superseded, Untouched
<1>4. \A e \in Events : e \in these <=> Selected(e, c) /\ Event[e].day = d /\ e \in facts
    BY <1>2 DEF OfCounter, FactsOf
<1>5. these \subseteq Events /\ FactsOf(d) \in SUBSET Events
    BY <1>2 DEF OfCounter, FactsOf
<1>6. \A e \in these : row # NoRow /\ (row.start = Zero => e \in row.since \cup row.base)
    <2>1. ASSUME NEW e \in these
          PROVE  row # NoRow /\ (row.start = Zero => e \in row.since \cup row.base)
        <3>1. e \in Events /\ Event[e].type \in check.types /\ Event[e].day = d /\ handled[e] = "counted"
            BY <1>1, <1>3, <1>4, <1>5, <2>1
        <3>2. ~Overwritten(e)
            BY <3>1 DEF Untouched
        <3> QED BY <3>1, <3>2 DEF RepairInv, CountsAreHeld, Superseded
    <2> QED BY <2>1
<1>7. CASE row = NoRow
    <2>1. these = {}
        BY <1>6, <1>7
    <2>2. Entities(these) = {}
        BY <2>1 DEF Entities
    <2>3. Recount(FactsOf(d), c) = 0
        BY <1>1, <2>1, <2>2, RecountByCounter, FS_EmptySet
    <2> QED BY <1>7, <2>3 DEF Serving
<1>8. CASE row # NoRow
    <2>1. row \in DailyRows /\ row.base \subseteq Events /\ row.since \subseteq Events /\ row.start = Zero
        BY <1>2, <1>8 DEF DailyRows
    <2> HIDE DEF these, row
    <2>2. /\ \A e \in row.base \cup row.since : Event[e].day = d
          /\ \A e \in row.base : handled[e] \notin Untouched
          /\ \A e \in row.since : handled[e] = "counted"
          /\ \A e \in row.base : e \in row.since => e \in caught[d]
        BY <1>2, <1>8 DEF RowIsExplained
    <2>3. \A e \in Events : Selected(e, c) => (e \in these <=> e \in row.base \cup row.since)
        BY <1>1, <1>3, <1>4, <1>6, <2>1, <2>2 DEF Untouched
    <2>4. OfCounter(row.base, c) \cup OfCounter(row.since, c) = these
        BY <1>4, <1>5, <2>1, <2>3 DEF OfCounter
    <2>5. OfCounter(row.base, c) \cap OfCounter(row.since, c) = {}
        BY <1>1, <2>1, <2>2 DEF OfCounter
    <2>6. ASSUME NEW e \in row.since PROVE c \in MetricDelta(e) <=> Selected(e, c)
        <3>1. e \in Events /\ Event[e].day = d /\ handled[e] = "counted"
            BY <2>1, <2>2
        <3>2. c \in MetricDelta(e) => Event[e].type \in check.types
            BY <3>1, DeltasAreChecked
        <3>3. CASE Event[e].type \in check.types
            BY <1>1, <3>1, <3>3, DeltaIsRecounted
        <3>4. CASE Event[e].type \notin check.types
            BY <1>1, <3>1, <3>2, <3>4
        <3> QED BY <3>3, <3>4
    <2>7. ASSUME NEW e \in these, NEW f \in these, Event[e].entity = Event[f].entity PROVE e = f
        <3>1. e \in Events /\ f \in Events /\ handled[e] = "counted" /\ handled[f] = "counted" /\ Event[e].type \in check.types
            BY <1>1, <1>3, <1>4, <1>5
        <3> QED BY <2>7, <3>1 DEF Overwritten, Untouched
    <2>8. Serving(row, c) = Recount(FactsOf(d), c)
        BY <1>1, <1>5, <1>8, <2>1, <2>4, <2>5, <2>6, <2>7, RowsAgree DEF these
    <2> QED BY <2>8 DEF row
<1> QED BY <1>7, <1>8

\* A reconciliation that fails has a reason among those that the property names.
THEOREM AlarmsHaveReasons == RepairSpec => []AlarmsAreExplained
<1>1. ASSUME RepairInv, NEW check \in Checks, NEW d \in Days, Verdict(check, d) = "failed",
             ~(daily[d] # NoRow /\ daily[d].start # Zero)
      PROVE  \E e \in Events :
                /\ Event[e].type \in check.types
                /\ \/ Event[e].day = d /\ handled[e] \in {"written", "lost"}
                   \/ Event[e].day = d /\ e \in caught[d]
                   \/ Event[e].day = d /\ handled[e] = "counted" /\ Event[e].type = "churn_signal"
                   \/ Event[e].day = d /\ handled[e] = "counted" /\ Contradicts(e)
                   \/ handled[e] \notin {"absent", "new", "seeded"} /\ Overwritten(e)
    <2>1. ~\A c \in check.counters : Serving(daily[d], c) = Recount(FactsOf(d), c)
        BY <1>1 DEF Verdict
    <2> QED BY <1>1, <2>1, AlarmHasAReason DEF Untouched
<1>2. RepairInv => AlarmsAreExplained
    BY <1>1 DEF AlarmsAreExplained
<1> QED BY <1>2, RepairInvInitially, RepairInvIsKept, PTL DEF RepairSpec
===============================================================================
