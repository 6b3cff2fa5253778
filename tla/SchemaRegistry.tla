---------------------------- MODULE SchemaRegistry ----------------------------
(***************************************************************************)
(* The schema registry service: concurrent registrations and dry-run       *)
(* checks of one subject.  Each awaited repository call is one             *)
(* autocommitted statement, so the requests interleave between any two of  *)
(* them; only the primary key (subject, version) keeps them apart.         *)
(*                                                                         *)
(* Abstractions: subjects share no state, so there is one; nothing in the  *)
(* service changes its mode once the row is there, so get_subject and the  *)
(* read after it are one step; schemas the rules do not tell apart are     *)
(* one.                                                                    *)
(***************************************************************************)
EXTENDS Integers, SchemaCompatibility

CONSTANTS
    Requests,    \* POSTs with a schema
    DryRuns,     \* those that only ask whether it is compatible
    Candidate,   \* the schema_json of each request
    Mode,        \* the compatibility mode a new subject gets
    NoSubject,   \* the subject has no row yet
    MaxFailures  \* bound: requests that die at a database call, each retried

ASSUME RegistryAssumption ==
    /\ DryRuns \subseteq Requests
    /\ Candidate \in [Requests -> Schemas]
    /\ Mode \in Modes
    /\ NoSubject \notin Modes
    /\ MaxFailures \in Nat

VARIABLES
    subject,     \* schema_registry_subjects: its compatibility_mode
    rows,        \* schema_registry_versions: version -> schema_json
    checks,      \* schema_registry_compatibility_checks: the verdicts, each with its
                 \* request and checked_against_version, which the table does not keep
    step,        \* per request, its next call, or its answer
    base,        \* per request, checked_against_version (0: None)
    failures     \* how many more calls may die

vars == <<subject, rows, checks, step, base, failures>>

-------------------------------------------------------------------------------

\* A dry run does not create the subject and is not compared for equality.
First(r) == IF r \in DryRuns THEN "evaluate" ELSE "ensure"

Init ==
    /\ subject = NoSubject
    /\ rows = [v \in {} |-> Absent]
    /\ checks = {}
    /\ step = [r \in Requests |-> First(r)]
    /\ base = [r \in Requests |-> 0]
    /\ failures = MaxFailures

Goto(r, next) == step' = [step EXCEPT ![r] = next]

Call(r, at, next) == step[r] = at /\ Goto(r, next)

\* order by version desc limit 1
IsLatest(v) ==
    IF DOMAIN rows = {} THEN v = 0
    ELSE v \in DOMAIN rows /\ \A u \in DOMAIN rows : u <= v

EnsureSubject(r) ==
    /\ Call(r, "ensure", "latest")
    /\ subject' = IF subject = NoSubject THEN Mode ELSE subject
    /\ UNCHANGED <<rows, checks, base, failures>>

\* The first read of the latest version: a schema equal to it is answered with it.
ReadLatest(r) ==
    /\ step[r] = "latest"
    /\ \E v \in DOMAIN rows \cup {0} :
          /\ IsLatest(v)
          /\ Goto(r, IF v # 0 /\ rows[v] = Candidate[r] THEN "200" ELSE "evaluate")
    /\ UNCHANGED <<subject, rows, checks, base, failures>>

Passes(r) == base[r] = 0 \/ Compatible(rows[base[r]], Candidate[r], subject)

\* _evaluate_compatibility reads the latest version again.
Evaluate(r) ==
    /\ Call(r, "evaluate", "record")
    /\ \E v \in DOMAIN rows \cup {0} :
          /\ IsLatest(v)
          /\ base' = [base EXCEPT ![r] = v]
    /\ UNCHANGED <<subject, rows, checks, failures>>

\* Mutant: a candidate that fails is recorded and registered all the same.
VerdictIgnored(r) == IF r \in DryRuns THEN "200" ELSE "insert"

\* A dry run answers with the verdict; a registration goes on, or ends with a 409.
AfterCheck(r) == IF r \in DryRuns THEN "200" ELSE IF Passes(r) THEN "insert" ELSE "409"

RecordCheck(r) ==
    /\ Call(r, "record", AfterCheck(r))
    /\ checks' = checks \cup {<<r, base[r], Passes(r)>>}
    /\ UNCHANGED <<subject, rows, base, failures>>

\* Mutant: the first version is version 0.
FromZero(r) == IF base[r] = 0 THEN 0 ELSE base[r] + 1

\* Mutant: the insert itself computes the version after the latest one.
NumberedByInsert(r) == (CHOOSE v \in DOMAIN rows \cup {0} : IsLatest(v)) + 1

NextVersion(r) == base[r] + 1

\* Mutant: insert ... on conflict do update.
Upsert(r) ==
    /\ Call(r, "insert", "201")
    /\ rows' = [v \in DOMAIN rows \cup {NextVersion(r)} |->
                  IF v = NextVersion(r) THEN Candidate[r] ELSE rows[v]]
    /\ UNCHANGED <<subject, checks, base, failures>>

\* The insert has no on conflict clause: the loser of a race gets a 500.
RegisterVersion(r) ==
    /\ step[r] = "insert"
    /\ \/ /\ NextVersion(r) \notin DOMAIN rows
          /\ rows' = [v \in DOMAIN rows \cup {NextVersion(r)} |->
                        IF v = NextVersion(r) THEN Candidate[r] ELSE rows[v]]
          /\ Goto(r, "201")
       \/ /\ NextVersion(r) \in DOMAIN rows
          /\ Goto(r, "500")
          /\ UNCHANGED rows
    /\ UNCHANGED <<subject, checks, base, failures>>

Waiting == {"ensure", "latest", "evaluate", "record", "insert"}

\* A call raises, or the client never gets the answer it was sent.
Fail(r) ==
    /\ step[r] \in Waiting \cup {"201"}
    /\ failures > 0
    /\ failures' = failures - 1
    /\ Goto(r, "500")
    /\ UNCHANGED <<subject, rows, checks, base>>

\* The bootstrap and the CI jobs are run again after an error.
Retry(r) ==
    /\ Call(r, "500", First(r))
    /\ UNCHANGED <<subject, rows, checks, base, failures>>

Next ==
    \E r \in Requests :
        \/ EnsureSubject(r) \/ ReadLatest(r) \/ Evaluate(r)
        \/ RecordCheck(r) \/ RegisterVersion(r) \/ Fail(r) \/ Retry(r)

Spec == Init /\ [][Next]_vars

-------------------------------------------------------------------------------
(* Properties.                                                             *)

\* Types, with the rows numbered 1, 2, ... without a gap.
TypeOK ==
    /\ subject \in {NoSubject, Mode}
    /\ DOMAIN rows \subseteq Nat \ {0}
    /\ \A v \in DOMAIN rows : 1 .. v \subseteq DOMAIN rows
    /\ rows \in [DOMAIN rows -> Schemas]
    /\ checks \subseteq Requests \X Nat \X BOOLEAN
    /\ step \in [Requests -> Waiting \cup {"200", "201", "409", "500"}]
    /\ base \in [Requests -> DOMAIN rows \cup {0}]
    /\ failures \in Nat

\* The check looks at the latest version only, and requests race between the
\* check and the insert; still every version is compatible with every earlier
\* one, as long as no version between them has a schema-valued
\* additionalProperties, which the rules treat as neither open nor closed.
HistoryCompatible ==
    \A i, j \in DOMAIN rows :
       /\ i < j
       /\ \A k \in i .. j : rows[k].additional # "schema"
       => Compatible(rows[i], rows[j], Mode)

\* schema_compatibility.py:10-13: data written against an old version is still
\* read by every later one - for a closed version, and modes that promise it.
ClosedDataStaysReadable ==
    Mode \in {"BACKWARD", "FULL"} =>
       \A i, j \in DOMAIN rows :
          i < j /\ rows[i].additional = "closed" =>
             \A doc \in Documents : Accepts(rows[i], doc) => Accepts(rows[j], doc)

\* A version, once there, is what it is for good, however requests race.
VersionsImmutable ==
    [][\A v \in DOMAIN rows : v \in DOMAIN rows' /\ rows'[v] = rows[v]]_vars

\* A version answers for a recorded check that its registration passed against
\* the version just before it, not against one that was the latest when its
\* request began, and not for the check of a dry run.
ChecksAreAgainstPredecessor ==
    \A v \in DOMAIN rows :
       \E r \in Requests \ DryRuns : Candidate[r] = rows[v] /\ <<r, v - 1, TRUE>> \in checks

\* main.py:208-210 "re-submitting the exact schema already registered as the
\* latest version for this subject is a no-op": no version repeats the one
\* before it.
NoRedundantVersion ==
    \A v \in DOMAIN rows : v > 1 => rows[v] # rows[v - 1]
===============================================================================
