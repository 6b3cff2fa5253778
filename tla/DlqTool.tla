-------------------------------- MODULE DlqTool --------------------------------
(***************************************************************************)
(* dlq_tool.py replay: read the dead-letter topic from its start (the tool *)
(* commits no offset), republish the original event of each record that    *)
(* matches, and audit what became of it.                                   *)
(*                                                                         *)
(* A dead letter is a record of the topic by its shape.                    *)
(***************************************************************************)
EXTENDS Integers, Sequences, SequencesExt, FiniteSets, FiniteSetsExt

CONSTANTS
    Letters,      \* the dead-letter topic, as a sequence of [event, part, shape]
    Commands,     \* replay invocations: [only, max, dry, newId, audited]
    NoEvent,
    MaxRuns       \* bound: invocations

VARIABLES
    runs,         \* the invocations so far
    command,      \* the one that runs, or NoEvent
    todo,         \* its records that are not handled yet
    step,         \* "publish" or "audit"
    replays,      \* what it published: [event, id, causation, run]
    audits        \* dlq_replay_audit: [event, status, run]

dlqVars == <<runs, command, todo, step, replays, audits>>

\* "wrapped" by publish_dlq, "bare" without an original event, "raw" from the
\* streaming job, "broken" when its raw value is no envelope.
Shapes == {"wrapped", "bare", "raw", "broken"}

ASSUME DlqAssumption ==
    /\ MaxRuns \in Nat /\ NoEvent \notin Commands
    /\ \A i \in DOMAIN Letters : Letters[i].shape \in Shapes

DlqInit ==
    /\ runs = <<>>
    /\ command = NoEvent
    /\ todo = <<>>
    /\ step = "publish"
    /\ replays = {}
    /\ audits = {}

\* extract_dlq_record finds an original event in these.
HasOriginal(l) == l.shape \in {"wrapped", "raw"}

Matches(c, l) == c.only \in {NoEvent, l.event}

\* The partitions are read side by side: a read covers a prefix of each.
IsRead(R) ==
    \A i \in R, j \in DOMAIN Letters :
        j < i /\ Letters[j].part = Letters[i].part => j \in R

Found(c, R) == {i \in R : Matches(c, Letters[i])}

LastFound(c, R) ==
    {i \in Found(c, R) : \A j \in R : Letters[j].part = Letters[i].part => j <= i}

\* read_dlq_records: three empty polls end it anywhere. At max the break ends
\* one partition's loop; the poll's others still add a record each.
Reads(c) ==
    {R \in SUBSET DOMAIN Letters : IsRead(R)
        /\ Cardinality(Found(c, R)) - Cardinality(LastFound(c, R)) < c.max}

\* extract_dlq_record raises on a broken record.
Unreadable(R) == \E i \in R : Letters[i].shape = "broken"

DlqRecords(c, R) ==
    LET found == SetToSortSeq(Found(c, R), <) IN [k \in DOMAIN found |-> Letters[found[k]]]

StartReplay(c) ==
    /\ command = NoEvent
    /\ Len(runs) < MaxRuns
    /\ runs' = Append(runs, c)
    /\ \E R \in Reads(c) :
          IF Unreadable(R) THEN UNCHANGED <<command, todo>>
          ELSE command' = c /\ todo' = DlqRecords(c, R)
    /\ step' = "publish"
    /\ UNCHANGED <<replays, audits>>

Replaying == command # NoEvent /\ todo # <<>>

Record == Head(todo)

\* model_copy: the operator's successor id, with the original as its cause.
Successor(c, l) ==
    IF c.newId = NoEvent
    THEN [event |-> l.event, id |-> l.event, causation |-> NoEvent, run |-> Len(runs)]
    ELSE [event |-> l.event, id |-> c.newId, causation |-> l.event, run |-> Len(runs)]

Audit(status) ==
    audits' = IF command.audited
              THEN audits \cup {[event |-> Record.event, status |-> status, run |-> Len(runs)]}
              ELSE audits

NextRecord == todo' = Tail(todo) /\ step' = "publish"

SkipRecord ==
    /\ Replaying /\ step = "publish"
    /\ ~HasOriginal(Record)
    /\ Audit("skipped")
    /\ NextRecord
    /\ UNCHANGED <<runs, command, replays>>

\* Mutant: the audit rows are written after the loop.
AuditAtEnd == todo' = Tail(todo) /\ step' = "publish"

AfterPublish == step' = "audit" /\ UNCHANGED todo

\* publish, or nothing in a dry run; the audit row is the next call.
ReplayRecord ==
    /\ Replaying /\ step = "publish"
    /\ HasOriginal(Record)
    /\ replays' = IF command.dry THEN replays ELSE replays \cup {Successor(command, Record)}
    /\ AfterPublish
    /\ UNCHANGED <<runs, command, audits>>

\* publish raises after its retries, with or without a copy in the topic.
ReplayFails ==
    /\ Replaying /\ step = "publish"
    /\ HasOriginal(Record) /\ ~command.dry
    /\ replays' \in {replays, replays \cup {Successor(command, Record)}}
    /\ Audit("failed")
    /\ NextRecord
    /\ UNCHANGED <<runs, command>>

StatusOf(c) == IF c.dry THEN "dry_run" ELSE "replayed"

AuditReplay ==
    /\ Replaying /\ step = "audit"
    /\ Audit(StatusOf(command))
    /\ NextRecord
    /\ UNCHANGED <<runs, command, replays>>

\* The loop ends; or the process dies, or an audit insert raises, in it.
EndReplay ==
    /\ command # NoEvent
    /\ command' = NoEvent
    /\ todo' = <<>>
    /\ step' = "publish"
    /\ UNCHANGED <<runs, replays, audits>>

DlqNext ==
    \/ \E c \in Commands : StartReplay(c)
    \/ SkipRecord \/ ReplayRecord \/ ReplayFails \/ AuditReplay \/ EndReplay

DlqSpec == DlqInit /\ [][DlqNext]_dlqVars

-------------------------------------------------------------------------------
(* Properties.                                                             *)

\* Wherever an invocation dies, at most one of its replays lacks an audit row.
OneReplayUnaudited ==
    \A n \in DOMAIN runs : runs[n].audited =>
        Cardinality({r.event : r \in {x \in replays : x.run = n}}
                    \ {a.event : a \in {x \in audits : x.run = n}}) <= 1
===============================================================================
