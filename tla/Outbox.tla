-------------------------------- MODULE Outbox --------------------------------
(***************************************************************************)
(* The event outbox: rows a service commits with its own data, and the     *)
(* statements of sql/outbox with which dispatchers publish them.  The      *)
(* dispatcher's loop is the plan of outbox_dispatch_plan.py: lease a batch,*)
(* publish each row, mark it published or failed.                          *)
(*                                                                         *)
(* Abstractions: a batch is one row (batch_size binds no property); the    *)
(* clock is the set of failed rows whose retry delay has passed.           *)
(***************************************************************************)
EXTENDS Integers, FiniteSets

CONSTANTS
    Dispatchers,
    Rows,         \* the rows of event_outbox
    NoLease,
    MaxAttempts,
    MaxCrashes    \* bound: dispatcher crashes

VARIABLES
    status,       \* event_outbox.status
    attempts,     \* event_outbox.attempts
    available,    \* the rows with available_at <= now()
    lease,        \* per dispatcher, the row it got from the lease statement
    sent,         \* per dispatcher, what publish did: "no", "yes", "error"
    published,    \* the rows whose event is in its domain topic
    crashes

table == <<status, attempts, available>>
dispatchers == <<lease, sent, crashes>>
outboxVars == <<table, dispatchers, published>>

ASSUME OutboxAssumption ==
    /\ NoLease \notin Rows
    /\ MaxAttempts \in Nat \ {0}
    /\ MaxCrashes \in Nat

OutboxInit ==
    /\ status = [r \in Rows |-> "pending"]
    /\ attempts = [r \in Rows |-> 0]
    /\ available = Rows
    /\ lease = [d \in Dispatchers |-> NoLease]
    /\ sent = [d \in Dispatchers |-> "no"]
    /\ published = {}
    /\ crashes = 0

\* Mutant: rows of a lease that lasts too long are leased again.
AlsoLeased(r) == status[r] \in {"pending", "publishing"} /\ r \in available

Leasable(r) == status[r] = "pending" /\ r \in available

\* for update skip locked: two leases never meet in one row.
LeasePending(d, r) ==
    /\ lease[d] = NoLease
    /\ Leasable(r)
    /\ status' = [status EXCEPT ![r] = "publishing"]
    /\ attempts' = [attempts EXCEPT ![r] = @ + 1]
    /\ lease' = [lease EXCEPT ![d] = r]
    /\ sent' = [sent EXCEPT ![d] = "no"]
    /\ UNCHANGED <<available, published, crashes>>

\* KafkaEventProducer.publish, which may raise although the event was sent.
PublishRow(d) ==
    /\ lease[d] # NoLease /\ sent[d] = "no"
    /\ \/ published' = published \cup {lease[d]} /\ sent' = [sent EXCEPT ![d] = "yes"]
       \/ published' \in {published, published \cup {lease[d]}}
          /\ sent' = [sent EXCEPT ![d] = "error"]
    /\ UNCHANGED <<table, lease, crashes>>

DropLease(d) == lease' = [lease EXCEPT ![d] = NoLease]

\* Mutant: marked as published before the send.
MarkUnsent(d) == sent[d] \in {"no", "yes"}

MayMark(d) == sent[d] = "yes"

MarkPublished(d) ==
    /\ lease[d] # NoLease /\ MayMark(d)
    /\ status' = [status EXCEPT ![lease[d]] = "published"]
    /\ DropLease(d)
    /\ UNCHANGED <<attempts, available, published, sent, crashes>>

\* Back to pending with a delay; for good once the attempts are used up.
MarkFailed(d) ==
    /\ lease[d] # NoLease /\ sent[d] = "error"
    /\ status' = [status EXCEPT ![lease[d]] =
          IF attempts[lease[d]] >= MaxAttempts THEN "failed" ELSE "pending"]
    /\ available' = available \ {lease[d]}
    /\ DropLease(d)
    /\ UNCHANGED <<attempts, published, sent, crashes>>

RetryDelayEnds(r) ==
    /\ r \notin available
    /\ available' = available \cup {r}
    /\ UNCHANGED <<status, attempts, dispatchers, published>>

\* The row stays in publishing: no statement of sql/outbox takes it up again.
CrashDispatcher(d) ==
    /\ crashes < MaxCrashes
    /\ lease[d] # NoLease
    /\ crashes' = crashes + 1
    /\ DropLease(d)
    /\ UNCHANGED <<table, sent, published>>

Dispatch(d) ==
    \/ \E r \in Rows : LeasePending(d, r)
    \/ PublishRow(d) \/ MarkPublished(d) \/ MarkFailed(d) \/ CrashDispatcher(d)

OutboxNext ==
    \/ \E d \in Dispatchers : Dispatch(d)
    \/ \E r \in Rows : RetryDelayEnds(r)

OutboxSpec == OutboxInit /\ [][OutboxNext]_outboxVars

-------------------------------------------------------------------------------
(* Properties.                                                             *)

\* The table never claims too much: a row marked published has its event in the
\* topic, and a row given up has used every attempt.
MarksAreTrue ==
    \A r \in Rows :
        /\ status[r] = "published" => r \in published
        /\ status[r] = "failed" => attempts[r] >= MaxAttempts

\* A row that is published or given up is never dispatched again.
FinalRowsStay ==
    [][\A r \in Rows :
        status[r] \in {"published", "failed"} => status'[r] = status[r]]_outboxVars
===============================================================================
