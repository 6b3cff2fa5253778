--------------------------- MODULE StreamingRecords ---------------------------
(***************************************************************************)
(* What the streaming job decides about one Kafka record, from its text    *)
(* and the clock alone: parsing, contract validation, lateness.  A record  *)
(* is a model value with the set of its flaws; event time and the clock    *)
(* count triggers, the unit in which two batches of a query differ.        *)
(***************************************************************************)
EXTENDS Integers, Sequences, SequencesExt

CONSTANTS
    Records,    \* the values producers put on the subscribed topics
    Flaws,      \* what is wrong with each record's text
    EventKey,   \* its (tenant_id, event_id)
    Tenant,     \* its tenant_id; NoTenant when absent
    NoTenant,
    TenantFilter, \* STREAMING_TENANT_FILTER; {} when unset
    EventTime,  \* its event_timestamp, the producer's: nothing compares it with a clock
    OnTimeLimit,  \* late_accept_threshold_seconds
    RejectLimit,  \* late_reject_threshold_seconds
    WatermarkDelay

\* The checks of validate_events in the order of its when-chain.
Reasons == <<"malformed_json", "missing_required_envelope_fields",
             "invalid_event_timestamp", "missing_tenant_id",
             "unknown_event_type", "unsupported_payload_version",
             "missing_required_payload_fields">>

Late == "event_time_watermark_exceeded"

\* validate_config refuses to start the job otherwise.
ValidConfig ==
    /\ {OnTimeLimit, RejectLimit, WatermarkDelay} \subseteq Nat
    /\ OnTimeLimit < RejectLimit
    /\ RejectLimit <= WatermarkDelay

ASSUME ConfigAssumption == ValidConfig

ASSUME RecordsAssumption ==
    /\ Flaws \in [Records -> SUBSET Range(Reasons)]
    /\ EventTime \in [Records -> Int]
    /\ DOMAIN Tenant = Records
    /\ DOMAIN EventKey = Records

\* Text that is not JSON parses to a row whose every column is null.
Parsed(r) ==
    IF "malformed_json" \in Flaws[r]
    THEN {"malformed_json", "missing_required_envelope_fields"}
    ELSE Flaws[r]

ValidationReason(r) ==
    IF Parsed(r) = {} THEN "valid"
    ELSE Reasons[CHOOSE i \in DOMAIN Reasons :
                    /\ Reasons[i] \in Parsed(r)
                    /\ \A j \in 1..(i - 1) : Reasons[j] \notin Parsed(r)]

Valid(r) == ValidationReason(r) = "valid"

ParsedTenant(r) == IF "malformed_json" \in Flaws[r] THEN NoTenant ELSE Tenant[r]

\* A null tenant is in no list, so the filter drops unparsable records too.
PassesFilter(r) == TenantFilter = {} \/ ParsedTenant(r) \in TenantFilter

Lateness(r, at) == at - EventTime[r]

Classification(r, at) ==
    CASE Lateness(r, at) <= OnTimeLimit -> "on_time"
      [] Lateness(r, at) > OnTimeLimit /\ Lateness(r, at) <= RejectLimit -> "late_accepted"
      [] OTHER -> "late_rejected"

Aggregatable(r, at) == Classification(r, at) # "late_rejected"

\* The watermark after a batch whose latest valid event time is t.
WatermarkAfter(w, t) == IF t - WatermarkDelay > w THEN t - WatermarkDelay ELSE w
===============================================================================
